-------------------------- MODULE TransportProofs --------------------------
(***************************************************************************)
(* Proofs about the transport.                                             *)
(***************************************************************************)
EXTENDS TransportInvariant, FiniteSetTheorems, SequenceTheorems, TLAPS

-----------------------------------------------------------------------------
(***************************************************************************)
(* Sequences, and the two peers.                                           *)
(***************************************************************************)

\* There are two peers, each the other's other.
LEMMA OtherPeer ==
    ASSUME NEW p \in Peer
    PROVE  /\ Other(p) \in Peer /\ Other(p) # p /\ Other(Other(p)) = p
           /\ \A x \in Peer : x = p \/ x = Other(p)
<1>1. PICK a \in Peer, b \in Peer : a # b /\ Peer = {a, b}
  BY PeerAssumption
<1>2. ASSUME NEW x \in Peer
      PROVE  Other(x) \in Peer /\ Other(x) # x
  <2>1. \E y \in Peer : y # x
    BY <1>1
  <2> QED
    BY <2>1, Zenon DEF Other
<1> QED
  BY <1>1, <1>2

\* A sequence begins itself, and what it begins the longer ones begin with.
LEMMA BeginsOrder ==
    ASSUME NEW S, NEW s \in Seq(S), NEW t \in Seq(S), NEW u \in Seq(S)
    PROVE  /\ Begins(s, s)
           /\ Begins(s, t) /\ Begins(t, u) => Begins(s, u)
<1>1. Len(s) \in Nat /\ Len(t) \in Nat /\ Len(u) \in Nat
  OBVIOUS
<1> QED
  BY <1>1 DEF Begins

\* A sequence begins every extension of it.
LEMMA BeginsConcat ==
    ASSUME NEW S, NEW s \in Seq(S), NEW t \in Seq(S)
    PROVE  Begins(s, s \o t)
BY DEF Begins

\* The same for messages.
LEMMA BeginsChain ==
    ASSUME NEW s \in Seq(Message), NEW t \in Seq(Message), NEW u \in Seq(Message),
           Begins(s, t), Begins(t, u)
    PROVE  Begins(s, u)
BY BeginsOrder

\* A sequence that begins another is its prefix.
LEMMA BeginsIsPrefix ==
    ASSUME NEW S, NEW s \in Seq(S), NEW t \in Seq(S), Begins(s, t)
    PROVE  IsPrefix(s, t)
<1>1. Len(s) \in Nat /\ Len(t) \in Nat /\ Len(s) <= Len(t)
  BY DEF Begins
<1>2. SubSeq(s, 1, Len(s)) = SubSeq(t, 1, Len(s))
  BY <1>1, SubSeqProperties DEF Begins
<1> QED
  BY <1>1, <1>2 DEF IsPrefix

\* Entries filed in a book are filed in a longer one.
LEMMA FiledLonger ==
    ASSUME NEW E \in SUBSET Entry, NEW b \in Seq(Message), NEW c \in Seq(Message),
           Filed(E, b), Begins(b, c)
    PROVE  Filed(E, c)
<1>1. Len(b) \in Nat /\ Len(c) \in Nat /\ Len(b) <= Len(c)
  BY DEF Begins
<1> QED
  BY <1>1 DEF Filed, Begins

\* The messages numbered next.
LEMMA NumberedEntries ==
    ASSUME NEW h \in Page, NEW ms \in Seq(Message), h.next = Len(h.book) + 1
    PROVE  /\ Numbered(h, ms) \in Seq(Entry)
           /\ Len(Numbered(h, ms)) = Len(ms)
           /\ Range(Numbered(h, ms)) \in SUBSET Entry
           /\ \A i \in 1..Len(ms) : /\ Numbered(h, ms)[i].no = Len(h.book) + i
                                    /\ Numbered(h, ms)[i].msg = ms[i]
           /\ Filed(Range(Numbered(h, ms)), h.book \o ms)
           /\ \A n \in (Len(h.book) + 1)..(Len(h.book) + Len(ms)) :
                \E e \in Range(Numbered(h, ms)) : e.no = n
<1>1. Len(ms) \in Nat /\ DOMAIN ms = 1..Len(ms) /\ h.book \in Seq(Message) /\ Len(h.book) \in Nat
  BY DEF Page
<1>2. /\ DOMAIN Numbered(h, ms) = 1..Len(ms)
      /\ \A i \in 1..Len(ms) : Numbered(h, ms)[i] = [no |-> Len(h.book) + i, msg |-> ms[i]]
  BY <1>1 DEF Numbered
<1>3. \A i \in 1..Len(ms) : Numbered(h, ms)[i] \in Entry
  BY <1>1, <1>2 DEF Entry
<1>4. Numbered(h, ms) \in Seq(Entry) /\ Len(Numbered(h, ms)) = Len(ms)
  BY <1>1, <1>2, <1>3, IsASeq DEF Numbered
<1>5. \A e \in Range(Numbered(h, ms)) : \E i \in 1..Len(ms) : e = Numbered(h, ms)[i]
  BY <1>2 DEF Range
<1>6. \A i \in 1..Len(ms) : Numbered(h, ms)[i] \in Range(Numbered(h, ms))
  BY <1>2 DEF Range
<1>7. Filed(Range(Numbered(h, ms)), h.book \o ms)
  <2> SUFFICES ASSUME NEW i \in 1..Len(ms)
               PROVE  /\ Numbered(h, ms)[i].no \in 1..Len(h.book \o ms)
                      /\ Numbered(h, ms)[i].msg = (h.book \o ms)[Numbered(h, ms)[i].no]
    BY <1>5 DEF Filed
  <2>1. Numbered(h, ms)[i].no = Len(h.book) + i /\ Numbered(h, ms)[i].msg = ms[i]
    BY <1>2
  <2>2. Len(h.book \o ms) = Len(h.book) + Len(ms) /\ (h.book \o ms)[Len(h.book) + i] = ms[i]
    BY <1>1
  <2> QED
    BY <1>1, <2>1, <2>2
<1>8. \A n \in (Len(h.book) + 1)..(Len(h.book) + Len(ms)) :
                \E e \in Range(Numbered(h, ms)) : e.no = n
  <2> SUFFICES ASSUME NEW n \in (Len(h.book) + 1)..(Len(h.book) + Len(ms))
               PROVE  \E e \in Range(Numbered(h, ms)) : e.no = n
    OBVIOUS
  <2>1. PICK i \in 1..Len(ms) : n = Len(h.book) + i
    <3>1. n - Len(h.book) \in 1..Len(ms) /\ n = Len(h.book) + (n - Len(h.book))
      BY <1>1
    <3> QED
      BY <3>1
  <2> QED
    BY <1>2, <1>6, <2>1
<1> QED
  BY <1>2, <1>3, <1>4, <1>5, <1>7, <1>8

-----------------------------------------------------------------------------
(***************************************************************************)
(* Steps.  A step is one of a single peer, whose page, save and outgoing   *)
(* frames it changes.                                                      *)
(***************************************************************************)

\* The page h may stand in for p's: nothing it sends and nothing it files
\* contradicts the other peer.
Sound(p, h) ==
    /\ h \in Page /\ IsFiniteSet(h.reorder)
    /\ PageOK(h, disk[p])
    /\ ~left[Other(p)] => \A e \in Range(h.sends) :
         e \in h.unacked \/ e.no <= disk[Other(p)].remote
    /\ ~forked[Other(p)] => /\ Begins(h.cradle.got, host[Other(p)].book)
                            /\ Filed(h.reorder, host[Other(p)].book)

\* Unless p has left, the page h keeps what p has still to send and to
\* acknowledge.
Keeps(p, h) ==
    /\ h.stopped \/ h.onChain => left[p]
    /\ ~left[p] => AcksWait(h, disk[p])
    /\ ~left[p] /\ ~left[Other(p)] =>
         /\ Kept(h, disk[Other(p)])
         /\ h.flush # Idle => Kept(h.flush.snap, disk[Other(p)])

\* A proper step of p, whose peer is q: h is p's new page, s its new save and
\* out what it sends.
ProperStep(p, q, h, s, out) ==
    /\ h \in Page /\ s \in SessionSave /\ out \in SUBSET Frame
    /\ IsFiniteSet(h.reorder)
    /\ host' = [host EXCEPT ![p] = h] /\ disk' = [disk EXCEPT ![p] = s]
    /\ net' = [net EXCEPT ![q] = @ \cup out] /\ upsets' \in Nat
    /\ left' \in [Peer -> BOOLEAN] /\ (left[p] => left'[p]) /\ left'[q] = left[q]
    /\ forked' \in [Peer -> BOOLEAN] /\ forked'[q] = forked[q]
    /\ PageOK(h, s) /\ HandoffOK(h) /\ disk[p].remote <= s.remote
    /\ h.stopped \/ h.onChain => left'[p]
    /\ ~left'[p] => AcksWait(h, s)
    /\ \A f \in out : f.k = "ack" => f.no <= s.remote \/ left'[p]
    /\ ~left'[p] /\ ~left[q] =>
         /\ Kept(h, disk[q]) /\ Kept(s, disk[q])
         /\ h.flush # Idle => Kept(h.flush.snap, disk[q])
    /\ ~left[q] => \A e \in Range(h.sends) :
         e \in h.unacked \/ e.no <= disk[q].remote
    /\ ~forked[q] => /\ Begins(h.cradle.got, host[q].book)
                     /\ Filed(h.reorder, host[q].book)
    /\ ~forked'[p] => OneStream(h.book, host[q], net[q] \cup out)

\* A proper step keeps the invariant.
LEMMA StepKeepsInv ==
    ASSUME TransportInv, NEW p \in Peer, NEW q \in Peer, q = Other(p),
           NEW h, NEW s, NEW out, ProperStep(p, q, h, s, out)
    PROVE  TransportInv'
<1> USE DEF ProperStep
<1>1. q # p /\ Other(q) = p /\ Other(p) = q /\ \A x \in Peer : x = p \/ x = q
  BY OtherPeer
<1>2. Typed /\ PagesOK /\ AckedIsSaved /\ NothingDropped /\ Streams
  BY DEF TransportInv
<1>3. /\ host \in [Peer -> Page] /\ disk \in [Peer -> SessionSave] /\ net \in [Peer -> SUBSET Frame]
      /\ IsFiniteSet(host[q].reorder)
  BY <1>2 DEF Typed
<1>4. /\ host'[p] = h /\ disk'[p] = s /\ net'[q] = net[q] \cup out
      /\ host'[q] = host[q] /\ disk'[q] = disk[q] /\ net'[p] = net[p]
  BY <1>1, <1>3
<1>5. Typed'
  <2>1. host' \in [Peer -> Page] /\ disk' \in [Peer -> SessionSave]
    BY <1>3
  <2>2. net' \in [Peer -> SUBSET Frame]
    <3>1. net[q] \cup out \in SUBSET Frame
      BY <1>3
    <3> QED
      BY <1>3, <3>1
  <2>3. \A x \in Peer : IsFiniteSet(host'[x].reorder)
    BY <1>1, <1>3, <1>4, Zenon
  <2> QED
    BY <2>1, <2>2, <2>3 DEF Typed
<1>6. PagesOK'
  <2>1. /\ PageOK(host[q], disk[q]) /\ HandoffOK(host[q])
        /\ host[q].stopped \/ host[q].onChain => left[q]
        /\ ~left[q] => AcksWait(host[q], disk[q])
    BY <1>2 DEF PagesOK
  <2>2. /\ PageOK(host'[q], disk'[q]) /\ HandoffOK(host'[q])
        /\ host'[q].stopped \/ host'[q].onChain => left'[q]
        /\ ~left'[q] => AcksWait(host'[q], disk'[q])
    BY <1>4, <2>1, Zenon
  <2>3. /\ PageOK(host'[p], disk'[p]) /\ HandoffOK(host'[p])
        /\ host'[p].stopped \/ host'[p].onChain => left'[p]
        /\ ~left'[p] => AcksWait(host'[p], disk'[p])
    BY <1>4, Zenon
  <2> QED
    BY <1>1, <2>2, <2>3, Zenon DEF PagesOK
<1>7. disk[p].remote \in Nat /\ s.remote \in Nat /\ disk[q].remote \in Nat
  BY <1>3 DEF SessionSave
<1>8. AckedIsSaved'
  <2>1. ASSUME NEW f \in net'[q], f.k = "ack"
        PROVE  f.no <= disk'[p].remote \/ left'[p]
    <3>1. CASE f \in out
      BY <1>4, <2>1, <3>1
    <3>2. CASE f \in net[q]
      <4>1. f.no <= disk[p].remote \/ left[p]
        BY <1>1, <1>2, <2>1, <3>2 DEF AckedIsSaved
      <4>2. f.no \in Nat
        BY <1>3, <3>2 DEF Frame
      <4> QED
        BY <1>4, <1>7, <4>1, <4>2
    <3> QED
      BY <1>4, <3>1, <3>2
  <2>2. ASSUME NEW f \in net'[p], f.k = "ack"
        PROVE  f.no <= disk'[q].remote \/ left'[q]
    <3>1. f \in net[Other(q)]
      BY <1>1, <1>4, <2>2
    <3> QED
      BY <1>2, <1>4, <2>2, <3>1 DEF AckedIsSaved
  <2> QED
    BY <1>1, <2>1, <2>2, Zenon DEF AckedIsSaved
<1>9. NothingDropped'
  <2>1. /\ ~left'[p] /\ ~left'[q] =>
             /\ Kept(host'[p], disk'[q]) /\ Kept(disk'[p], disk'[q])
             /\ host'[p].flush # Idle => Kept(host'[p].flush.snap, disk'[q])
        /\ ~left'[q] => \A e \in Range(host'[p].sends) :
             e \in host'[p].unacked \/ e.no <= disk'[q].remote
    BY <1>4, Zenon
  <2>2. \A g : g.next \in Nat /\ Kept(g, disk[p]) => Kept(g, s)
    BY <1>7 DEF Kept
  <2>3. /\ host[q].next \in Nat /\ disk[q].next \in Nat
        /\ host[q].flush # Idle => host[q].flush.snap.next \in Nat
        /\ \A e \in Range(host[q].sends) : e.no \in Nat
    <3>1. host[q] \in Page /\ disk[q] \in SessionSave /\ host[q].sends \in Seq(Entry)
      BY <1>3 DEF Page
    <3>2. host[q].flush # Idle => host[q].flush \in Flushing
      BY <3>1 DEF Page
    <3>3. \A e \in Range(host[q].sends) : e \in Entry
      BY <3>1 DEF Range
    <3> QED
      BY <3>1, <3>2, <3>3 DEF Page, SessionSave, Flushing, Entry
  <2>4. /\ ~left'[q] /\ ~left'[p] =>
             /\ Kept(host'[q], disk'[p]) /\ Kept(disk'[q], disk'[p])
             /\ host'[q].flush # Idle => Kept(host'[q].flush.snap, disk'[p])
    <3> SUFFICES ASSUME ~left'[q] /\ ~left'[p]
                 PROVE  /\ Kept(host[q], s) /\ Kept(disk[q], s)
                        /\ host[q].flush # Idle => Kept(host[q].flush.snap, s)
      BY <1>4, Zenon
    <3>1. ~left[q] /\ ~left[p]
      OBVIOUS
    <3>2. /\ Kept(host[q], disk[p]) /\ Kept(disk[q], disk[p])
          /\ host[q].flush # Idle => Kept(host[q].flush.snap, disk[p])
      BY <1>1, <1>2, <3>1, Zenon DEF NothingDropped
    <3> QED
      BY <2>2, <2>3, <3>2, Zenon
  <2>5. ~left'[p] => \A e \in Range(host'[q].sends) :
             e \in host'[q].unacked \/ e.no <= disk'[p].remote
    <3>1. ~left[p] => \A e \in Range(host[q].sends) :
             e \in host[q].unacked \/ e.no <= disk[p].remote
      BY <1>1, <1>2, Zenon DEF NothingDropped
    <3> QED
      BY <1>4, <1>7, <2>3, <3>1
  <2> QED
    BY <1>1, <2>1, <2>4, <2>5, Zenon DEF NothingDropped
<1>10. Streams'
  <2>1. ~forked'[p] => OneStream(host'[p].book, host'[q], net'[q])
    BY <1>4, Zenon
  <2>2. ~forked'[q] => OneStream(host'[q].book, host'[p], net'[p])
    <3>1. ~forked[q] => OneStream(host[q].book, host[p], net[p])
      BY <1>1, <1>2, Zenon DEF Streams
    <3> QED
      BY <1>4, <3>1, Zenon DEF OneStream
  <2> QED
    BY <1>1, <2>1, <2>2, Zenon DEF Streams
<1> QED
  BY <1>5, <1>6, <1>8, <1>9, <1>10 DEF TransportInv

\* The page of a peer is sound and keeps what it must.
LEMMA HostIsSound ==
    ASSUME TransportInv, NEW p \in Peer
    PROVE  Sound(p, host[p]) /\ HandoffOK(host[p]) /\ Keeps(p, host[p])
<1>1. /\ Other(p) \in Peer /\ Other(Other(p)) = p
  BY OtherPeer
<1>2. Typed /\ PagesOK /\ AckedIsSaved /\ NothingDropped /\ Streams
  BY DEF TransportInv
<1>3. host[p] \in Page /\ IsFiniteSet(host[p].reorder)
  BY <1>2 DEF Typed
<1>5. PageOK(host[p], disk[p]) /\ HandoffOK(host[p])
  BY <1>2 DEF PagesOK
<1>6. ~left[Other(p)] => \A e \in Range(host[p].sends) :
         e \in host[p].unacked \/ e.no <= disk[Other(p)].remote
  BY <1>2, Zenon DEF NothingDropped
<1>7. ~forked[Other(p)] => /\ Begins(host[p].cradle.got, host[Other(p)].book)
                           /\ Filed(host[p].reorder, host[Other(p)].book)
  BY <1>1, <1>2, Zenon DEF Streams, OneStream
<1>8. Sound(p, host[p])
  BY <1>3, <1>5, <1>6, <1>7, Zenon DEF Sound
<1>9. Keeps(p, host[p])
  BY <1>2, Zenon DEF Keeps, PagesOK, NothingDropped
<1> QED
  BY <1>5, <1>8, <1>9

\* A step after which p's page is h and p has sent out keeps the invariant.
LEMMA SoundStep ==
    ASSUME TransportInv, NEW p \in Peer, NEW h, NEW out \in SUBSET Frame,
           Sound(p, h), HandoffOK(h), Keeps(p, h), Begins(host[p].book, h.book),
           \A f \in out : f.k = "ack" => f.no <= disk[p].remote \/ left[p],
           Filed({f \in out : f.k = "msg"}, h.book),
           Step(p, h), Transmit(p, out), UNCHANGED <<disk, upsets, left, forked>>
    PROVE  TransportInv'
<1> DEFINE q == Other(p)
<1>1. q \in Peer /\ Other(p) \in Peer
  BY OtherPeer
<1>2. Typed /\ PagesOK /\ AckedIsSaved /\ NothingDropped /\ Streams
  BY DEF TransportInv
<1>3. h \in Page /\ IsFiniteSet(h.reorder) /\ disk[p] \in SessionSave /\ h.book \in Seq(Message)
  BY <1>2 DEF Typed, Sound, Page
<1>4. /\ host' = [host EXCEPT ![p] = h] /\ disk' = [disk EXCEPT ![p] = disk[p]]
      /\ net' = [net EXCEPT ![q] = @ \cup out] /\ upsets' \in Nat
      /\ left' \in [Peer -> BOOLEAN] /\ left'[p] = left[p] /\ left'[q] = left[q]
      /\ forked' \in [Peer -> BOOLEAN] /\ forked'[q] = forked[q] /\ forked'[p] = forked[p]
  BY <1>2 DEF Typed, Step, Transmit
<1>5. PageOK(h, disk[p]) /\ disk[p].remote <= disk[p].remote
  BY <1>3 DEF Sound, SessionSave
<1>6. /\ h.stopped \/ h.onChain => left'[p]
      /\ ~left'[p] => AcksWait(h, disk[p])
      /\ \A f \in out : f.k = "ack" => f.no <= disk[p].remote \/ left'[p]
  BY <1>4 DEF Keeps
<1>7. ~left'[p] /\ ~left[q] =>
             /\ Kept(h, disk[q]) /\ Kept(disk[p], disk[q])
             /\ h.flush # Idle => Kept(h.flush.snap, disk[q])
  BY <1>2, <1>4, Zenon DEF Keeps, NothingDropped
<1>8. /\ ~left[q] => \A e \in Range(h.sends) :
             e \in h.unacked \/ e.no <= disk[q].remote
      /\ ~forked[q] => /\ Begins(h.cradle.got, host[q].book)
                       /\ Filed(h.reorder, host[q].book)
  BY Zenon DEF Sound
<1>9. ~forked'[p] => OneStream(h.book, host[q], net[q] \cup out)
  <2> SUFFICES ASSUME ~forked[p]
               PROVE  OneStream(h.book, host[q], net[q] \cup out)
    BY <1>4
  <2>1. OneStream(host[p].book, host[q], net[q]) /\ Begins(host[p].book, h.book)
    BY <1>2, Zenon DEF Streams, Sound
  <2>2. host[p] \in Page /\ host[q] \in Page /\ net[q] \in SUBSET Frame
    BY <1>1, <1>2 DEF Typed
  <2>3. host[p].book \in Seq(Message) /\ host[q].cradle.got \in Seq(Message) /\ host[q].reorder \in SUBSET Entry
    BY <2>2 DEF Page, Cradle
  <2>4. Begins(host[q].cradle.got, h.book)
    BY <1>3, <2>1, <2>3, BeginsOrder DEF OneStream
  <2>5. Filed(host[q].reorder, h.book)
    BY <1>3, <2>1, <2>3, FiledLonger DEF OneStream
  <2>6. Filed({f \in net[q] : f.k = "msg"}, h.book)
    <3>1. Len(host[p].book) \in Nat /\ Len(h.book) \in Nat
      BY <1>3, <2>3
    <3> QED
      BY <2>1, <3>1 DEF OneStream, Filed, Begins
  <2>7. Filed({f \in net[q] \cup out : f.k = "msg"}, h.book)
    BY <2>6 DEF Filed
  <2> QED
    BY <2>4, <2>5, <2>7 DEF OneStream
<1> HIDE DEF q
<1>10. q = Other(p) /\ (left[p] => left'[p])
  BY <1>4 DEF q
<1>11. ProperStep(p, q, h, disk[p], out)
  BY <1>3, <1>4, <1>5, <1>6, <1>7, <1>8, <1>9, <1>10 DEF ProperStep
<1> QED
  BY <1>1, <1>10, <1>11, StepKeepsInv

\* A step by which p leaves the session keeps the invariant if its new page
\* is sound.
LEMMA LeaveStep ==
    ASSUME TransportInv, NEW p \in Peer, NEW h, Sound(p, h), HandoffOK(h),
           Begins(host[p].book, h.book), Step(p, h),
           left' = [left EXCEPT ![p] = TRUE], upsets' \in Nat,
           UNCHANGED <<disk, net, forked>>
    PROVE  TransportInv'
<1> DEFINE q == Other(p)
<1>1. q \in Peer /\ q # p
  BY OtherPeer
<1>2. Typed /\ PagesOK /\ AckedIsSaved /\ NothingDropped /\ Streams
  BY DEF TransportInv
<1>3. /\ h \in Page /\ IsFiniteSet(h.reorder) /\ disk[p] \in SessionSave /\ h.book \in Seq(Message)
      /\ net \in [Peer -> SUBSET Frame] /\ {} \in SUBSET Frame
  BY <1>2 DEF Typed, Sound, Page
<1>4. /\ host' = [host EXCEPT ![p] = h] /\ disk' = [disk EXCEPT ![p] = disk[p]]
      /\ net' = [net EXCEPT ![q] = @ \cup {}] /\ upsets' \in Nat
      /\ left' \in [Peer -> BOOLEAN] /\ left'[p] /\ left'[q] = left[q]
      /\ forked' \in [Peer -> BOOLEAN] /\ forked'[q] = forked[q] /\ forked'[p] = forked[p]
  BY <1>1, <1>2, <1>3 DEF Typed, Step
<1>5. PageOK(h, disk[p]) /\ disk[p].remote <= disk[p].remote
  BY <1>3 DEF Sound, SessionSave
<1>8. /\ ~left[q] => \A e \in Range(h.sends) :
             e \in h.unacked \/ e.no <= disk[q].remote
      /\ ~forked[q] => /\ Begins(h.cradle.got, host[q].book)
                       /\ Filed(h.reorder, host[q].book)
  BY Zenon DEF Sound
<1>9. ~forked'[p] => OneStream(h.book, host[q], net[q] \cup {})
  <2> SUFFICES ASSUME ~forked[p]
               PROVE  OneStream(h.book, host[q], net[q])
    BY <1>1, <1>4
  <2>1. OneStream(host[p].book, host[q], net[q]) /\ Begins(host[p].book, h.book)
    BY <1>2, Zenon DEF Streams, Sound
  <2>2. host[p] \in Page /\ host[q] \in Page /\ net[q] \in SUBSET Frame
    BY <1>1, <1>2 DEF Typed
  <2>3. host[p].book \in Seq(Message) /\ host[q].cradle.got \in Seq(Message) /\ host[q].reorder \in SUBSET Entry
    BY <2>2 DEF Page, Cradle
  <2>4. Begins(host[q].cradle.got, h.book)
    BY <1>3, <2>1, <2>3, BeginsOrder DEF OneStream
  <2>5. Filed(host[q].reorder, h.book)
    BY <1>3, <2>1, <2>3, FiledLonger DEF OneStream
  <2>6. Filed({f \in net[q] : f.k = "msg"}, h.book)
    <3>1. Len(host[p].book) \in Nat /\ Len(h.book) \in Nat
      BY <1>3, <2>3
    <3> QED
      BY <2>1, <3>1 DEF OneStream, Filed, Begins
  <2> QED
    BY <2>4, <2>5, <2>6 DEF OneStream
<1> HIDE DEF q
<1>10. /\ q = Other(p) /\ (left[p] => left'[p])
       /\ h.stopped \/ h.onChain => left'[p]
       /\ ~left'[p] => AcksWait(h, disk[p])
       /\ \A f \in {} : f.k = "ack" => f.no <= disk[p].remote \/ left'[p]
       /\ ~left'[p] /\ ~left[q] =>
             /\ Kept(h, disk[q]) /\ Kept(disk[p], disk[q])
             /\ h.flush # Idle => Kept(h.flush.snap, disk[q])
  BY <1>4 DEF q
<1>11. ProperStep(p, q, h, disk[p], {})
  BY <1>3, <1>4, <1>5, <1>8, <1>9, <1>10 DEF ProperStep
<1> QED
  BY <1>1, <1>10, <1>11, StepKeepsInv

-----------------------------------------------------------------------------
(***************************************************************************)
(* What the steps of SessionController do to a page.                       *)
(***************************************************************************)

\* g differs from h in nothing that Sound and Keeps are about, but may be due
\* for a save.
Alike(g, h) ==
    /\ g \in Page
    /\ g.book = h.book /\ g.next = h.next /\ g.unacked = h.unacked /\ g.sends = h.sends
    /\ g.cradle.got = h.cradle.got /\ g.remote = h.remote /\ g.acks = h.acks
    /\ g.reorder = h.reorder /\ g.flush = h.flush /\ g.stopped = h.stopped
    /\ h.dirty => g.dirty

\* A page alike to a sound one is sound.
LEMMA AlikeIsSound ==
    ASSUME NEW p, NEW h, NEW g, Sound(p, h), Alike(g, h)
    PROVE  /\ Sound(p, g)
           /\ Keeps(p, h) /\ g.onChain = h.onChain => Keeps(p, g)
<1>1. PageOK(g, disk[p])
  BY DEF Sound, Alike, PageOK, Coherent, Precedes
<1>2. Sound(p, g)
  BY <1>1, Zenon DEF Sound, Alike
<1>3. ASSUME Keeps(p, h), g.onChain = h.onChain
      PROVE  Keeps(p, g)
  <2>1. AcksWait(h, disk[p]) => AcksWait(g, disk[p])
    BY DEF Alike, AcksWait
  <2>2. /\ Kept(h, disk[Other(p)]) => Kept(g, disk[Other(p)])
        /\ g.flush = h.flush /\ g.stopped = h.stopped
    BY DEF Alike, Kept
  <2> QED
    BY <1>3, <2>1, <2>2 DEF Keeps
<1> QED
  BY <1>2, <1>3

\* markNeedsImmediateDurability
LEMMA MarkAlike ==
    ASSUME NEW h \in Page
    PROVE  /\ Alike(MarkNeedsDurability(h), h)
           /\ MarkNeedsDurability(h).dirty \/ h.stopped
           /\ MarkNeedsDurability(h).onChain = h.onChain
           /\ MarkNeedsDurability(h).events = h.events
           /\ MarkNeedsDurability(h).handoff = h.handoff
           /\ MarkNeedsDurability(h).cradle = h.cradle
BY DEF MarkNeedsDurability, Alike, Page

\* noteTerminalHandoffSent
LEMMA NoteSentAlike ==
    ASSUME NEW h \in Page, NEW es
    PROVE  /\ Alike(NoteSent(h, es), h)
           /\ NoteSent(h, es).onChain = h.onChain /\ NoteSent(h, es).cradle = h.cradle
           /\ HandoffOK(h) /\ Filed(es, h.book) => HandoffOK(NoteSent(h, es))
<1> DEFINE b == h.handoff.sent \/ \E e \in es : e.no = h.handoff.no
           t == [h.handoff EXCEPT !.sent = b]
           g == NoteSent(h, es)
<1>1. h.handoff \in [no : Nat, sent : BOOLEAN] /\ h.book \in Seq(Message)
  BY DEF Page
<1>2. b \in BOOLEAN
  BY <1>1
<1>3. t \in [no : Nat, sent : BOOLEAN] /\ t.no = h.handoff.no /\ t.sent = b
  BY <1>1, <1>2
<1>4. g = [h EXCEPT !.handoff = t]
  BY <1>1 DEF NoteSent
<1> HIDE DEF b, t, g
<1>5. Alike(g, h) /\ g.onChain = h.onChain /\ g.cradle = h.cradle /\ g.handoff = t /\ g.book = h.book
  BY <1>3, <1>4 DEF Alike, Page
<1>6. ASSUME HandoffOK(h), Filed(es, h.book)
      PROVE  HandoffOK(g)
  <2>1. b => h.handoff.no # 0
    BY <1>1, <1>6 DEF b, HandoffOK, Filed
  <2> QED
    BY <1>3, <1>5, <1>6, <2>1 DEF HandoffOK
<1> QED
  BY <1>5, <1>6 DEF g

\* The messages that unacked entries go out in are filed as they are.
LEMMA MessagesFiled ==
    ASSUME NEW b, NEW es \in SUBSET Entry, Filed(es, b)
    PROVE  /\ Messages(es) \in SUBSET Frame
           /\ \A f \in Messages(es) : f.k = "msg"
           /\ Filed(Messages(es), b)
BY DEF Messages, Msg, Filed, Frame, Entry

\* messageNumber++ and the two pushes, for a page with an unstopped session.
LEMMA EnqueueSound ==
    ASSUME NEW p \in Peer, NEW h, NEW ms \in Seq(Message), Sound(p, h), TransportInv
    PROVE  /\ Sound(p, Enqueue(h, ms))
           /\ HandoffOK(h) => HandoffOK(Enqueue(h, ms))
           /\ Keeps(p, h) => Keeps(p, Enqueue(h, ms))
           /\ Enqueue(h, ms).events = h.events /\ Enqueue(h, ms).cradle = h.cradle
           /\ Enqueue(h, ms).book = h.book \o ms /\ Begins(h.book, Enqueue(h, ms).book)
<1>1. CASE ms = <<>>
  <2>1. Enqueue(h, ms) = h /\ h.book \in Seq(Message)
    BY <1>1 DEF Enqueue, Sound, Page
  <2>2. Begins(h.book, h.book)
    BY <2>1, BeginsOrder
  <2> QED
    BY <1>1, <2>1, <2>2
<1>2. CASE ms # <<>>
  <2> DEFINE N == Numbered(h, ms)
             g == [h EXCEPT !.next = @ + Len(ms), !.book = @ \o ms,
                            !.unacked = @ \cup Range(N), !.sends = @ \o N]
             e == Enqueue(h, ms)
             d == disk[p]
  <2>1. /\ h \in Page /\ h.book \in Seq(Message) /\ h.next \in Nat /\ h.unacked \in SUBSET Entry
        /\ h.sends \in Seq(Entry) /\ h.next = Len(h.book) + 1 /\ Len(h.book) \in Nat /\ Len(ms) \in Nat
    BY DEF Sound, Page, PageOK, Coherent
  <2>2. /\ N \in Seq(Entry) /\ Range(N) \in SUBSET Entry /\ Len(N) = Len(ms)
        /\ Filed(Range(N), h.book \o ms)
        /\ \A n \in (Len(h.book) + 1)..(Len(h.book) + Len(ms)) : \E x \in Range(N) : x.no = n
    BY <2>1, NumberedEntries
  <2>3. e = MarkNeedsDurability(g)
    BY <1>2 DEF Enqueue
  <2> HIDE DEF N
  <2>4. /\ g.next = h.next + Len(ms) /\ g.book = h.book \o ms /\ g.unacked = h.unacked \cup Range(N)
        /\ g.sends = h.sends \o N /\ g.cradle = h.cradle /\ g.events = h.events
        /\ g.remote = h.remote /\ g.acks = h.acks /\ g.reorder = h.reorder /\ g.dirty = h.dirty
        /\ g.flush = h.flush /\ g.handoff = h.handoff /\ g.onChain = h.onChain /\ g.stopped = h.stopped
    BY <2>1 DEF Page
  <2>5. g \in Page
    <3>1. /\ h.book \o ms \in Seq(Message) /\ h.sends \o N \in Seq(Entry) /\ h.next + Len(ms) \in Nat
          /\ h.unacked \cup Range(N) \in SUBSET Entry
      BY <2>1, <2>2
    <3> QED
      BY <2>1, <3>1 DEF Page
  <2> HIDE DEF g
  <2>6. Alike(e, g) /\ (e.dirty \/ g.stopped) /\ e.onChain = g.onChain /\ e.events = g.events
        /\ e.handoff = g.handoff /\ e.cradle = g.cradle
    BY <2>3, <2>5, MarkAlike
  <2> HIDE DEF e
  <2>7. /\ e \in Page /\ e.next = h.next + Len(ms) /\ e.book = h.book \o ms
        /\ e.unacked = h.unacked \cup Range(N) /\ e.sends = h.sends \o N /\ e.cradle = h.cradle
        /\ e.events = h.events /\ e.remote = h.remote /\ e.acks = h.acks /\ e.reorder = h.reorder
        /\ e.flush = h.flush /\ e.handoff = h.handoff /\ e.onChain = h.onChain
        /\ e.stopped = h.stopped /\ (e.dirty \/ h.stopped)
    BY <2>4, <2>6 DEF Alike
  <2>8. Begins(h.book, e.book)
    BY <2>1, <2>7, BeginsConcat
  <2>9. Filed(e.unacked, e.book) /\ Filed(Range(e.sends), e.book)
    <3>1. Filed(h.unacked, e.book)
      BY <2>1, <2>7, <2>8, FiledLonger DEF Sound, PageOK, Coherent, Page
    <3>2. Range(h.sends) \in SUBSET Entry
      BY <2>1 DEF Range
    <3>3. Filed(Range(h.sends), e.book)
      <4>1. e.book \in Seq(Message) /\ Filed(Range(h.sends), h.book)
        BY <2>7 DEF Page, Sound, PageOK
      <4> QED
        BY <2>1, <2>8, <3>2, <4>1, FiledLonger
    <3>4. \A x \in Range(e.sends) : x \in Range(h.sends) \/ x \in Range(N)
      BY <2>1, <2>2, <2>7 DEF Range
    <3> QED
      BY <2>2, <2>7, <3>1, <3>3, <3>4 DEF Filed
  <2>10. Coherent(e)
    BY <2>1, <2>7, <2>9 DEF Coherent, Sound, PageOK
  <2>11. Precedes(d, e)
    <3>1. d.book \in Seq(Message) /\ e.book \in Seq(Message)
      BY <2>7 DEF TransportInv, Typed, SessionSave, Page
    <3> QED
      <4>1. Precedes(d, h)
        BY DEF Sound, PageOK
      <4>2. Begins(d.book, e.book)
        BY <2>1, <2>8, <3>1, <4>1, BeginsChain DEF Precedes
      <4> QED
        BY <2>7, <4>1, <4>2 DEF Precedes
  <2>12. h.flush # Idle =>
             /\ Coherent(e.flush.snap) /\ Precedes(d, e.flush.snap) /\ Precedes(e.flush.snap, e)
             /\ ~e.stopped => e.flush.outs <= Len(e.sends) /\ e.flush.acks <= Len(e.acks)
    <3> SUFFICES ASSUME h.flush # Idle
                 PROVE  /\ Coherent(e.flush.snap) /\ Precedes(d, e.flush.snap) /\ Precedes(e.flush.snap, e)
                        /\ ~e.stopped => e.flush.outs <= Len(e.sends) /\ e.flush.acks <= Len(e.acks)
      OBVIOUS
    <3>1. h.flush \in Flushing
      BY <2>1 DEF Page
    <3>2. h.flush.snap.book \in Seq(Message) /\ h.flush.outs \in Nat /\ e.book \in Seq(Message)
      BY <2>7, <3>1 DEF Flushing, SessionSave, Page
    <3>3. /\ Coherent(h.flush.snap) /\ Precedes(d, h.flush.snap) /\ Precedes(h.flush.snap, h)
          /\ ~h.stopped => h.flush.outs <= Len(h.sends) /\ h.flush.acks <= Len(h.acks)
      BY DEF Sound, PageOK
    <3>4. Len(e.sends) = Len(h.sends) + Len(ms) /\ Len(h.sends) \in Nat
      <4>1. \A s, t \in Seq(Entry) : Len(s \o t) = Len(s) + Len(t) /\ Len(s) \in Nat
        OBVIOUS
      <4> QED
        BY <2>1, <2>2, <2>7, <4>1
    <3>5. Precedes(h.flush.snap, e)
      <4>1. Begins(h.flush.snap.book, e.book)
        BY <2>1, <2>8, <3>2, <3>3, BeginsChain DEF Precedes
      <4> QED
        BY <2>7, <3>3, <4>1 DEF Precedes
    <3> QED
      BY <2>1, <2>7, <3>2, <3>3, <3>4, <3>5
  <2>13. PageOK(e, d)
    BY <2>7, <2>9, <2>10, <2>11, <2>12 DEF PageOK, Sound
  <2>14. ~left[Other(p)] => \A x \in Range(e.sends) :
             x \in e.unacked \/ x.no <= disk[Other(p)].remote
    <3>1. \A x \in Range(e.sends) : x \in Range(h.sends) \/ x \in Range(N)
      BY <2>1, <2>2, <2>7 DEF Range
    <3> QED
      BY <2>7, <3>1 DEF Sound
  <2>15. Sound(p, e)
    BY <2>7, <2>8, <2>13, <2>14 DEF Sound
  <2>16. HandoffOK(h) => HandoffOK(e)
    BY <2>1, <2>7, <2>8 DEF HandoffOK, Begins, Page
  <2>17. \A z : Kept(h, z) => Kept(e, z)
    <3> SUFFICES ASSUME NEW z, Kept(h, z), NEW n \in 1..(e.next - 1)
                 PROVE  n <= z.remote \/ \E x \in e.unacked : x.no = n
      BY DEF Kept
    <3>1. CASE n \in 1..(h.next - 1)
      BY <2>7, <3>1 DEF Kept
    <3>2. CASE ~(n \in 1..(h.next - 1))
      <4>1. n \in (Len(h.book) + 1)..(Len(h.book) + Len(ms))
        BY <2>1, <2>7, <3>2
      <4> QED
        BY <2>2, <2>7, <4>1
    <3> QED
      BY <3>1, <3>2
  <2>18. AcksWait(h, d) => AcksWait(e, d)
    BY <2>7 DEF AcksWait
  <2>19. disk[Other(p)].remote \in Nat
    BY OtherPeer DEF TransportInv, Typed, SessionSave
  <2>20. Keeps(p, h) => Keeps(p, e)
    BY <2>7, <2>17, <2>18, <2>19 DEF Keeps
  <2> QED
    BY <2>7, <2>8, <2>15, <2>16, <2>20 DEF e
<1> QED
  BY <1>1, <1>2

\* stopProtocolWork, alone or with the last acknowledgement queued after it.
LEMMA StopSound ==
    ASSUME NEW p \in Peer, NEW h, Sound(p, h), NEW a \in Seq(Nat)
    PROVE  LET g == [Stop(h) EXCEPT !.acks = a]
           IN  Sound(p, g) /\ HandoffOK(g) /\ g.book = h.book
<1> DEFINE c == [h.cradle EXCEPT !.done = TRUE, !.handoff = None]
           g == [Stop(h) EXCEPT !.acks = a]
<1>1. h \in Page /\ h.cradle \in Cradle
  BY DEF Sound, Page
<1>2. c \in Cradle /\ c.got = h.cradle.got
  BY <1>1 DEF Cradle, None, Message
<1> HIDE DEF c
<1>3. g = [h EXCEPT !.stopped = TRUE, !.cradle = c, !.handoff = NoHandoff, !.events = <<>>,
             !.sends = <<>>, !.acks = a, !.unacked = {}, !.reorder = {}, !.dirty = FALSE]
  BY <1>1 DEF Stop, c, Page, Cradle
<1> HIDE DEF g
<1>4. /\ <<>> \in Seq(Message) /\ <<>> \in Seq(Entry) /\ {} \in SUBSET Entry
      /\ NoHandoff \in [no : Nat, sent : BOOLEAN] /\ NoHandoff.no = 0 /\ NoHandoff.sent = FALSE
  BY DEF NoHandoff
<1>5. g \in Page
  BY <1>1, <1>2, <1>3, <1>4 DEF Page
<1>6. /\ g.stopped /\ g.cradle = c /\ g.handoff = NoHandoff /\ g.sends = <<>> /\ g.unacked = {}
      /\ g.reorder = {} /\ g.book = h.book /\ g.next = h.next /\ g.remote = h.remote /\ g.flush = h.flush
  BY <1>1, <1>3 DEF Page
<1>7. Range(g.sends) = {} /\ IsFiniteSet(g.reorder)
  BY <1>6, FS_EmptySet DEF Range
<1>8. PageOK(g, disk[p])
  <2>1. PageOK(h, disk[p])
    BY DEF Sound
  <2>2. Coherent(g) /\ Precedes(disk[p], g) /\ (Precedes(h.flush.snap, h) => Precedes(h.flush.snap, g))
    BY <1>2, <1>6, <2>1 DEF PageOK, Coherent, Filed, Precedes
  <2> QED
    BY <1>6, <1>7, <2>1, <2>2 DEF PageOK, Filed
<1>9. Sound(p, g)
  BY <1>2, <1>5, <1>6, <1>7, <1>8 DEF Sound, Filed
<1>10. HandoffOK(g)
  BY <1>4, <1>6 DEF HandoffOK
<1> QED
  BY <1>6, <1>9, <1>10 DEF g

\* goOnChain takes the cradle on chain.
LEMMA GoneOnChainAlike ==
    ASSUME NEW h \in Page
    PROVE  /\ Alike(GoneOnChain(h), h)
           /\ HandoffOK(h) => HandoffOK(GoneOnChain(h))
<1> DEFINE c == [h.cradle EXCEPT !.done = TRUE]
           g == GoneOnChain(h)
<1>1. c \in Cradle /\ c.got = h.cradle.got /\ c.handoff = h.cradle.handoff
  BY DEF Page, Cradle
<1>2. g = [h EXCEPT !.onChain = TRUE, !.cradle = c]
  BY DEF GoneOnChain, Page, Cradle
<1> HIDE DEF c, g
<1>3. g \in Page
  BY <1>1, <1>2 DEF Page
<1>4. Alike(g, h) /\ g.handoff = h.handoff /\ g.cradle = c /\ g.book = h.book
  BY <1>1, <1>2, <1>3 DEF Alike, Page
<1> QED
  BY <1>1, <1>4 DEF HandoffOK, g

\* The cradle makes a message, which is queued with its other events.
LEMMA MadeAlike ==
    ASSUME NEW h \in Page, NEW m \in Message
    PROVE  LET g == [h EXCEPT !.cradle.made = Append(@, m), !.events = Append(@, m)]
           IN  /\ Alike(g, h) /\ g.onChain = h.onChain
               /\ HandoffOK(h) => HandoffOK(g)
<1> DEFINE c == [h.cradle EXCEPT !.made = Append(@, m)]
           g == [h EXCEPT !.cradle.made = Append(@, m), !.events = Append(@, m)]
<1>1. /\ h.cradle \in Cradle /\ Append(h.cradle.made, m) \in Seq(Message)
      /\ Append(h.events, m) \in Seq(Message)
  BY DEF Page, Cradle
<1>2. c \in Cradle /\ c.got = h.cradle.got /\ c.handoff = h.cradle.handoff
  BY <1>1 DEF Cradle
<1>3. g = [h EXCEPT !.cradle = c, !.events = Append(@, m)]
  BY <1>1 DEF Page, Cradle
<1> HIDE DEF c, g
<1>4. g \in Page
  BY <1>1, <1>2, <1>3 DEF Page
<1>5. Alike(g, h) /\ g.handoff = h.handoff /\ g.cradle = c /\ g.book = h.book /\ g.onChain = h.onChain
  BY <1>2, <1>3, <1>4 DEF Alike, Page
<1> QED
  BY <1>2, <1>5 DEF HandoffOK, g

\* queueTerminalHandoff, for the terminal message of the cradle.
LEMMA QueueHandoffSound ==
    ASSUME NEW p \in Peer, NEW h, Sound(p, h), TransportInv
    PROVE  LET g == QueueHandoff(h, h.cradle.handoff)
           IN  /\ Sound(p, g) /\ HandoffOK(g) /\ Begins(h.book, g.book)
               /\ Keeps(p, h) => Keeps(p, g)
<1> DEFINE m == h.cradle.handoff
           g == QueueHandoff(h, m)
<1>1. /\ h \in Page /\ h.book \in Seq(Message) /\ h.unacked \in SUBSET Entry /\ m \in Message
      /\ <<m>> \in Seq(Message) /\ h.next = Len(h.book) + 1 /\ Filed(h.unacked, h.book) /\ Len(h.book) \in Nat
  BY DEF Sound, Page, Cradle, PageOK, Coherent
<1>2. Begins(h.book, h.book)
  BY <1>1, BeginsOrder
<1>3. CASE \E e \in h.unacked : e.msg = m
  <2> DEFINE e == CHOOSE e \in h.unacked : e.msg = m
  <2>1. e \in h.unacked /\ e.msg = m
    BY <1>3, Zenon
  <2>2. g = [h EXCEPT !.handoff = [no |-> e.no, sent |-> FALSE]]
    BY <1>3 DEF QueueHandoff
  <2> HIDE DEF e, g, m
  <2>3. e.no \in 1..Len(h.book) /\ h.book[e.no] = m /\ e.no \in Nat
    BY <1>1, <2>1 DEF Filed
  <2>4. [no |-> e.no, sent |-> FALSE] \in [no : Nat, sent : BOOLEAN]
    BY <2>3
  <2>5. g \in Page
    BY <1>1, <2>2, <2>4 DEF Page
  <2>6. /\ Alike(g, h) /\ g.onChain = h.onChain /\ g.cradle = h.cradle /\ g.book = h.book
        /\ g.handoff = [no |-> e.no, sent |-> FALSE]
    BY <1>1, <2>2, <2>5 DEF Alike, Page
  <2>7. HandoffOK(g)
    BY <2>3, <2>6 DEF HandoffOK, m
  <2>8. Sound(p, g) /\ (Keeps(p, h) => Keeps(p, g))
    BY <2>6, AlikeIsSound
  <2> QED
    BY <1>2, <2>6, <2>7, <2>8 DEF g, m
<1>4. CASE ~ \E e \in h.unacked : e.msg = m
  <2> DEFINE e == Enqueue(h, <<m>>)
  <2>1. g = [e EXCEPT !.handoff = [no |-> h.next, sent |-> FALSE]]
    BY <1>4 DEF QueueHandoff
  <2>2. /\ Sound(p, e) /\ (Keeps(p, h) => Keeps(p, e)) /\ e.cradle = h.cradle
        /\ e.book = h.book \o <<m>> /\ Begins(h.book, e.book)
    BY <1>1, EnqueueSound
  <2> HIDE DEF e, g, m
  <2>3. [no |-> h.next, sent |-> FALSE] \in [no : Nat, sent : BOOLEAN] /\ e \in Page
    BY <1>1, <2>2 DEF Sound
  <2>4. g \in Page
    BY <2>1, <2>3 DEF Page
  <2>5. /\ Alike(g, e) /\ g.onChain = e.onChain /\ g.cradle = e.cradle /\ g.book = e.book
        /\ g.handoff = [no |-> h.next, sent |-> FALSE]
    BY <2>1, <2>3, <2>4 DEF Alike, Page
  <2>6. h.next \in 1..Len(h.book \o <<m>>) /\ (h.book \o <<m>>)[h.next] = m
    BY <1>1
  <2>7. HandoffOK(g)
    BY <2>2, <2>5, <2>6 DEF HandoffOK, m
  <2>8. Sound(p, g) /\ (Keeps(p, e) => Keeps(p, g))
    BY <2>2, <2>5, AlikeIsSound
  <2> QED
    BY <2>2, <2>5, <2>7, <2>8 DEF g, m
<1> QED
  BY <1>3, <1>4

-----------------------------------------------------------------------------
(***************************************************************************)
(* Delivery.                                                               *)
(***************************************************************************)

\* What deliverMessage and flushReorderQueue hand over in a row is the message
\* that came and the queued ones with the numbers that follow.
LEMMA InOrderFollows ==
    ASSUME NEW h \in Page, IsFiniteSet(h.reorder), NEW m \in Message
    PROVE  /\ InOrder(h, m) \in Seq(Message)
           /\ Len(InOrder(h, m)) >= 1 /\ InOrder(h, m)[1] = m
           /\ \A i \in 2..Len(InOrder(h, m)) :
                \E e \in h.reorder : e.no = h.remote + i /\ e.msg = InOrder(h, m)[i]
<1> DEFINE c == Cardinality(h.reorder)
           Queued(i) == \E e \in h.reorder : e.no = h.remote + 1 + i
           ready == {n \in 1..c : \A i \in 1..n : Queued(i)}
           k == Cardinality(ready)
           F(i) == (CHOOSE e \in h.reorder : e.no = h.remote + 1 + i).msg
           t == [i \in 1..k |-> F(i)]
           s == InOrder(h, m)
<1>1. c \in Nat /\ h.remote \in Nat /\ h.reorder \in SUBSET Entry
  BY FS_CardinalityType DEF Page
<1>2. IsFiniteSet(1..c) /\ ready \in SUBSET (1..c)
  BY <1>1, FS_Interval
<1>3. IsFiniteSet(ready) /\ k \in Nat
  BY <1>2, FS_Subset, FS_CardinalityType
<1>4. ASSUME NEW i \in 1..k
      PROVE  Queued(i)
  <2> SUFFICES ASSUME i \notin ready
               PROVE  FALSE
    BY <1>3
  <2>1. i \in Nat /\ i >= 1 /\ i - 1 \in Nat
    BY <1>3
  <2>2. \A n \in ready : n < i
    BY <1>1, <2>1
  <2>3. ready \in SUBSET (1..(i - 1))
    BY <1>1, <2>1, <2>2
  <2>4. IsFiniteSet(1..(i - 1)) /\ Cardinality(1..(i - 1)) = i - 1
    BY <2>1, FS_Interval
  <2> HIDE DEF ready
  <2>5. Cardinality(ready) <= Cardinality(1..(i - 1))
    BY <2>3, <2>4, FS_Subset, Zenon
  <2> QED
    BY <1>3, <2>1, <2>4, <2>5
<1>5. ASSUME NEW i \in 1..k
      PROVE  \E e \in h.reorder : e.no = h.remote + 1 + i /\ e.msg = F(i)
  BY <1>4, Zenon
<1>6. \A i \in 1..k : F(i) \in Message
  BY <1>1, <1>5 DEF Entry
<1>7. s = <<m>> \o t
  BY DEF InOrder
<1> HIDE DEF F, k, s
<1>8. t \in Seq(Message) /\ Len(t) = k /\ \A i \in 1..k : t[i] = F(i)
  BY <1>3, <1>6, IsASeq
<1> HIDE DEF t
<1>9. s \in Seq(Message) /\ Len(s) = k + 1 /\ s[1] = m /\ \A i \in 2..Len(s) : s[i] = t[i - 1]
  BY <1>3, <1>7, <1>8
<1>10. ASSUME NEW i \in 2..Len(s)
       PROVE  \E e \in h.reorder : e.no = h.remote + i /\ e.msg = s[i]
  <2>1. i - 1 \in 1..k /\ i \in Nat
    BY <1>3, <1>9
  <2>2. s[i] = F(i - 1)
    BY <1>8, <1>9, <2>1
  <2>3. PICK e \in h.reorder : e.no = h.remote + 1 + (i - 1) /\ e.msg = F(i - 1)
    BY <1>5, <2>1
  <2>4. h.remote + 1 + (i - 1) = h.remote + i
    BY <1>1, <2>1
  <2> QED
    BY <2>2, <2>3, <2>4, Zenon
<1> QED
  BY <1>3, <1>9, <1>10 DEF s

\* ms are the messages that follow what the page h of p has consumed.
Follows(p, h, ms) ==
    ~forked[Other(p)] =>
      \A i \in 1..Len(ms) : /\ h.remote + i \in 1..Len(host[Other(p)].book)
                            /\ ms[i] = host[Other(p)].book[h.remote + i]

\* deliverSingleMessage for each message of ms.
LEMMA DeliveredSound ==
    ASSUME TransportInv, NEW p \in Peer, NEW h, Sound(p, h), NEW ms \in Seq(Message),
           Follows(p, h, ms)
    PROVE  LET g == Delivered(h, ms)
           IN  /\ Sound(p, g) /\ (HandoffOK(h) => HandoffOK(g)) /\ g.book = h.book
               /\ Keeps(p, h) => Keeps(p, g)
               /\ g.onChain = h.onChain /\ g.stopped = h.stopped
<1>1. CASE ms = <<>>
  BY <1>1 DEF Delivered
<1>2. CASE ms # <<>>
  <2> DEFINE q == Other(p)
             A == [i \in DOMAIN ms |-> h.remote + i]
             c == [h.cradle EXCEPT !.got = @ \o ms]
             R == {e \in h.reorder : e.no > h.remote + Len(ms)}
             u == [h EXCEPT !.cradle.got = @ \o ms, !.remote = @ + Len(ms),
                            !.acks = @ \o A, !.reorder = R]
             g == Delivered(h, ms)
             d == disk[p]
  <2>1. /\ h \in Page /\ h.cradle \in Cradle /\ h.cradle.got \in Seq(Message) /\ h.remote \in Nat
        /\ h.acks \in Seq(Nat) /\ h.reorder \in SUBSET Entry /\ IsFiniteSet(h.reorder)
        /\ h.remote = Len(h.cradle.got) /\ Len(ms) \in Nat /\ DOMAIN ms = 1..Len(ms)
        /\ Len(h.acks) \in Nat
    BY DEF Sound, Page, Cradle, PageOK, Coherent
  <2>2. /\ A \in Seq(Nat) /\ Len(A) = Len(ms) /\ \A i \in 1..Len(ms) : A[i] = h.remote + i
    <3>1. \A i \in 1..Len(ms) : h.remote + i \in Nat
      BY <2>1
    <3> QED
      BY <2>1, <3>1, IsASeq
  <2>3. /\ h.cradle.got \o ms \in Seq(Message)
        /\ c \in Cradle /\ c.got = h.cradle.got \o ms /\ c.handoff = h.cradle.handoff
    <3>1. h.cradle.got \o ms \in Seq(Message)
      BY <2>1
    <3> QED
      BY <2>1, <3>1 DEF Cradle
  <2>4. R \in SUBSET Entry /\ IsFiniteSet(R) /\ R \in SUBSET h.reorder
    BY <2>1, FS_Subset
  <2>5. u = [h EXCEPT !.cradle = c, !.remote = @ + Len(ms), !.acks = @ \o A, !.reorder = R]
    BY <2>1 DEF Page, Cradle
  <2>6. g = MarkNeedsDurability(u)
    BY <1>2 DEF Delivered
  <2> HIDE DEF A, c, R, u, g
  <2>7. u \in Page
    <3>1. h.remote + Len(ms) \in Nat /\ h.acks \o A \in Seq(Nat)
      BY <2>1, <2>2
    <3> QED
      BY <2>1, <2>3, <2>4, <2>5, <3>1 DEF Page
  <2>8. /\ Alike(g, u) /\ (g.dirty \/ u.stopped) /\ g.onChain = u.onChain
        /\ g.handoff = u.handoff /\ g.cradle = u.cradle
    BY <2>6, <2>7, MarkAlike
  <2>9. /\ u.cradle = c /\ u.remote = h.remote + Len(ms) /\ u.acks = h.acks \o A /\ u.reorder = R
        /\ u.book = h.book /\ u.next = h.next /\ u.unacked = h.unacked /\ u.sends = h.sends
        /\ u.flush = h.flush /\ u.handoff = h.handoff /\ u.onChain = h.onChain /\ u.stopped = h.stopped
    BY <2>1, <2>5 DEF Page
  <2>10. /\ g \in Page /\ g.cradle = c /\ g.remote = h.remote + Len(ms) /\ g.acks = h.acks \o A
         /\ g.reorder = R /\ g.book = h.book /\ g.next = h.next /\ g.unacked = h.unacked
         /\ g.sends = h.sends /\ g.flush = h.flush /\ g.handoff = h.handoff
         /\ g.onChain = h.onChain /\ g.stopped = h.stopped /\ (g.dirty \/ h.stopped)
    BY <2>8, <2>9 DEF Alike
  <2>11. Begins(h.cradle.got, g.cradle.got) /\ g.cradle.got \in Seq(Message)
    <3>1. Begins(h.cradle.got, h.cradle.got \o ms)
      BY <2>1, BeginsConcat
    <3> QED
      BY <2>3, <2>10, <3>1
  <2>12. Coherent(g)
    <3>1. Len(h.cradle.got \o ms) = Len(h.cradle.got) + Len(ms)
      BY <2>1
    <3> QED
      BY <2>1, <2>3, <2>10, <3>1 DEF Coherent, Sound, PageOK
  <2>13. Precedes(d, g)
    <3>1. d.cradle.got \in Seq(Message)
      BY DEF TransportInv, Typed, SessionSave, Cradle
    <3>2. Precedes(d, h)
      BY DEF Sound, PageOK
    <3>3. Begins(d.cradle.got, g.cradle.got)
      BY <2>1, <2>11, <3>1, <3>2, BeginsChain DEF Precedes
    <3> QED
      BY <2>10, <3>2, <3>3 DEF Precedes
  <2>14. Len(g.acks) = Len(h.acks) + Len(ms)
    <3>1. \A s, t \in Seq(Nat) : Len(s \o t) = Len(s) + Len(t)
      OBVIOUS
    <3> QED
      BY <2>1, <2>2, <2>10, <3>1
  <2>15. h.flush # Idle =>
             /\ Coherent(g.flush.snap) /\ Precedes(d, g.flush.snap) /\ Precedes(g.flush.snap, g)
             /\ ~g.stopped => g.flush.outs <= Len(g.sends) /\ g.flush.acks <= Len(g.acks)
    <3> SUFFICES ASSUME h.flush # Idle
                 PROVE  /\ Coherent(g.flush.snap) /\ Precedes(d, g.flush.snap) /\ Precedes(g.flush.snap, g)
                        /\ ~g.stopped => g.flush.outs <= Len(g.sends) /\ g.flush.acks <= Len(g.acks)
      OBVIOUS
    <3>1. h.flush \in Flushing
      BY <2>1 DEF Page
    <3>2. h.flush.snap.cradle.got \in Seq(Message) /\ h.flush.acks \in Nat
      BY <3>1 DEF Flushing, SessionSave, Cradle
    <3>3. /\ Coherent(h.flush.snap) /\ Precedes(d, h.flush.snap) /\ Precedes(h.flush.snap, h)
          /\ ~h.stopped => h.flush.outs <= Len(h.sends) /\ h.flush.acks <= Len(h.acks)
      BY DEF Sound, PageOK
    <3>4. Precedes(h.flush.snap, g)
      <4>1. Begins(h.flush.snap.cradle.got, g.cradle.got)
        BY <2>1, <2>11, <3>2, <3>3, BeginsChain DEF Precedes
      <4> QED
        BY <2>10, <3>3, <4>1 DEF Precedes
    <3> QED
      BY <2>1, <2>10, <2>14, <3>2, <3>3, <3>4
  <2>16. PageOK(g, d)
    BY <2>10, <2>12, <2>13, <2>15 DEF PageOK, Sound
  <2>17. ~forked[q] => /\ Begins(g.cradle.got, host[q].book) /\ Filed(g.reorder, host[q].book)
    <3> SUFFICES ASSUME ~forked[q]
                 PROVE  /\ Begins(g.cradle.got, host[q].book) /\ Filed(g.reorder, host[q].book)
      OBVIOUS
    <3> DEFINE b == host[q].book
    <3>1. /\ Begins(h.cradle.got, b) /\ Filed(h.reorder, b)
          /\ \A i \in 1..Len(ms) : h.remote + i \in 1..Len(b) /\ ms[i] = b[h.remote + i]
      BY Zenon DEF Sound, Follows
    <3>2. b \in Seq(Message)
      BY OtherPeer DEF TransportInv, Typed, Page
    <3> HIDE DEF b
    <3>3. Filed(g.reorder, b)
      BY <2>4, <2>10, <3>1 DEF Filed
    <3>4. Len(b) \in Nat /\ Len(h.cradle.got) <= Len(b)
      BY <3>1, <3>2 DEF Begins
    <3>5. h.remote + Len(ms) <= Len(b)
      BY <2>1, <3>1, <3>4, SMTT(40)
    <3>6. ASSUME NEW i \in 1..Len(g.cradle.got)
          PROVE  g.cradle.got[i] = b[i]
      <4>1. i \in 1..(h.remote + Len(ms)) /\ i \in Nat
        BY <2>1, <2>3, <2>10
      <4>2. CASE i <= h.remote
        BY <2>1, <2>3, <2>10, <3>1, <4>1, <4>2 DEF Begins
      <4>3. CASE i > h.remote
        <5>1. i - h.remote \in 1..Len(ms) /\ i = h.remote + (i - h.remote)
          <6>1. h.remote \in Nat /\ Len(ms) \in Nat
            BY <2>1
          <6> QED
            BY <4>1, <4>3, <6>1
        <5>2. (h.cradle.got \o ms)[i] = ms[i - h.remote]
          BY <2>1, <4>1, <4>3
        <5> QED
          BY <2>3, <2>10, <3>1, <5>1, <5>2
      <4> QED
        BY <2>1, <4>1, <4>2, <4>3
    <3>7. Len(g.cradle.got) <= Len(b)
      BY <2>1, <2>3, <2>10, <3>5
    <3>8. Begins(g.cradle.got, b)
      BY <3>6, <3>7 DEF Begins
    <3> QED
      BY <3>3, <3>8 DEF b
  <2>18. Sound(p, g)
    BY <2>4, <2>10, <2>16, <2>17 DEF Sound
  <2>19. HandoffOK(h) => HandoffOK(g)
    BY <2>3, <2>10 DEF HandoffOK
  <2>20. AcksWait(h, d) /\ ~h.stopped => AcksWait(g, d)
    <3> SUFFICES ASSUME AcksWait(h, d), ~h.stopped
                 PROVE  AcksWait(g, d)
      OBVIOUS
    <3>1. /\ \A i \in 1..Len(h.acks) : g.acks[i] = h.acks[i]
          /\ \A i \in 1..Len(ms) : g.acks[Len(h.acks) + i] = h.remote + i
      <4>1. /\ \A i \in 1..Len(h.acks) : (h.acks \o A)[i] = h.acks[i]
            /\ \A i \in 1..Len(ms) : (h.acks \o A)[Len(h.acks) + i] = A[i]
        BY <2>1, <2>2
      <4> QED
        BY <2>2, <2>10, <4>1
    <3>2. \A i \in 1..Len(h.acks) : h.acks[i] \in Nat
      BY <2>1
    <3>3. ASSUME NEW i \in 1..Len(g.acks)
          PROVE  g.acks[i] <= g.remote
      <4>1. CASE i <= Len(h.acks)
        BY <2>1, <2>10, <2>14, <3>1, <3>2, <4>1 DEF AcksWait
      <4>2. CASE i > Len(h.acks)
        <5>1. i - Len(h.acks) \in 1..Len(ms) /\ i = Len(h.acks) + (i - Len(h.acks))
          BY <2>1, <2>14, <4>2
        <5>2. PICK j \in 1..Len(ms) : i = Len(h.acks) + j
          BY <5>1
        <5>3. g.acks[i] = h.remote + j
          BY <3>1, <5>2
        <5> QED
          BY <2>1, <2>10, <5>3
      <4> QED
        BY <2>1, <2>14, <4>1, <4>2
    <3>4. d.remote \in Nat
      BY DEF TransportInv, Typed, SessionSave
    <3>5. \A n \in (h.remote + 1)..g.remote : \E i \in (Len(h.acks) + 1)..Len(g.acks) : g.acks[i] = n
      <4> SUFFICES ASSUME NEW n \in (h.remote + 1)..g.remote
                   PROVE  \E i \in (Len(h.acks) + 1)..Len(g.acks) : g.acks[i] = n
        OBVIOUS
      <4>1. PICK j \in 1..Len(ms) : n = h.remote + j
        <5>1. n - h.remote \in 1..Len(ms) /\ n = h.remote + (n - h.remote)
          BY <2>1, <2>10
        <5> QED
          BY <5>1
      <4>2. Len(h.acks) + j \in (Len(h.acks) + 1)..Len(g.acks)
        BY <2>1, <2>14
      <4>3. g.acks[Len(h.acks) + j] = n
        BY <3>1, <4>1
      <4> QED
        BY <4>2, <4>3
    <3>6. ASSUME NEW n \in (d.remote + 1)..g.remote
          PROVE  \E i \in 1..Len(g.acks) : g.acks[i] = n
      <4>1. CASE n <= h.remote
        <5>1. PICK i \in 1..Len(h.acks) : h.acks[i] = n
          BY <2>1, <3>4, <4>1 DEF AcksWait
        <5>2. i \in 1..Len(g.acks)
          BY <2>1, <2>14
        <5> QED
          BY <3>1, <5>1, <5>2
      <4>2. CASE n > h.remote
        <5>1. n \in (h.remote + 1)..g.remote
          BY <2>1, <2>10, <3>4, <4>2
        <5> QED
          BY <2>1, <3>5, <5>1
      <4> QED
        BY <2>1, <3>4, <4>1, <4>2
    <3>7. ASSUME h.flush # Idle
          PROVE  /\ \A i \in 1..h.flush.acks : g.acks[i] <= h.flush.snap.remote
                 /\ \A n \in (h.flush.snap.remote + 1)..g.remote :
                        \E i \in (h.flush.acks + 1)..Len(g.acks) : g.acks[i] = n
      <4>1. h.flush \in Flushing
        BY <2>1, <3>7 DEF Page
      <4>2. h.flush.acks \in Nat /\ h.flush.snap.remote \in Nat
        BY <4>1 DEF Flushing, SessionSave
      <4>3. \A i \in 1..h.flush.acks : h.acks[i] <= h.flush.snap.remote
        BY <3>7 DEF AcksWait
      <4>4. h.flush.acks <= Len(h.acks)
        BY <3>7 DEF Sound, PageOK
      <4>5. ASSUME NEW i \in 1..h.flush.acks
            PROVE  g.acks[i] <= h.flush.snap.remote
        <5>1. i \in 1..Len(h.acks)
          BY <2>1, <4>2, <4>4
        <5> QED
          BY <3>1, <4>3, <5>1
      <4>6. ASSUME NEW n \in (h.flush.snap.remote + 1)..g.remote
            PROVE  \E i \in (h.flush.acks + 1)..Len(g.acks) : g.acks[i] = n
        <5>1. CASE n <= h.remote
          <6>1. PICK i \in (h.flush.acks + 1)..Len(h.acks) : h.acks[i] = n
            <7>1. n \in (h.flush.snap.remote + 1)..h.remote
              BY <2>1, <4>2, <5>1
            <7> QED
              BY <3>7, <7>1 DEF AcksWait
          <6>2. i \in 1..Len(h.acks) /\ i \in (h.flush.acks + 1)..Len(g.acks)
            BY <2>1, <2>14, <4>2
          <6> QED
            BY <3>1, <6>1, <6>2
        <5>2. CASE n > h.remote
          <6>1. n \in (h.remote + 1)..g.remote
            BY <2>1, <2>10, <4>2, <5>2
          <6>2. PICK i \in (Len(h.acks) + 1)..Len(g.acks) : g.acks[i] = n
            BY <3>5, <6>1
          <6>3. i \in (h.flush.acks + 1)..Len(g.acks)
            BY <2>1, <4>2, <4>4
          <6> QED
            BY <6>2, <6>3
        <5> QED
          BY <2>1, <4>2, <5>1, <5>2
      <4> QED
        BY <4>5, <4>6
    <3> QED
      BY <2>10, <3>3, <3>6, <3>7 DEF AcksWait
  <2>21. \A z : Kept(h, z) => Kept(g, z)
    BY <2>10 DEF Kept
  <2>22. Keeps(p, h) => Keeps(p, g)
    BY <2>10, <2>20, <2>21 DEF Keeps
  <2> QED
    BY <2>10, <2>18, <2>19, <2>22 DEF g
<1> QED
  BY <1>1, <1>2

\* A message on its way to p is one of the other peer's book.
LEMMA FrameFacts ==
    ASSUME TransportInv, NEW p \in Peer, NEW f \in net[p]
    PROVE  /\ f.no \in Nat
           /\ f.k = "msg" => f.msg \in Message
           /\ f.k = "msg" /\ ~forked[Other(p)] =>
                f.no \in 1..Len(host[Other(p)].book) /\ f.msg = host[Other(p)].book[f.no]
           /\ f.k = "ack" => f.no <= disk[Other(p)].remote \/ left[Other(p)]
<1>1. Other(p) \in Peer /\ Other(Other(p)) = p
  BY OtherPeer
<1>2. f \in Frame
  BY DEF TransportInv, Typed
<1>3. f.no \in Nat /\ (f.k = "msg" => f.msg \in Message)
  BY <1>2 DEF Frame
<1>4. ~forked[Other(p)] => OneStream(host[Other(p)].book, host[p], net[p])
  BY <1>1 DEF TransportInv, Streams
<1>5. f.k = "msg" /\ ~forked[Other(p)] =>
                f.no \in 1..Len(host[Other(p)].book) /\ f.msg = host[Other(p)].book[f.no]
  BY <1>4, Zenon DEF OneStream, Filed
<1>6. f.k = "ack" => f.no <= disk[Other(p)].remote \/ left[Other(p)]
  BY <1>1 DEF TransportInv, AckedIsSaved
<1> QED
  BY <1>3, <1>5, <1>6

\* The messages that a delivery hands over are the next ones of the stream,
\* and so are the first n of them.
LEMMA InOrderIsNext ==
    ASSUME TransportInv, NEW p \in Peer, NEW f \in net[p], f.k = "msg", f.no = host[p].remote + 1
    PROVE  LET ms == InOrder(host[p], f.msg)
           IN  /\ ms \in Seq(Message) /\ Follows(p, host[p], ms)
               /\ \A n \in 0..Len(ms) : SubSeq(ms, 1, n) \in Seq(Message)
                                        /\ Follows(p, host[p], SubSeq(ms, 1, n))
<1> DEFINE h == host[p]
           b == host[Other(p)].book
           ms == InOrder(h, f.msg)
<1>1. /\ h \in Page /\ IsFiniteSet(h.reorder) /\ f.msg \in Message /\ h.remote \in Nat
      /\ (~forked[Other(p)] => f.no \in 1..Len(b) /\ f.msg = b[f.no])
  BY FrameFacts DEF TransportInv, Typed, Page
<1>2. ~forked[Other(p)] => Filed(h.reorder, b)
  BY HostIsSound DEF Sound
<1>3. /\ ms \in Seq(Message) /\ Len(ms) >= 1 /\ ms[1] = f.msg
      /\ \A i \in 2..Len(ms) : \E e \in h.reorder : e.no = h.remote + i /\ e.msg = ms[i]
  BY <1>1, InOrderFollows
<1> HIDE DEF ms, b
<1>4. ASSUME ~forked[Other(p)], NEW i \in 1..Len(ms)
      PROVE  h.remote + i \in 1..Len(b) /\ ms[i] = b[h.remote + i]
  <2>1. Len(ms) \in Nat
    BY <1>3
  <2>2. CASE i = 1
    BY <1>1, <1>3, <1>4, <2>2
  <2>3. CASE i # 1
    <3>1. i \in 2..Len(ms)
      BY <2>1, <2>3
    <3>2. PICK e \in h.reorder : e.no = h.remote + i /\ e.msg = ms[i]
      BY <1>3, <3>1
    <3> QED
      BY <1>2, <1>4, <3>2 DEF Filed
  <2> QED
    BY <2>2, <2>3
<1>5. Follows(p, h, ms)
  BY <1>4 DEF Follows, b
<1>6. ASSUME NEW n \in 0..Len(ms)
      PROVE  SubSeq(ms, 1, n) \in Seq(Message) /\ Follows(p, h, SubSeq(ms, 1, n))
  <2>1. n \in Nat /\ n <= Len(ms) /\ Len(ms) \in Nat
    BY <1>3
  <2>2. /\ SubSeq(ms, 1, n) \in Seq(Message) /\ Len(SubSeq(ms, 1, n)) = n
        /\ \A i \in 1..n : SubSeq(ms, 1, n)[i] = ms[i]
    BY <1>3, <2>1
  <2>3. \A i \in 1..n : i \in 1..Len(ms)
    BY <2>1
  <2> QED
    BY <1>4, <2>2, <2>3 DEF Follows, b
<1> QED
  BY <1>3, <1>5, <1>6 DEF ms

\* deliver_message throws, and the message is dropped.
LEMMA ThrownSound ==
    ASSUME NEW p \in Peer, NEW d, Sound(p, d)
    PROVE  /\ Sound(p, Thrown(d)) /\ (HandoffOK(d) => HandoffOK(Thrown(d)))
           /\ Keeps(p, d) => Keeps(p, Thrown(d))
           /\ Thrown(d).book = d.book
<1> DEFINE R == {e \in d.reorder : e.no # d.remote + 1}
           g == Thrown(d)
<1>1. d \in Page /\ d.reorder \in SUBSET Entry /\ IsFiniteSet(d.reorder)
  BY DEF Sound, Page
<1>2. R \in SUBSET Entry /\ R \in SUBSET d.reorder /\ IsFiniteSet(R)
  BY <1>1, FS_Subset
<1>3. g = [d EXCEPT !.reorder = R]
  BY DEF Thrown
<1> HIDE DEF R, g
<1>4. g \in Page
  BY <1>1, <1>2, <1>3 DEF Page
<1>5. /\ g.book = d.book /\ g.next = d.next /\ g.unacked = d.unacked /\ g.sends = d.sends
      /\ g.cradle = d.cradle /\ g.remote = d.remote /\ g.acks = d.acks /\ g.reorder = R
      /\ g.flush = d.flush /\ g.stopped = d.stopped /\ g.dirty = d.dirty /\ g.onChain = d.onChain
      /\ g.handoff = d.handoff
  BY <1>1, <1>3 DEF Page
<1>6. PageOK(g, disk[p])
  BY <1>5 DEF Sound, PageOK, Coherent, Precedes
<1>7. Sound(p, g)
  BY <1>2, <1>4, <1>5, <1>6 DEF Sound, Filed
<1>8. HandoffOK(d) => HandoffOK(g)
  BY <1>5 DEF HandoffOK
<1>9. Keeps(p, d) => Keeps(p, g)
  <2>1. (AcksWait(d, disk[p]) => AcksWait(g, disk[p])) /\ \A z : Kept(d, z) => Kept(g, z)
    BY <1>5 DEF AcksWait, Kept
  <2> QED
    BY <1>5, <2>1 DEF Keeps
<1> QED
  BY <1>5, <1>7, <1>8, <1>9 DEF g

\* A step that only changes p's page, to a sound one, keeps the invariant.
LEMMA SilentStep ==
    ASSUME TransportInv, NEW p \in Peer, NEW h,
           Sound(p, h), HandoffOK(h), Keeps(p, h), Begins(host[p].book, h.book),
           Step(p, h), UNCHANGED <<disk, net, upsets, left, forked>>
    PROVE  TransportInv'
<1>1. Transmit(p, {})
  BY OtherPeer DEF TransportInv, Typed, Transmit
<1>2. /\ {} \in SUBSET Frame
      /\ \A f \in {} : f.k = "ack" => f.no <= disk[p].remote \/ left[p]
      /\ Filed({f \in {} : f.k = "msg"}, h.book)
  BY DEF Filed
<1> QED
  BY <1>1, <1>2, SoundStep

\* An ended session, or one that stops, leaves a sound page.
LEMMA EndedSound ==
    ASSUME NEW p \in Peer, NEW h, Sound(p, h)
    PROVE  /\ Sound(p, Stop(h)) /\ HandoffOK(Stop(h)) /\ Stop(h).book = h.book
           /\ Sound(p, Ended(h)) /\ HandoffOK(Ended(h)) /\ Ended(h).book = h.book
<1>1. h \in Page /\ <<h.remote>> \in Seq(Nat) /\ <<>> \in Seq(Nat)
  BY DEF Sound, Page
<1>2. /\ Sound(p, [Stop(h) EXCEPT !.acks = <<>>]) /\ HandoffOK([Stop(h) EXCEPT !.acks = <<>>])
      /\ [Stop(h) EXCEPT !.acks = <<>>].book = h.book
  BY <1>1, StopSound
<1>3. /\ Sound(p, [Stop(h) EXCEPT !.acks = <<h.remote>>])
      /\ HandoffOK([Stop(h) EXCEPT !.acks = <<h.remote>>])
      /\ [Stop(h) EXCEPT !.acks = <<h.remote>>].book = h.book
  BY <1>1, StopSound
<1>4. Stop(h) = [Stop(h) EXCEPT !.acks = <<>>]
  BY <1>1 DEF Stop, Page
<1> QED
  BY <1>2, <1>3, <1>4, Zenon DEF Ended

-----------------------------------------------------------------------------
(***************************************************************************)
(* The actions.                                                            *)
(***************************************************************************)

\* The message a cradle would make next is one.
LEMMA FreshIsMessage ==
    ASSUME TransportInv, NEW h \in Page
    PROVE  Fresh(h) \in Message
<1>1. upsets \in Nat /\ Len(h.cradle.made) \in Nat
  BY DEF TransportInv, Typed, Page, Cradle
<1> QED
  BY <1>1 DEF Fresh, Message

\* A local action makes the cradle emit a message.
LEMMA ActKeeps ==
    ASSUME TransportInv, NEW p \in Peer, Act(p)
    PROVE  TransportInv'
<1> DEFINE h == host[p]
           m == Fresh(h)
           g == [h EXCEPT !.cradle.made = Append(@, m), !.events = Append(@, m)]
<1>1. h \in Page /\ Sound(p, h) /\ HandoffOK(h) /\ Keeps(p, h)
  BY HostIsSound DEF Sound
<1>2. m \in Message
  BY <1>1, FreshIsMessage
<1>3. Step(p, g) /\ UNCHANGED <<disk, net, upsets, left, forked>>
  BY DEF Act
<1> HIDE DEF m
<1>4. Alike(g, h) /\ g.onChain = h.onChain /\ (HandoffOK(h) => HandoffOK(g))
  BY <1>1, <1>2, MadeAlike
<1> HIDE DEF g
<1>5. Sound(p, g) /\ Keeps(p, g)
  BY <1>1, <1>4, AlikeIsSound
<1>6. Begins(h.book, g.book)
  BY <1>1, <1>4, BeginsOrder DEF Alike, Page
<1> QED
  BY <1>1, <1>3, <1>4, <1>5, <1>6, SilentStep

\* A turn of the event loop drains part of the event queue.
LEMMA DrainKeeps ==
    ASSUME TransportInv, NEW p \in Peer, Drain(p)
    PROVE  TransportInv'
<1> DEFINE h == host[p]
           n == IF Len(h.events) < DrainBudget THEN Len(h.events) ELSE DrainBudget
           ms == SubSeq(h.events, 1, n)
           rest == SubSeq(h.events, n + 1, Len(h.events))
           e == IF h.onChain THEN h ELSE Enqueue(h, ms)
           g == Drained(h, n)
<1>1. h \in Page /\ Sound(p, h) /\ HandoffOK(h) /\ Keeps(p, h) /\ h.events \in Seq(Message)
  BY HostIsSound DEF Sound, Page
<1>2. Step(p, g) /\ UNCHANGED <<disk, net, upsets, left, forked>>
  BY DEF Drain
<1>3. n \in 0..Len(h.events)
  BY <1>1, BoundsAssumption
<1> HIDE DEF n
<1>4. ms \in Seq(Message) /\ rest \in Seq(Message)
  BY <1>1, <1>3
<1>5. Begins(h.book, h.book)
  BY <1>1, BeginsOrder DEF Page
<1>6. Sound(p, e) /\ HandoffOK(e) /\ Keeps(p, e) /\ e.events = h.events /\ Begins(h.book, e.book)
  <2>1. CASE h.onChain
    BY <1>1, <1>5, <2>1
  <2>2. CASE ~h.onChain
    BY <1>1, <1>4, <2>2, EnqueueSound
  <2> QED
    BY <2>1, <2>2
<1>7. g = [e EXCEPT !.events = SubSeq(@, n + 1, Len(@))]
  BY DEF Drained
<1> HIDE DEF e, g, ms
<1>8. e \in Page
  BY <1>6 DEF Sound
<1>9. g = [e EXCEPT !.events = rest]
  BY <1>6, <1>7, <1>8 DEF Page
<1> HIDE DEF rest
<1>10. g \in Page
  BY <1>4, <1>8, <1>9 DEF Page
<1>11. Alike(g, e) /\ g.onChain = e.onChain /\ g.handoff = e.handoff /\ g.cradle = e.cradle /\ g.book = e.book
  BY <1>8, <1>9, <1>10 DEF Alike, Page
<1>12. Sound(p, g) /\ Keeps(p, g)
  BY <1>6, <1>11, AlikeIsSound
<1>13. HandoffOK(g)
  BY <1>6, <1>11 DEF HandoffOK
<1> QED
  BY <1>2, <1>6, <1>11, <1>12, <1>13, SilentStep

\* p leaves with a sound page h.
LEMMA LeaveKeeps ==
    ASSUME TransportInv, NEW p \in Peer, NEW h, Leave(p, h), Sound(p, h), HandoffOK(h),
           h.book = host[p].book, UNCHANGED <<disk, net, forked>>
    PROVE  TransportInv'
<1>1. /\ Step(p, h) /\ left' = [left EXCEPT ![p] = TRUE] /\ upsets' \in Nat
  BY DEF Leave, Upset, TransportInv, Typed
<1>2. Begins(host[p].book, h.book)
  BY BeginsOrder DEF Sound, Page
<1> QED
  BY <1>1, <1>2, LeaveStep

\* goOnChain, from the user or for want of the peer.
LEMMA GoOnChainKeeps ==
    ASSUME TransportInv, NEW p \in Peer, GoOnChain(p)
    PROVE  TransportInv'
<1> DEFINE h == host[p]
<1>1. h \in Page /\ Sound(p, h) /\ HandoffOK(h)
  BY HostIsSound DEF Sound
<1>2. UNCHANGED <<disk, net, forked>>
  BY DEF GoOnChain
<1>3. CASE Leave(p, GoneOnChain(h))
  <2>1. Alike(GoneOnChain(h), h) /\ HandoffOK(GoneOnChain(h))
    BY <1>1, GoneOnChainAlike
  <2>2. Sound(p, GoneOnChain(h)) /\ GoneOnChain(h).book = h.book
    BY <1>1, <2>1, AlikeIsSound DEF Alike
  <2> QED
    BY <1>2, <1>3, <2>1, <2>2, LeaveKeeps
<1>4. CASE Leave(p, Stop(h))
  <2>1. Sound(p, Stop(h)) /\ HandoffOK(Stop(h)) /\ Stop(h).book = h.book
    BY <1>1, EndedSound
  <2> QED
    BY <1>2, <1>4, <2>1, LeaveKeeps
<1> QED
  BY <1>3, <1>4 DEF GoOnChain

\* The cradle's answer to what was just delivered.
LEMMA AnsweredKeeps ==
    ASSUME TransportInv, NEW p \in Peer, NEW d, Answered(p, d),
           Sound(p, d), HandoffOK(d), Keeps(p, d), d.book = host[p].book,
           UNCHANGED <<disk, net, upsets, left, forked>>
    PROVE  TransportInv'
<1> DEFINE m == Fresh(d)
           g == [d EXCEPT !.cradle.made = Append(@, m), !.events = Append(@, m)]
           t == [d EXCEPT !.cradle.made = Append(@, m), !.cradle.handoff = m]
           c == [d.cradle EXCEPT !.made = Append(@, m), !.handoff = m]
<1>1. d \in Page /\ d.book \in Seq(Message) /\ m \in Message /\ d.cradle \in Cradle
  BY FreshIsMessage DEF Sound, Page
<1>2. Begins(d.book, d.book)
  BY <1>1, BeginsOrder
<1>3. Step(p, d) \/ Step(p, g) \/ Step(p, QueueHandoff(t, m))
  BY DEF Answered
<1> HIDE DEF m
<1>4. CASE Step(p, d)
  BY <1>2, <1>4, SilentStep
<1>5. CASE Step(p, g)
  <2>1. Alike(g, d) /\ g.onChain = d.onChain /\ HandoffOK(g)
    BY <1>1, MadeAlike
  <2> HIDE DEF g
  <2>2. Sound(p, g) /\ Keeps(p, g) /\ g.book = d.book
    BY <2>1, AlikeIsSound DEF Alike
  <2> QED
    BY <1>2, <1>5, <2>1, <2>2, SilentStep
<1>6. CASE Step(p, QueueHandoff(t, m))
  <2>1. Append(d.cradle.made, m) \in Seq(Message)
    BY <1>1 DEF Cradle
  <2>2. c \in Cradle /\ c.got = d.cradle.got /\ c.handoff = m
    BY <1>1, <2>1 DEF Cradle
  <2>3. t = [d EXCEPT !.cradle = c]
    BY <1>1 DEF Page, Cradle
  <2> HIDE DEF c, t
  <2>4. t \in Page /\ t.cradle = c
    BY <1>1, <2>2, <2>3 DEF Page
  <2>5. Alike(t, d) /\ t.onChain = d.onChain /\ t.book = d.book
    BY <1>1, <2>2, <2>3, <2>4 DEF Alike, Page
  <2>6. Sound(p, t) /\ Keeps(p, t) /\ t.cradle.handoff = m
    BY <2>2, <2>4, <2>5, AlikeIsSound
  <2> DEFINE u == QueueHandoff(t, m)
  <2>7. Sound(p, u) /\ HandoffOK(u) /\ Begins(t.book, u.book) /\ Keeps(p, u)
    BY <2>6, QueueHandoffSound
  <2> HIDE DEF u
  <2>8. Step(p, u) /\ Begins(host[p].book, u.book)
    BY <1>6, <2>5, <2>7 DEF u
  <2> QED
    BY <2>7, <2>8, SilentStep
<1> QED
  BY <1>3, <1>4, <1>5, <1>6

\* deliverMessage of the next message, with what waited behind it.
LEMMA DeliverNextKeeps ==
    ASSUME TransportInv, NEW p \in Peer, NEW f \in net[p], f.k = "msg", DeliverNext(p, f)
    PROVE  TransportInv'
<1> DEFINE h == host[p]
           ms == InOrder(h, f.msg)
           D(n) == Delivered(h, SubSeq(ms, 1, n))
<1>1. h \in Page /\ Sound(p, h) /\ HandoffOK(h) /\ Keeps(p, h) /\ h.book \in Seq(Message)
  BY HostIsSound DEF Sound, Page
<1>2. /\ ms \in Seq(Message) /\ Follows(p, h, ms) /\ Len(ms) \in Nat
      /\ \A n \in 0..Len(ms) : SubSeq(ms, 1, n) \in Seq(Message) /\ Follows(p, h, SubSeq(ms, 1, n))
  BY InOrderIsNext DEF DeliverNext
<1>3. UNCHANGED <<disk, net, forked>>
  BY DEF DeliverNext
<1>4. \/ Answered(p, Delivered(h, ms)) /\ UNCHANGED <<upsets, left>>
      \/ \E n \in 1..Len(ms) : Leave(p, Ended(D(n)))
      \/ \E n \in 0..(Len(ms) - 1) :
           \/ Step(p, Thrown(D(n))) /\ UNCHANGED <<upsets, left>>
           \/ Leave(p, GoneOnChain(Thrown(D(n))))
           \/ Leave(p, Stop(Thrown(D(n))))
  BY DEF DeliverNext
<1>5. ASSUME NEW n \in 0..Len(ms)
      PROVE  Sound(p, D(n)) /\ HandoffOK(D(n)) /\ Keeps(p, D(n)) /\ D(n).book = h.book
  BY <1>1, <1>2, DeliveredSound
<1>6. Sound(p, Delivered(h, ms)) /\ HandoffOK(Delivered(h, ms)) /\ Keeps(p, Delivered(h, ms))
      /\ Delivered(h, ms).book = h.book
  BY <1>1, <1>2, DeliveredSound
<1> HIDE DEF ms
<1>7. CASE Answered(p, Delivered(h, ms)) /\ UNCHANGED <<upsets, left>>
  BY <1>3, <1>6, <1>7, AnsweredKeeps
<1>8. ASSUME NEW n \in 1..Len(ms), Leave(p, Ended(D(n)))
      PROVE  TransportInv'
  <2>1. Sound(p, D(n)) /\ D(n).book = h.book
    BY <1>2, <1>5
  <2> HIDE DEF D
  <2>2. Sound(p, Ended(D(n))) /\ HandoffOK(Ended(D(n))) /\ Ended(D(n)).book = h.book
    BY <2>1, EndedSound
  <2> QED
    BY <1>3, <1>8, <2>2, LeaveKeeps
<1>9. ASSUME NEW n \in 0..(Len(ms) - 1),
             \/ Step(p, Thrown(D(n))) /\ UNCHANGED <<upsets, left>>
             \/ Leave(p, GoneOnChain(Thrown(D(n))))
             \/ Leave(p, Stop(Thrown(D(n))))
      PROVE  TransportInv'
  <2> DEFINE t == Thrown(D(n))
  <2>1. Sound(p, D(n)) /\ HandoffOK(D(n)) /\ Keeps(p, D(n)) /\ D(n).book = h.book
    BY <1>2, <1>5
  <2> HIDE DEF D
  <2>2. Sound(p, t) /\ HandoffOK(t) /\ Keeps(p, t) /\ t.book = h.book
    BY <2>1, ThrownSound
  <2>3. t \in Page /\ Begins(h.book, t.book)
    BY <1>1, <2>2, BeginsOrder DEF Sound
  <2>4. \/ Step(p, t) /\ UNCHANGED <<upsets, left>>
        \/ Leave(p, GoneOnChain(t))
        \/ Leave(p, Stop(t))
    BY <1>9
  <2> HIDE DEF t
  <2>5. CASE Step(p, t) /\ UNCHANGED <<upsets, left>>
    BY <1>3, <2>2, <2>3, <2>5, SilentStep
  <2>6. CASE Leave(p, GoneOnChain(t))
    <3>1. Alike(GoneOnChain(t), t) /\ HandoffOK(GoneOnChain(t))
      BY <2>2, <2>3, GoneOnChainAlike
    <3>2. Sound(p, GoneOnChain(t)) /\ GoneOnChain(t).book = h.book
      BY <2>2, <3>1, AlikeIsSound DEF Alike
    <3> QED
      BY <1>3, <2>6, <3>1, <3>2, LeaveKeeps
  <2>7. CASE Leave(p, Stop(t))
    <3>1. Sound(p, Stop(t)) /\ HandoffOK(Stop(t)) /\ Stop(t).book = h.book
      BY <2>2, EndedSound
    <3> QED
      BY <1>3, <2>7, <3>1, LeaveKeeps
  <2> QED
    BY <2>4, <2>5, <2>6, <2>7
<1> HIDE DEF D
<1> QED
  BY <1>4, <1>7, <1>8, <1>9

\* deliverMessage of a later message: it waits in the reorder queue.
LEMMA DeliverEarlyKeeps ==
    ASSUME TransportInv, NEW p \in Peer, NEW f \in net[p], f.k = "msg", DeliverEarly(p, f)
    PROVE  TransportInv'
<1> DEFINE h == host[p]
           e == [no |-> f.no, msg |-> f.msg]
           K == {x \in h.reorder : x.no # f.no}
           R == K \cup {e}
           g == [h EXCEPT !.reorder = R]
<1>1. /\ h \in Page /\ Sound(p, h) /\ HandoffOK(h) /\ Keeps(p, h)
      /\ h.reorder \in SUBSET Entry /\ IsFiniteSet(h.reorder) /\ h.book \in Seq(Message)
  BY HostIsSound DEF Sound, Page
<1>2. /\ f.no \in Nat /\ f.msg \in Message
      /\ ~forked[Other(p)] => f.no \in 1..Len(host[Other(p)].book) /\ f.msg = host[Other(p)].book[f.no]
  BY FrameFacts
<1>3. e \in Entry /\ e.no = f.no /\ e.msg = f.msg
  BY <1>2 DEF Entry
<1>4. Step(p, g) /\ UNCHANGED <<disk, net, upsets, left, forked>>
  BY DEF DeliverEarly
<1> HIDE DEF e
<1>5. K \in SUBSET h.reorder /\ R \in SUBSET Entry
  BY <1>1, <1>3
<1>6. IsFiniteSet(R)
  <2>1. IsFiniteSet(K)
    BY <1>1, <1>5, FS_Subset
  <2> QED
    BY <2>1, FS_AddElement
<1>7. ~forked[Other(p)] => Filed(R, host[Other(p)].book)
  BY <1>1, <1>2, <1>3, <1>5 DEF Sound, Filed
<1> HIDE DEF R
<1>8. g \in Page
  BY <1>1, <1>5 DEF Page
<1>9. /\ g.book = h.book /\ g.next = h.next /\ g.unacked = h.unacked /\ g.sends = h.sends
      /\ g.cradle = h.cradle /\ g.remote = h.remote /\ g.acks = h.acks /\ g.reorder = R
      /\ g.flush = h.flush /\ g.stopped = h.stopped /\ g.dirty = h.dirty /\ g.onChain = h.onChain
      /\ g.handoff = h.handoff
  BY <1>1 DEF Page
<1> HIDE DEF g
<1>10. PageOK(g, disk[p])
  BY <1>1, <1>9 DEF Sound, PageOK, Coherent, Precedes
<1>11. Sound(p, g)
  BY <1>1, <1>6, <1>7, <1>8, <1>9, <1>10 DEF Sound
<1>12. HandoffOK(g)
  BY <1>1, <1>9 DEF HandoffOK
<1>13. Keeps(p, g)
  <2>1. (AcksWait(h, disk[p]) => AcksWait(g, disk[p])) /\ \A z : Kept(h, z) => Kept(g, z)
    BY <1>9 DEF AcksWait, Kept
  <2> QED
    BY <1>1, <1>9, <2>1 DEF Keeps
<1>14. Begins(h.book, g.book)
  BY <1>1, <1>9, BeginsOrder
<1> QED
  BY <1>4, <1>11, <1>12, <1>13, <1>14, SilentStep

\* p sends acknowledgements of what it saved, and the entries es again or for
\* the first time.
LEMMA ResendKeeps ==
    ASSUME TransportInv, NEW p \in Peer, NEW h,
           Sound(p, h), HandoffOK(h), Keeps(p, h), Begins(host[p].book, h.book),
           NEW es \in SUBSET Entry, Filed(es, h.book), NEW acks \in SUBSET Frame,
           \A f \in acks : f.k = "ack" /\ (f.no <= disk[p].remote \/ left[p]),
           Step(p, NoteSent(h, es)), Transmit(p, acks \cup Messages(es)),
           UNCHANGED <<disk, upsets, left, forked>>
    PROVE  TransportInv'
<1> DEFINE g == NoteSent(h, es)
           out == acks \cup Messages(es)
<1>1. h \in Page
  BY DEF Sound
<1>2. Alike(g, h) /\ g.onChain = h.onChain /\ HandoffOK(g)
  BY <1>1, NoteSentAlike
<1> HIDE DEF g
<1>3. Sound(p, g) /\ Keeps(p, g) /\ g.book = h.book
  BY <1>2, AlikeIsSound DEF Alike
<1>4. /\ Messages(es) \in SUBSET Frame /\ (\A f \in Messages(es) : f.k = "msg")
      /\ Filed(Messages(es), h.book)
  BY MessagesFiled
<1>5. /\ out \in SUBSET Frame
      /\ \A f \in out : f.k = "ack" => f.no <= disk[p].remote \/ left[p]
      /\ Filed({f \in out : f.k = "msg"}, g.book)
  BY <1>3, <1>4 DEF Filed
<1>6. Step(p, g) /\ Transmit(p, out) /\ Begins(host[p].book, g.book)
  BY <1>3 DEF g
<1> HIDE DEF out
<1> QED
  BY <1>2, <1>3, <1>5, <1>6, SoundStep

\* What resendUnacked sends is filed.
LEMMA ResentFrames ==
    ASSUME NEW p \in Peer, NEW h, Sound(p, h), NEW sent \in BOOLEAN
    PROVE  \E es \in SUBSET Entry : /\ Filed(es, h.book)
                                    /\ Resent(h, sent) = NoteSent(h, es)
                                    /\ ResendFrames(h, sent) = Messages(es)
<1>1. h.unacked \in SUBSET Entry /\ Filed(h.unacked, h.book) /\ Filed({}, h.book) /\ {} \in SUBSET Entry
  BY DEF Sound, Page, PageOK, Coherent, Filed
<1>2. CASE sent = TRUE
  <2>1. Resent(h, sent) = NoteSent(h, h.unacked) /\ ResendFrames(h, sent) = Messages(h.unacked)
    BY <1>2 DEF Resent, ResendFrames
  <2> QED
    BY <1>1, <2>1
<1>3. CASE sent = FALSE
  <2>1. Resent(h, sent) = NoteSent(h, {}) /\ ResendFrames(h, sent) = Messages({})
    BY <1>3 DEF Resent, ResendFrames, Messages
  <2> QED
    BY <1>1, <2>1
<1> QED
  BY <1>2, <1>3

\* receiveKeepalive, or the hub's socket is open again.
LEMMA NudgeKeeps ==
    ASSUME TransportInv, NEW p \in Peer, NEW sent \in BOOLEAN, Nudge(p, sent)
    PROVE  TransportInv'
<1> DEFINE h == host[p]
<1>1. Sound(p, h) /\ HandoffOK(h) /\ Keeps(p, h) /\ h.book \in Seq(Message)
  BY HostIsSound DEF Sound, Page
<1>2. PICK es \in SUBSET Entry : /\ Filed(es, h.book) /\ Resent(h, sent) = NoteSent(h, es)
                                 /\ ResendFrames(h, sent) = Messages(es)
  BY <1>1, ResentFrames
<1>3. /\ Step(p, NoteSent(h, es)) /\ Transmit(p, {} \cup Messages(es))
      /\ UNCHANGED <<disk, upsets, left, forked>>
  <2>1. {} \cup Messages(es) = Messages(es)
    OBVIOUS
  <2> QED
    BY <1>2, <2>1 DEF Nudge
<1>4. Begins(h.book, h.book) /\ {} \in SUBSET Frame
  BY <1>1, BeginsOrder
<1> QED
  BY <1>1, <1>2, <1>3, <1>4, ResendKeeps

\* deliverMessage of a message already consumed.
LEMMA DeliverDuplicateKeeps ==
    ASSUME TransportInv, NEW p \in Peer, NEW f \in net[p], f.k = "msg", DeliverDuplicate(p, f)
    PROVE  TransportInv'
<1> DEFINE h == host[p]
           g == [h EXCEPT !.acks = Append(@, f.no)]
<1>1. /\ h \in Page /\ Sound(p, h) /\ HandoffOK(h) /\ Keeps(p, h) /\ h.book \in Seq(Message)
      /\ h.acks \in Seq(Nat) /\ h.remote \in Nat /\ Len(h.acks) \in Nat
  BY HostIsSound DEF Sound, Page
<1>2. f.no \in Nat /\ f.no <= h.remote /\ ~h.stopped /\ UNCHANGED <<disk, upsets, left, forked>>
  BY FrameFacts DEF DeliverDuplicate
<1>3. PICK sent \in BOOLEAN :
         \/ /\ h.dirty /\ Step(p, Resent(g, sent)) /\ Transmit(p, ResendFrames(h, sent))
         \/ /\ ~h.dirty /\ Step(p, Resent(h, sent))
            /\ Transmit(p, {Ack(f.no)} \cup ResendFrames(h, sent))
  BY DEF DeliverDuplicate
<1>4. Begins(h.book, h.book) /\ {} \in SUBSET Frame
  BY <1>1, BeginsOrder
<1>5. CASE h.dirty /\ Step(p, Resent(g, sent)) /\ Transmit(p, ResendFrames(h, sent))
  <2>1. Append(h.acks, f.no) \in Seq(Nat)
    BY <1>1, <1>2
  <2>2. g \in Page
    BY <1>1, <2>1 DEF Page
  <2>3. /\ g.book = h.book /\ g.next = h.next /\ g.unacked = h.unacked /\ g.sends = h.sends
        /\ g.cradle = h.cradle /\ g.remote = h.remote /\ g.acks = Append(h.acks, f.no)
        /\ g.reorder = h.reorder /\ g.flush = h.flush /\ g.stopped = h.stopped /\ g.dirty = h.dirty
        /\ g.onChain = h.onChain /\ g.handoff = h.handoff
    BY <1>1 DEF Page
  <2> HIDE DEF g
  <2>4. /\ Len(g.acks) = Len(h.acks) + 1 /\ \A i \in 1..Len(h.acks) : g.acks[i] = h.acks[i]
        /\ g.acks[Len(h.acks) + 1] = f.no
    BY <1>1, <1>2, <2>3
  <2>5. h.flush # Idle => /\ h.flush.acks \in Nat /\ h.flush.snap.remote \in Nat
                          /\ h.flush.acks <= Len(h.acks) /\ h.flush.acks <= Len(g.acks)
    <3> SUFFICES ASSUME h.flush # Idle
                 PROVE  /\ h.flush.acks \in Nat /\ h.flush.snap.remote \in Nat
                        /\ h.flush.acks <= Len(h.acks) /\ h.flush.acks <= Len(g.acks)
      OBVIOUS
    <3>1. h.flush \in Flushing
      BY <1>1 DEF Page
    <3>2. h.flush.acks \in Nat /\ h.flush.snap.remote \in Nat
      BY <3>1 DEF Flushing, SessionSave
    <3>3. h.flush.acks <= Len(h.acks)
      BY <1>1, <1>2 DEF Sound, PageOK
    <3> QED
      BY <1>1, <2>4, <3>2, <3>3
  <2>6. PageOK(g, disk[p])
    BY <1>1, <1>5, <2>3, <2>5 DEF Sound, PageOK, Coherent, Precedes
  <2>7. Sound(p, g)
    BY <1>1, <2>2, <2>3, <2>6 DEF Sound
  <2>8. HandoffOK(g)
    BY <1>1, <2>3 DEF HandoffOK
  <2>9. AcksWait(h, disk[p]) => AcksWait(g, disk[p])
    <3> SUFFICES ASSUME AcksWait(h, disk[p])
                 PROVE  AcksWait(g, disk[p])
      OBVIOUS
    <3>1. \A i \in 1..Len(g.acks) : i \in 1..Len(h.acks) \/ i = Len(h.acks) + 1
      BY <1>1, <2>4
    <3>2. \A i \in 1..Len(h.acks) : i \in 1..Len(g.acks)
      BY <1>1, <2>4
    <3>3. \A i \in 1..Len(g.acks) : g.acks[i] <= g.remote
      BY <1>2, <2>3, <2>4, <3>1 DEF AcksWait
    <3>4. \A n \in (disk[p].remote + 1)..g.remote : \E i \in 1..Len(g.acks) : g.acks[i] = n
      BY <2>3, <2>4, <3>2 DEF AcksWait
    <3>5. ASSUME h.flush # Idle
          PROVE  /\ \A i \in 1..h.flush.acks : g.acks[i] <= h.flush.snap.remote
                 /\ \A n \in (h.flush.snap.remote + 1)..g.remote :
                        \E i \in (h.flush.acks + 1)..Len(g.acks) : g.acks[i] = n
      <4>1. \A i \in 1..h.flush.acks : i \in 1..Len(h.acks)
        BY <1>1, <2>5, <3>5
      <4>2. \A i \in (h.flush.acks + 1)..Len(h.acks) :
               i \in 1..Len(h.acks) /\ i \in (h.flush.acks + 1)..Len(g.acks)
        BY <1>1, <2>4, <2>5, <3>5
      <4> QED
        BY <2>3, <2>4, <3>5, <4>1, <4>2 DEF AcksWait
    <3> QED
      BY <2>3, <3>3, <3>4, <3>5 DEF AcksWait
  <2>10. Keeps(p, g)
    <3>1. \A z : Kept(h, z) => Kept(g, z)
      BY <2>3 DEF Kept
    <3> QED
      BY <1>1, <2>3, <2>9, <3>1 DEF Keeps
  <2>11. PICK es \in SUBSET Entry : /\ Filed(es, g.book) /\ Resent(g, sent) = NoteSent(g, es)
                                    /\ ResendFrames(g, sent) = Messages(es)
    BY <2>7, ResentFrames
  <2>12. Step(p, NoteSent(g, es)) /\ Transmit(p, {} \cup Messages(es))
    <3>1. ResendFrames(h, sent) = ResendFrames(g, sent) /\ {} \cup Messages(es) = Messages(es)
      BY <2>3 DEF ResendFrames
    <3> QED
      BY <1>5, <2>11, <3>1
  <2> QED
    BY <1>2, <1>4, <2>3, <2>7, <2>8, <2>10, <2>11, <2>12, ResendKeeps
<1>6. CASE ~h.dirty /\ Step(p, Resent(h, sent)) /\ Transmit(p, {Ack(f.no)} \cup ResendFrames(h, sent))
  <2>1. h.acks = <<>>
    BY <1>1, <1>2, <1>6 DEF Sound, PageOK
  <2>2. f.no <= disk[p].remote \/ left[p]
    <3> SUFFICES ASSUME ~left[p]
                 PROVE  f.no <= disk[p].remote
      OBVIOUS
    <3>1. disk[p].remote \in Nat
      BY DEF TransportInv, Typed, SessionSave
    <3>2. AcksWait(h, disk[p]) /\ Len(h.acks) = 0
      BY <1>1, <2>1 DEF Keeps
    <3>3. ~(f.no \in (disk[p].remote + 1)..h.remote)
      BY <3>2 DEF AcksWait
    <3> QED
      BY <1>1, <1>2, <3>1, <3>3
  <2>3. PICK es \in SUBSET Entry : /\ Filed(es, h.book) /\ Resent(h, sent) = NoteSent(h, es)
                                   /\ ResendFrames(h, sent) = Messages(es)
    BY <1>1, ResentFrames
  <2>4. /\ {Ack(f.no)} \in SUBSET Frame
        /\ \A x \in {Ack(f.no)} : x.k = "ack" /\ (x.no <= disk[p].remote \/ left[p])
    BY <1>2, <2>2 DEF Ack, Frame
  <2>5. Step(p, NoteSent(h, es)) /\ Transmit(p, {Ack(f.no)} \cup Messages(es))
    BY <1>6, <2>3
  <2> QED
    BY <1>1, <1>2, <1>4, <2>3, <2>4, <2>5, ResendKeeps
<1> QED
  BY <1>3, <1>5, <1>6

\* deliverMessage on chain or after the end.
LEMMA DeliverIgnoredKeeps ==
    ASSUME TransportInv, NEW p \in Peer, NEW f \in net[p], f.k = "msg", DeliverIgnored(p, f)
    PROVE  TransportInv'
<1> DEFINE h == host[p]
<1>1. Sound(p, h) /\ HandoffOK(h) /\ Keeps(p, h) /\ h.book \in Seq(Message)
  BY HostIsSound DEF Sound, Page
<1>2. Begins(h.book, h.book)
  BY <1>1, BeginsOrder
<1>3. left[p]
  BY <1>1 DEF DeliverIgnored, Keeps
<1>4. /\ {Ack(f.no)} \in SUBSET Frame
      /\ \A x \in {Ack(f.no)} : x.k = "ack" => x.no <= disk[p].remote \/ left[p]
      /\ Filed({x \in {Ack(f.no)} : x.k = "msg"}, h.book)
  BY <1>3, FrameFacts DEF Ack, Frame, Filed
<1>5. /\ Step(p, h) /\ Transmit(p, {Ack(f.no)}) /\ UNCHANGED <<disk, upsets, left, forked>>
  BY DEF DeliverIgnored, Step, TransportInv, Typed
<1> QED
  BY <1>1, <1>2, <1>4, <1>5, SoundStep

\* receiveAck, when it retires numbers that the peer has saved.
LEMMA RetiredSound ==
    ASSUME TransportInv, NEW p \in Peer, NEW h, Sound(p, h), HandoffOK(h), Keeps(p, h),
           NEW n \in Nat, n <= disk[Other(p)].remote \/ left[Other(p)]
    PROVE  LET g == Retired(h, n)
           IN  Sound(p, g) /\ HandoffOK(g) /\ Keeps(p, g) /\ g.book = h.book
<1> DEFINE U == {e \in h.unacked : e.no > n \/ (e.no = h.handoff.no /\ ~h.handoff.sent)}
           g == Retired(h, n)
           r == disk[Other(p)].remote
<1>1. h \in Page /\ h.unacked \in SUBSET Entry /\ h.next \in Nat
  BY DEF Sound, Page
<1>2. r \in Nat
  BY OtherPeer DEF TransportInv, Typed, SessionSave
<1>3. /\ U \in SUBSET Entry /\ U \in SUBSET h.unacked
      /\ ~left[Other(p)] => \A e \in h.unacked : e \in U \/ e.no <= r
  BY <1>1, <1>2 DEF Entry
<1>4. g = [h EXCEPT !.unacked = U]
  BY <1>1 DEF Retired, Page
<1> HIDE DEF U, g, r
<1>5. g \in Page
  BY <1>1, <1>3, <1>4 DEF Page
<1>6. /\ g.book = h.book /\ g.next = h.next /\ g.unacked = U /\ g.sends = h.sends
      /\ g.cradle = h.cradle /\ g.remote = h.remote /\ g.acks = h.acks /\ g.reorder = h.reorder
      /\ g.flush = h.flush /\ g.stopped = h.stopped /\ g.dirty = h.dirty /\ g.onChain = h.onChain
      /\ g.handoff = h.handoff
  BY <1>1, <1>4 DEF Page
<1>7. Filed(U, h.book)
  BY <1>3 DEF Sound, PageOK, Coherent, Filed
<1>8. PageOK(g, disk[p])
  BY <1>6, <1>7 DEF Sound, PageOK, Coherent, Precedes
<1>9. ~left[Other(p)] => \A e \in Range(g.sends) : e \in g.unacked \/ e.no <= disk[Other(p)].remote
  BY <1>3, <1>6 DEF Sound, r
<1>10. Sound(p, g)
  BY <1>5, <1>6, <1>8, <1>9 DEF Sound
<1>11. HandoffOK(g)
  BY <1>6 DEF HandoffOK
<1>12. ~left[Other(p)] /\ Kept(h, disk[Other(p)]) => Kept(g, disk[Other(p)])
  BY <1>1, <1>3, <1>6 DEF Kept, r
<1>13. AcksWait(h, disk[p]) => AcksWait(g, disk[p])
  BY <1>6 DEF AcksWait
<1>14. Keeps(p, g)
  BY <1>6, <1>12, <1>13 DEF Keeps
<1> QED
  BY <1>6, <1>10, <1>11, <1>14 DEF g

\* receiveAck
LEMMA ReceiveAckKeeps ==
    ASSUME TransportInv, NEW p \in Peer, NEW f \in net[p], ReceiveAck(p, f)
    PROVE  TransportInv'
<1> DEFINE h == host[p]
<1>1. /\ h \in Page /\ Sound(p, h) /\ HandoffOK(h) /\ Keeps(p, h) /\ h.book \in Seq(Message)
  BY HostIsSound DEF Sound, Page
<1>2. Begins(h.book, h.book)
  BY <1>1, BeginsOrder
<1>3. UNCHANGED <<disk, net, upsets, forked>> /\ upsets \in Nat
  BY DEF ReceiveAck, TransportInv, Typed
<1>4. CASE Step(p, Stop(h)) /\ left' = [left EXCEPT ![p] = TRUE]
  <2>1. Sound(p, Stop(h)) /\ HandoffOK(Stop(h)) /\ Stop(h).book = h.book
    BY <1>1, EndedSound
  <2> QED
    BY <1>2, <1>3, <1>4, <2>1, LeaveStep
<1>5. CASE Step(p, Retired(h, f.no)) /\ UNCHANGED left
  <2>1. f.no \in Nat /\ (f.no <= disk[Other(p)].remote \/ left[Other(p)])
    BY FrameFacts DEF ReceiveAck
  <2> DEFINE g == Retired(h, f.no)
  <2>2. Sound(p, g) /\ HandoffOK(g) /\ Keeps(p, g) /\ g.book = h.book
    BY <1>1, <2>1, RetiredSound
  <2> HIDE DEF g
  <2>3. Step(p, g)
    BY <1>5 DEF g
  <2> QED
    BY <1>2, <1>3, <1>5, <2>2, <2>3, SilentStep
<1> QED
  BY <1>4, <1>5 DEF ReceiveAck

\* A save holds what the page held.
LEMMA SnapshotFacts ==
    ASSUME NEW h \in Page
    PROVE  /\ Snapshot(h) \in SessionSave
           /\ Snapshot(h).book = h.book /\ Snapshot(h).next = h.next
           /\ Snapshot(h).remote = h.remote /\ Snapshot(h).unacked = h.unacked
           /\ Snapshot(h).cradle = h.cradle
           /\ Coherent(h) => Coherent(Snapshot(h))
           /\ Precedes(Snapshot(h), h)
           /\ \A d : Precedes(d, h) => Precedes(d, Snapshot(h))
           /\ \A d : Kept(h, d) => Kept(Snapshot(h), d)
<1> DEFINE s == Snapshot(h)
<1>1. /\ s \in SessionSave /\ s.book = h.book /\ s.next = h.next /\ s.remote = h.remote
      /\ s.unacked = h.unacked /\ s.cradle = h.cradle
  BY DEF Snapshot, SessionSave, Page
<1>2. Begins(h.book, h.book) /\ Begins(h.cradle.got, h.cradle.got)
  BY BeginsOrder DEF Page, Cradle
<1> HIDE DEF s
<1>3. (Coherent(h) => Coherent(s)) /\ Precedes(s, h) /\ \A d : Precedes(d, h) => Precedes(d, s)
  BY <1>1, <1>2 DEF Coherent, Precedes
<1>4. \A d : Kept(h, d) => Kept(s, d)
  BY <1>1 DEF Kept
<1> QED
  BY <1>1, <1>3, <1>4 DEF s

\* performDurabilityFlushAndSend takes its snapshot.
LEMMA StartFlushKeeps ==
    ASSUME TransportInv, NEW p \in Peer, StartFlush(p)
    PROVE  TransportInv'
<1> DEFINE h == host[p]
           w == [busy |-> TRUE, snap |-> Snapshot(h), outs |-> Len(h.sends), acks |-> Len(h.acks)]
           g == [h EXCEPT !.flush = w]
<1>1. /\ h \in Page /\ Sound(p, h) /\ HandoffOK(h) /\ Keeps(p, h) /\ h.book \in Seq(Message)
      /\ h.sends \in Seq(Entry) /\ h.acks \in Seq(Nat) /\ h.remote \in Nat
  BY HostIsSound DEF Sound, Page
<1>2. Step(p, g) /\ UNCHANGED <<disk, net, upsets, left, forked>>
  BY DEF StartFlush
<1>3. w \in Flushing
  BY <1>1, SnapshotFacts DEF Flushing
<1>4. w.snap = Snapshot(h) /\ w.outs = Len(h.sends) /\ w.acks = Len(h.acks)
  OBVIOUS
<1> HIDE DEF w
<1>5. g \in Page
  BY <1>1, <1>3 DEF Page
<1>6. /\ g.book = h.book /\ g.next = h.next /\ g.unacked = h.unacked /\ g.sends = h.sends
      /\ g.cradle = h.cradle /\ g.remote = h.remote /\ g.acks = h.acks /\ g.reorder = h.reorder
      /\ g.flush = w /\ g.stopped = h.stopped /\ g.dirty = h.dirty /\ g.onChain = h.onChain
      /\ g.handoff = h.handoff
  BY <1>1 DEF Page
<1> HIDE DEF g
<1>7. /\ Len(h.sends) \in Nat /\ Len(h.acks) \in Nat
      /\ Coherent(w.snap) /\ Precedes(disk[p], w.snap) /\ Precedes(w.snap, h) /\ w.snap.remote = h.remote
      /\ \A d : Kept(h, d) => Kept(w.snap, d)
  BY <1>1, <1>4, SnapshotFacts DEF Sound, PageOK
<1>8. PageOK(g, disk[p])
  <2>1. PageOK(h, disk[p])
    BY <1>1 DEF Sound
  <2>2. Coherent(g) /\ Precedes(disk[p], g) /\ Precedes(w.snap, g)
    BY <1>6, <1>7, <2>1 DEF PageOK, Coherent, Precedes
  <2>3. w.outs <= Len(g.sends) /\ w.acks <= Len(g.acks)
    BY <1>4, <1>6, <1>7
  <2> QED
    BY <1>6, <1>7, <2>1, <2>2, <2>3 DEF PageOK
<1>9. Sound(p, g)
  BY <1>1, <1>5, <1>6, <1>8 DEF Sound
<1>10. HandoffOK(g)
  BY <1>1, <1>6 DEF HandoffOK
<1>11. AcksWait(h, disk[p]) => AcksWait(g, disk[p])
  BY <1>1, <1>4, <1>6, <1>7 DEF AcksWait
<1>12. Keeps(p, g)
  <2>1. \A z : Kept(h, z) => Kept(g, z)
    BY <1>6 DEF Kept
  <2> QED
    BY <1>1, <1>6, <1>7, <1>11, <2>1 DEF Keeps
<1>13. Begins(h.book, g.book)
  BY <1>1, <1>6, BeginsOrder
<1> QED
  BY <1>2, <1>9, <1>10, <1>12, <1>13, SilentStep

\* The flush of h is over.
LEMMA IdleFields ==
    ASSUME NEW h \in Page
    PROVE  LET g == [h EXCEPT !.flush = Idle]
           IN  /\ g \in Page
               /\ g.book = h.book /\ g.next = h.next /\ g.unacked = h.unacked /\ g.sends = h.sends
               /\ g.cradle = h.cradle /\ g.remote = h.remote /\ g.acks = h.acks /\ g.reorder = h.reorder
               /\ g.flush = Idle /\ g.stopped = h.stopped /\ g.dirty = h.dirty /\ g.onChain = h.onChain
               /\ g.handoff = h.handoff
BY DEF Page

\* The write fails and everything stays queued.
LEMMA FlushFailsKeeps ==
    ASSUME TransportInv, NEW p \in Peer, FlushFails(p)
    PROVE  TransportInv'
<1> DEFINE h == host[p]
           g == [h EXCEPT !.flush = Idle]
<1>1. /\ h \in Page /\ Sound(p, h) /\ HandoffOK(h) /\ Keeps(p, h) /\ h.book \in Seq(Message)
  BY HostIsSound DEF Sound, Page
<1>2. Step(p, g) /\ UNCHANGED <<disk, net, upsets, left, forked>>
  BY DEF FlushFails
<1>3. /\ g \in Page
      /\ g.book = h.book /\ g.next = h.next /\ g.unacked = h.unacked /\ g.sends = h.sends
      /\ g.cradle = h.cradle /\ g.remote = h.remote /\ g.acks = h.acks /\ g.reorder = h.reorder
      /\ g.flush = Idle /\ g.stopped = h.stopped /\ g.dirty = h.dirty /\ g.onChain = h.onChain
      /\ g.handoff = h.handoff
  BY <1>1, IdleFields
<1> HIDE DEF g
<1>4. PageOK(g, disk[p])
  BY <1>1, <1>3 DEF Sound, PageOK, Coherent, Precedes
<1>5. Sound(p, g)
  BY <1>1, <1>3, <1>4 DEF Sound
<1>6. HandoffOK(g)
  BY <1>1, <1>3 DEF HandoffOK
<1>7. Keeps(p, g)
  <2>1. (AcksWait(h, disk[p]) => AcksWait(g, disk[p])) /\ \A z : Kept(h, z) => Kept(g, z)
    BY <1>3 DEF AcksWait, Kept
  <2> QED
    BY <1>1, <1>3, <2>1 DEF Keeps
<1>8. Begins(h.book, g.book)
  BY <1>1, <1>3, BeginsOrder
<1> QED
  BY <1>2, <1>5, <1>6, <1>7, <1>8, SilentStep

\* A step that writes the save s, after which p's page is g, keeps the
\* invariant if it consumes and numbers nothing.
LEMMA WriteStep ==
    ASSUME TransportInv, NEW p \in Peer, NEW g \in Page, NEW s \in SessionSave,
           NEW out \in SUBSET Frame,
           g.book = host[p].book, g.cradle = host[p].cradle, g.reorder = host[p].reorder,
           PageOK(g, s), HandoffOK(g), disk[p].remote <= s.remote,
           g.stopped \/ g.onChain => left[p],
           ~left[p] => AcksWait(g, s),
           \A f \in out : f.k = "ack" => f.no <= s.remote \/ left[p],
           Filed({f \in out : f.k = "msg"}, g.book),
           ~left[p] /\ ~left[Other(p)] =>
             /\ Kept(g, disk[Other(p)]) /\ Kept(s, disk[Other(p)])
             /\ g.flush # Idle => Kept(g.flush.snap, disk[Other(p)]),
           ~left[Other(p)] => \A e \in Range(g.sends) :
             e \in g.unacked \/ e.no <= disk[Other(p)].remote,
           Step(p, g), disk' = [disk EXCEPT ![p] = s], Transmit(p, out),
           UNCHANGED <<upsets, left, forked>>
    PROVE  TransportInv'
<1> DEFINE q == Other(p)
<1>1. q \in Peer /\ Other(p) \in Peer /\ Other(q) = p
  BY OtherPeer
<1>2. Typed /\ Streams
  BY DEF TransportInv
<1>3. IsFiniteSet(g.reorder) /\ upsets \in Nat /\ left \in [Peer -> BOOLEAN] /\ forked \in [Peer -> BOOLEAN]
  BY <1>2 DEF Typed
<1>4. /\ host' = [host EXCEPT ![p] = g] /\ net' = [net EXCEPT ![q] = @ \cup out]
      /\ upsets' = upsets /\ left' = left /\ forked' = forked
  BY DEF Step, Transmit
<1>5. ~forked[q] => /\ Begins(g.cradle.got, host[q].book)
                    /\ Filed(g.reorder, host[q].book)
  BY <1>1, <1>2, Zenon DEF Streams, OneStream
<1>6. ~forked[p] => OneStream(g.book, host[q], net[q] \cup out)
  BY <1>2 DEF Streams, OneStream, Filed
<1> HIDE DEF q
<1>7. ProperStep(p, q, g, s, out)
  BY <1>3, <1>4, <1>5, <1>6 DEF ProperStep, q
<1>8. q = Other(p)
  BY DEF q
<1> QED
  BY <1>1, <1>7, <1>8, StepKeepsInv

\* persistFullSession
LEMMA SaveKeeps ==
    ASSUME TransportInv, NEW p \in Peer, Save(p)
    PROVE  TransportInv'
<1> DEFINE h == host[p]
           s == Snapshot(h)
<1>1. /\ h \in Page /\ Sound(p, h) /\ HandoffOK(h) /\ Keeps(p, h) /\ h.remote \in Nat
      /\ h.cradle.got \in Seq(Message)
  BY HostIsSound DEF Sound, Page, Cradle
<1>2. /\ h.flush = Idle /\ disk' = [disk EXCEPT ![p] = s] /\ UNCHANGED <<host, net, upsets, left, forked>>
  BY DEF Save
<1>3. Step(p, h) /\ Transmit(p, {})
  BY <1>2, OtherPeer DEF TransportInv, Typed, Step, Transmit
<1>4. /\ s \in SessionSave /\ s.remote = h.remote /\ Precedes(s, h)
      /\ (Coherent(h) => Coherent(s)) /\ \A d : Kept(h, d) => Kept(s, d)
  BY <1>1, SnapshotFacts
<1> HIDE DEF s
<1>5. PageOK(h, disk[p]) /\ disk[p] \in SessionSave
  BY <1>1 DEF Sound, TransportInv, Typed
<1>6. PageOK(h, s)
  BY <1>2, <1>4, <1>5 DEF PageOK
<1>7. disk[p].remote <= s.remote
  BY <1>1, <1>4, <1>5 DEF PageOK, Coherent, Precedes, Begins
<1>8. AcksWait(h, disk[p]) => AcksWait(h, s)
  BY <1>1, <1>2, <1>4 DEF AcksWait
<1>9. /\ h.stopped \/ h.onChain => left[p]
      /\ ~left[p] => AcksWait(h, s)
      /\ ~left[p] /\ ~left[Other(p)] =>
             /\ Kept(h, disk[Other(p)]) /\ Kept(s, disk[Other(p)])
             /\ h.flush # Idle => Kept(h.flush.snap, disk[Other(p)])
      /\ ~left[Other(p)] => \A e \in Range(h.sends) :
             e \in h.unacked \/ e.no <= disk[Other(p)].remote
  BY <1>1, <1>2, <1>4, <1>8 DEF Keeps, Sound
<1>10. /\ {} \in SUBSET Frame /\ Filed({f \in {} : f.k = "msg"}, h.book)
       /\ \A f \in {} : f.k = "ack" => f.no <= s.remote \/ left[p]
  BY DEF Filed
<1> QED
  BY <1>1, <1>2, <1>3, <1>4, <1>6, <1>7, <1>9, <1>10, WriteStep

\* Cutting a sequence at k.
LEMMA CutSeq ==
    ASSUME NEW S, NEW s \in Seq(S), NEW k \in 0..Len(s)
    PROVE  /\ SubSeq(s, 1, k) \in Seq(S) /\ SubSeq(s, k + 1, Len(s)) \in Seq(S)
           /\ Range(SubSeq(s, 1, k)) \in SUBSET Range(s)
           /\ Range(SubSeq(s, k + 1, Len(s))) \in SUBSET Range(s)
           /\ Len(SubSeq(s, 1, k)) = k /\ \A i \in 1..k : SubSeq(s, 1, k)[i] = s[i]
<1>1. Len(s) \in Nat /\ k \in Nat /\ k <= Len(s) /\ DOMAIN s = 1..Len(s)
  OBVIOUS
<1>2. /\ SubSeq(s, 1, k) \in Seq(S) /\ SubSeq(s, k + 1, Len(s)) \in Seq(S)
      /\ Len(SubSeq(s, 1, k)) = k /\ \A i \in 1..k : SubSeq(s, 1, k)[i] = s[i]
  BY <1>1
<1>3. ASSUME NEW x \in Range(SubSeq(s, 1, k))
      PROVE  x \in Range(s)
  <2>1. PICK i \in 1..k : x = SubSeq(s, 1, k)[i]
    BY <1>2 DEF Range
  <2>2. i \in DOMAIN s /\ x = s[i]
    BY <1>1, <1>2, <2>1
  <2> QED
    BY <2>2 DEF Range
<1>4. ASSUME NEW x \in Range(SubSeq(s, k + 1, Len(s)))
      PROVE  x \in Range(s)
  BY <1>1 DEF Range
<1> QED
  BY <1>2, <1>3, <1>4

\* The end of a queue of acknowledgements.
LEMMA CutAcks ==
    ASSUME NEW s \in Seq(Nat), NEW k \in Nat, k <= Len(s)
    PROVE  LET t == SubSeq(s, k + 1, Len(s))
           IN  /\ t \in Seq(Nat) /\ k + Len(t) = Len(s)
               /\ \A i \in 1..Len(t) : t[i] = s[k + i]
<1> DEFINE n == Len(s)
           m == k + 1
           t == SubSeq(s, m, n)
<1>1. n \in Nat /\ m \in Nat /\ m = k + 1 /\ k <= n
  OBVIOUS
<1>2. \A i \in m..n : s[i] \in Nat
  BY <1>1
<1> HIDE DEF m, n
<1>3. /\ t \in Seq(Nat) /\ Len(t) = IF m <= n THEN n - m + 1 ELSE 0
      /\ \A i \in 1..(n - m + 1) : t[i] = s[m + i - 1]
  BY <1>1, <1>2, SubSeqProperties
<1> HIDE DEF t
<1>4. k + Len(t) = n
  BY <1>1, <1>3
<1>5. ASSUME NEW i \in 1..Len(t)
      PROVE  t[i] = s[k + i]
  <2>1. Len(t) \in Nat
    BY <1>3
  <2>2. i \in 1..(n - m + 1) /\ m + i - 1 = k + i
    BY <1>1, <1>4, <2>1
  <2> QED
    BY <1>3, <2>2
<1> QED
  BY <1>3, <1>4, <1>5 DEF t, m, n

\* What a page is after it sent what its flush had saved.
LEMMA SentFields ==
    ASSUME NEW h \in Page, h.flush # Idle, h.flush.outs <= Len(h.sends), h.flush.acks <= Len(h.acks)
    PROVE  LET g == Sent(h)
               es == Range(SubSeq(h.sends, 1, h.flush.outs))
           IN  /\ g \in Page /\ g.flush = Idle
               /\ g.book = h.book /\ g.next = h.next /\ g.unacked = h.unacked
               /\ g.cradle = h.cradle /\ g.remote = h.remote /\ g.reorder = h.reorder
               /\ g.stopped = h.stopped /\ g.onChain = h.onChain
               /\ g.sends # <<>> \/ g.acks # <<>> => g.dirty
               /\ Range(g.sends) \in SUBSET Range(h.sends)
               /\ g.acks = SubSeq(h.acks, h.flush.acks + 1, Len(h.acks))
               /\ HandoffOK(h) /\ Filed(es, h.book) => HandoffOK(g)
<1> DEFINE g == Sent(h)
           es == Range(SubSeq(h.sends, 1, h.flush.outs))
           S == SubSeq(h.sends, h.flush.outs + 1, Len(h.sends))
           A == SubSeq(h.acks, h.flush.acks + 1, Len(h.acks))
           u == [h EXCEPT !.sends = S, !.acks = A, !.flush = Idle]
           v == [u EXCEPT !.dirty = u.sends # <<>> \/ u.acks # <<>>]
<1>1. h.flush \in Flushing /\ h.sends \in Seq(Entry) /\ h.acks \in Seq(Nat)
  BY DEF Page
<1>2. h.flush.outs \in 0..Len(h.sends) /\ h.flush.acks \in 0..Len(h.acks)
  <2>1. h.flush.outs \in Nat /\ h.flush.acks \in Nat
    BY <1>1 DEF Flushing
  <2>2. Len(h.sends) \in Nat /\ Len(h.acks) \in Nat
    BY <1>1
  <2> QED
    BY <2>1, <2>2
<1>3. S \in Seq(Entry) /\ A \in Seq(Nat) /\ Range(S) \in SUBSET Range(h.sends)
  BY <1>1, <1>2, CutSeq
<1>4. u = [h EXCEPT !.sends = SubSeq(@, h.flush.outs + 1, Len(@)),
                    !.acks = SubSeq(@, h.flush.acks + 1, Len(@)), !.flush = Idle]
  BY DEF Page
<1>5. g = NoteSent(v, es)
  BY <1>4 DEF Sent
<1> HIDE DEF S, A, es
<1>6. u \in Page
  BY <1>3 DEF Page
<1>7. /\ u.flush = Idle /\ u.book = h.book /\ u.next = h.next /\ u.unacked = h.unacked
      /\ u.cradle = h.cradle /\ u.remote = h.remote /\ u.reorder = h.reorder
      /\ u.stopped = h.stopped /\ u.onChain = h.onChain /\ u.sends = S /\ u.acks = A
      /\ u.handoff = h.handoff
  BY DEF Page
<1> HIDE DEF u
<1>8. (u.sends # <<>> \/ u.acks # <<>>) \in BOOLEAN
  OBVIOUS
<1>9. v \in Page
  BY <1>6, <1>8 DEF Page
<1>10. /\ v.flush = Idle /\ v.book = h.book /\ v.next = h.next /\ v.unacked = h.unacked
       /\ v.cradle = h.cradle /\ v.remote = h.remote /\ v.reorder = h.reorder
       /\ v.stopped = h.stopped /\ v.onChain = h.onChain /\ v.sends = S /\ v.acks = A
       /\ v.handoff = h.handoff /\ (v.sends # <<>> \/ v.acks # <<>> => v.dirty)
  BY <1>6, <1>7 DEF Page
<1> HIDE DEF v, g
<1>11. /\ Alike(g, v) /\ g.onChain = v.onChain /\ g.cradle = v.cradle
       /\ HandoffOK(v) /\ Filed(es, v.book) => HandoffOK(g)
  BY <1>5, <1>9, NoteSentAlike
<1>12. HandoffOK(h) /\ Filed(es, h.book) => HandoffOK(g)
  BY <1>10, <1>11 DEF HandoffOK
<1>13. /\ g \in Page /\ g.flush = Idle
       /\ g.book = h.book /\ g.next = h.next /\ g.unacked = h.unacked
       /\ g.cradle = h.cradle /\ g.remote = h.remote /\ g.reorder = h.reorder
       /\ g.stopped = h.stopped /\ g.onChain = h.onChain
       /\ (g.sends # <<>> \/ g.acks # <<>> => g.dirty)
       /\ g.sends = S /\ g.acks = A
  BY <1>10, <1>11 DEF Alike
<1> QED
  BY <1>3, <1>12, <1>13 DEF g, es, A

\* performDurabilityFlushAndSend, its write being done.
LEMMA FlushEndsKeeps ==
    ASSUME TransportInv, NEW p \in Peer, FlushEnds(p)
    PROVE  TransportInv'
<1> DEFINE h == host[p]
           s == h.flush.snap
<1>1. /\ h \in Page /\ Sound(p, h) /\ HandoffOK(h) /\ Keeps(p, h) /\ h.remote \in Nat
      /\ PageOK(h, disk[p]) /\ disk[p] \in SessionSave
  BY HostIsSound DEF Sound, Page, TransportInv, Typed
<1>2. h.flush # Idle /\ disk' = [disk EXCEPT ![p] = s] /\ UNCHANGED <<upsets, left, forked>>
  BY DEF FlushEnds
<1>3. h.flush \in Flushing /\ s \in SessionSave /\ s.remote \in Nat
  BY <1>1, <1>2 DEF Page, Flushing, SessionSave
<1>4. /\ Coherent(s) /\ Precedes(disk[p], s) /\ Precedes(s, h)
      /\ ~h.stopped => h.flush.outs <= Len(h.sends) /\ h.flush.acks <= Len(h.acks)
  BY <1>1, <1>2 DEF PageOK
<1>5. disk[p].remote <= s.remote
  BY <1>1, <1>3, <1>4 DEF PageOK, Coherent, Precedes, Begins
<1>6. /\ h.stopped \/ h.onChain => left[p]
      /\ ~left[p] => AcksWait(h, disk[p])
      /\ ~left[p] /\ ~left[Other(p)] => Kept(h, disk[Other(p)]) /\ Kept(s, disk[Other(p)])
      /\ ~left[Other(p)] => \A e \in Range(h.sends) :
             e \in h.unacked \/ e.no <= disk[Other(p)].remote
  BY <1>1, <1>2 DEF Keeps, Sound
<1>7. ASSUME AcksWait(h, disk[p])
      PROVE  /\ \A i \in 1..Len(h.acks) : h.acks[i] <= h.remote
             /\ \A i \in 1..h.flush.acks : h.acks[i] <= s.remote
             /\ \A n \in (s.remote + 1)..h.remote :
                \E i \in (h.flush.acks + 1)..Len(h.acks) : h.acks[i] = n
  BY <1>2, <1>7 DEF AcksWait
<1>8. h.acks \in Seq(Nat) /\ h.sends \in Seq(Entry) /\ Len(h.acks) \in Nat /\ Len(h.sends) \in Nat
      /\ h.flush.acks \in Nat /\ h.flush.outs \in Nat
  <2>1. h.acks \in Seq(Nat) /\ h.sends \in Seq(Entry)
    BY <1>1 DEF Page
  <2>2. h.flush.acks \in Nat /\ h.flush.outs \in Nat
    BY <1>3 DEF Flushing
  <2> QED
    BY <2>1, <2>2
<1> HIDE DEF s
<1>9. CASE Step(p, [h EXCEPT !.flush = Idle]) /\ UNCHANGED net
  <2> DEFINE g == [h EXCEPT !.flush = Idle]
  <2>1. /\ g \in Page
        /\ g.book = h.book /\ g.next = h.next /\ g.unacked = h.unacked /\ g.sends = h.sends
        /\ g.cradle = h.cradle /\ g.remote = h.remote /\ g.acks = h.acks /\ g.reorder = h.reorder
        /\ g.flush = Idle /\ g.stopped = h.stopped /\ g.dirty = h.dirty /\ g.onChain = h.onChain
        /\ g.handoff = h.handoff
    BY <1>1, IdleFields
  <2>2. Step(p, g) /\ Transmit(p, {})
    BY <1>9, OtherPeer DEF TransportInv, Typed, Transmit
  <2> HIDE DEF g
  <2>3. PageOK(g, s)
    <3>1. Coherent(g) /\ Precedes(s, g)
      BY <1>1, <1>4, <2>1 DEF PageOK, Coherent, Precedes
    <3> QED
      BY <1>1, <1>4, <2>1, <3>1 DEF PageOK
  <2>4. HandoffOK(g)
    BY <1>1, <2>1 DEF HandoffOK
  <2>5. AcksWait(h, disk[p]) => AcksWait(g, s)
    <3> SUFFICES ASSUME AcksWait(h, disk[p])
                 PROVE  AcksWait(g, s)
      OBVIOUS
    <3>1. \A i \in (h.flush.acks + 1)..Len(h.acks) : i \in 1..Len(h.acks)
      BY <1>8
    <3> QED
      BY <1>7, <2>1, <3>1 DEF AcksWait
  <2>6. \A d : Kept(h, d) => Kept(g, d)
    BY <2>1 DEF Kept
  <2>7. /\ g.stopped \/ g.onChain => left[p]
        /\ ~left[p] => AcksWait(g, s)
        /\ ~left[p] /\ ~left[Other(p)] =>
             /\ Kept(g, disk[Other(p)]) /\ Kept(s, disk[Other(p)])
             /\ g.flush # Idle => Kept(g.flush.snap, disk[Other(p)])
        /\ ~left[Other(p)] => \A e \in Range(g.sends) :
             e \in g.unacked \/ e.no <= disk[Other(p)].remote
    BY <1>6, <2>1, <2>5, <2>6
  <2>8. /\ {} \in SUBSET Frame /\ Filed({f \in {} : f.k = "msg"}, g.book)
        /\ \A f \in {} : f.k = "ack" => f.no <= s.remote \/ left[p]
    BY DEF Filed
  <2>9. s \in SessionSave /\ disk' = [disk EXCEPT ![p] = s]
    BY <1>2, <1>3 DEF s
  <2> QED
    BY <1>2, <1>5, <2>1, <2>2, <2>3, <2>4, <2>7, <2>8, <2>9, WriteStep
<1>10. CASE /\ ~h.stopped /\ Step(p, Sent(h))
            /\ Transmit(p, Messages(Range(SubSeq(h.sends, 1, h.flush.outs)))
                           \cup Acks(SubSeq(h.acks, 1, h.flush.acks)))
  <2> DEFINE g == Sent(h)
             k == h.flush.acks
             es == Range(SubSeq(h.sends, 1, h.flush.outs))
             as == SubSeq(h.acks, 1, k)
             out == Messages(es) \cup Acks(as)
  <2>1. /\ k \in 0..Len(h.acks) /\ h.flush.outs \in 0..Len(h.sends)
        /\ k \in Nat /\ k <= Len(h.acks) /\ Len(h.acks) - k \in Nat
    BY <1>4, <1>8, <1>10
  <2>2. es \in SUBSET Range(h.sends)
    BY <1>8, <2>1, CutSeq
  <2>3. es \in SUBSET Entry /\ Filed(es, h.book)
    <3>1. Range(h.sends) \in SUBSET Entry
      BY <1>8 DEF Range
    <3>2. Filed(Range(h.sends), h.book)
      BY <1>1 DEF PageOK
    <3> QED
      BY <2>2, <3>1, <3>2 DEF Filed
  <2>4. /\ as \in Seq(Nat) /\ Len(as) = k /\ \A i \in 1..k : as[i] = h.acks[i]
    <3>1. as \in Seq(Nat)
      BY <1>8, <2>1, CutSeq
    <3>2. Len(as) = k
      BY <1>8, <2>1, CutSeq
    <3>3. \A i \in 1..k : as[i] = h.acks[i]
      BY <1>8, <2>1, CutSeq
    <3> QED
      BY <3>1, <3>2, <3>3
  <2>5. Range(as) \in SUBSET Nat /\ \A x \in Range(as) : \E i \in 1..k : x = h.acks[i]
    BY <2>4 DEF Range
  <2> HIDE DEF as, k
  <2>6. /\ g \in Page /\ g.flush = Idle
        /\ g.book = h.book /\ g.next = h.next /\ g.unacked = h.unacked
        /\ g.cradle = h.cradle /\ g.remote = h.remote /\ g.reorder = h.reorder
        /\ g.stopped = h.stopped /\ g.onChain = h.onChain
        /\ (g.sends # <<>> \/ g.acks # <<>> => g.dirty)
        /\ Range(g.sends) \in SUBSET Range(h.sends)
        /\ g.acks = SubSeq(h.acks, k + 1, Len(h.acks))
        /\ HandoffOK(g)
    BY <1>1, <1>2, <1>4, <1>10, <2>3, SentFields DEF k
  <2>7. Step(p, g) /\ Transmit(p, out)
    BY <1>10 DEF as, k
  <2> HIDE DEF g, es
  <2>8. /\ Messages(es) \in SUBSET Frame /\ (\A f \in Messages(es) : f.k = "msg")
        /\ Filed(Messages(es), h.book)
    BY <2>3, MessagesFiled
  <2>9. /\ Acks(as) \in SUBSET Frame
        /\ \A f \in Acks(as) : f.k = "ack" /\ \E i \in 1..k : f.no = h.acks[i]
    <3>1. \A f \in Acks(as) : \E x \in Range(as) : f = [k |-> "ack", no |-> x]
      BY DEF Acks, Ack
    <3>2. ASSUME NEW f \in Acks(as)
          PROVE  f \in Frame /\ f.k = "ack" /\ \E i \in 1..k : f.no = h.acks[i]
      <4>1. PICK x \in Range(as) : f = [k |-> "ack", no |-> x]
        BY <3>1
      <4>2. x \in Nat /\ \E i \in 1..k : x = h.acks[i]
        BY <2>5
      <4>3. f \in Frame /\ f.k = "ack" /\ f.no = x
        BY <4>1, <4>2 DEF Frame
      <4> QED
        BY <4>2, <4>3
    <3> QED
      BY <3>2
  <2>10. /\ out \in SUBSET Frame /\ Filed({f \in out : f.k = "msg"}, g.book)
         /\ \A f \in out : f.k = "ack" => f.no <= s.remote \/ left[p]
    <3>1. out \in SUBSET Frame /\ Filed({f \in out : f.k = "msg"}, g.book)
      BY <2>6, <2>8, <2>9 DEF Filed
    <3>2. \A f \in out : f.k = "ack" => f \in Acks(as)
      BY <2>8
    <3>3. ~left[p] => \A i \in 1..k : h.acks[i] <= s.remote
      BY <1>6, <1>7 DEF k
    <3> QED
      BY <2>9, <3>1, <3>2, <3>3
  <2> HIDE DEF out
  <2>11. PageOK(g, s)
    <3>1. Coherent(g) /\ Precedes(s, g)
      BY <1>1, <1>4, <2>6 DEF PageOK, Coherent, Precedes
    <3>2. Filed(Range(g.sends), g.book)
      BY <1>1, <2>6 DEF PageOK, Filed
    <3> QED
      BY <1>4, <2>6, <3>1, <3>2 DEF PageOK
  <2>12. AcksWait(h, disk[p]) => AcksWait(g, s)
    <3> SUFFICES ASSUME AcksWait(h, disk[p])
                 PROVE  AcksWait(g, s)
      OBVIOUS
    <3>1. /\ g.acks \in Seq(Nat) /\ Len(g.acks) \in Nat /\ k + Len(g.acks) = Len(h.acks)
          /\ \A i \in 1..Len(g.acks) : g.acks[i] = h.acks[k + i]
      BY <1>8, <2>1, <2>6, CutAcks
    <3>2. ASSUME NEW i \in 1..Len(g.acks)
          PROVE  g.acks[i] <= g.remote
      <4>1. k + i \in 1..Len(h.acks)
        BY <1>8, <2>1, <3>1
      <4> QED
        BY <1>7, <2>6, <3>1, <4>1
    <3>3. ASSUME NEW n \in (s.remote + 1)..g.remote
          PROVE  \E i \in 1..Len(g.acks) : g.acks[i] = n
      <4>1. PICK j \in (k + 1)..Len(h.acks) : h.acks[j] = n
        BY <1>7, <2>6 DEF k
      <4>2. j - k \in 1..Len(g.acks) /\ k + (j - k) = j
        BY <1>8, <2>1, <3>1
      <4>3. g.acks[j - k] = h.acks[k + (j - k)]
        BY <3>1, <4>2
      <4> QED
        BY <4>1, <4>2, <4>3
    <3> QED
      BY <2>6, <3>2, <3>3 DEF AcksWait
  <2>13. \A d : Kept(h, d) => Kept(g, d)
    BY <2>6 DEF Kept
  <2>14. /\ g.stopped \/ g.onChain => left[p]
         /\ ~left[p] => AcksWait(g, s)
         /\ ~left[p] /\ ~left[Other(p)] =>
             /\ Kept(g, disk[Other(p)]) /\ Kept(s, disk[Other(p)])
             /\ g.flush # Idle => Kept(g.flush.snap, disk[Other(p)])
         /\ ~left[Other(p)] => \A e \in Range(g.sends) :
             e \in g.unacked \/ e.no <= disk[Other(p)].remote
    BY <1>6, <2>6, <2>12, <2>13
  <2>15. s \in SessionSave /\ disk' = [disk EXCEPT ![p] = s]
    BY <1>2, <1>3 DEF s
  <2> QED
    BY <1>2, <1>5, <2>6, <2>7, <2>10, <2>11, <2>14, <2>15, WriteStep
<1> QED
  BY <1>9, <1>10 DEF FlushEnds

\* restoreSession: the page a save resumes in is sound and keeps what the save
\* kept.
LEMMA RestoredSound ==
    ASSUME TransportInv, NEW p \in Peer
    PROVE  LET g == Restored(disk[p])
           IN  /\ Sound(p, g) /\ HandoffOK(g) /\ Keeps(p, g)
               /\ Begins(disk[p].book, g.book)
<1> DEFINE d == disk[p]
           h == [NewHost EXCEPT !.cradle = d.cradle, !.book = d.book, !.next = d.next,
                                !.remote = d.remote, !.unacked = d.unacked]
           g == Restored(d)
           q == Other(p)
<1>1. q \in Peer /\ Other(q) = p
  BY OtherPeer
<1>2. /\ d \in SessionSave /\ d.cradle \in Cradle /\ d.book \in Seq(Message) /\ d.next \in Nat
      /\ d.remote \in Nat /\ d.unacked \in SUBSET Entry /\ d.cradle.got \in Seq(Message)
  BY DEF TransportInv, Typed, SessionSave, Cradle
<1>3. PageOK(host[p], d) /\ host[p] \in Page /\ host[p].cradle.got \in Seq(Message)
      /\ host[q].book \in Seq(Message)
  BY <1>1 DEF TransportInv, PagesOK, Typed, Page, Cradle
<1>4. h \in Page
  <2>1. NewHost \in Page
    BY DEF NewHost, NewCradle, None, NoHandoff, Page, Cradle, Message
  <2> QED
    BY <1>2, <2>1 DEF Page
<1>5. /\ h.cradle = d.cradle /\ h.book = d.book /\ h.next = d.next /\ h.remote = d.remote
      /\ h.unacked = d.unacked /\ h.events = <<>> /\ h.sends = <<>> /\ h.acks = <<>>
      /\ h.reorder = {} /\ h.dirty = FALSE /\ h.flush = Idle /\ h.handoff = NoHandoff
      /\ h.onChain = FALSE /\ h.stopped = FALSE
  BY DEF NewHost
<1>6. g = IF d.cradle.handoff = None THEN h ELSE QueueHandoff(h, d.cradle.handoff)
  BY DEF Restored
<1> HIDE DEF h, g, d
<1>7. Begins(d.book, d.book) /\ Begins(d.cradle.got, d.cradle.got)
  BY <1>2, BeginsOrder
<1>8. Range(h.sends) = {} /\ IsFiniteSet(h.reorder) /\ Len(h.acks) = 0
  BY <1>5, FS_EmptySet DEF Range
<1>9. PageOK(h, d)
  BY <1>3, <1>5, <1>7, <1>8 DEF PageOK, Coherent, Precedes, Filed
<1>10. ~forked[q] => Begins(d.cradle.got, host[q].book) /\ Filed(h.reorder, host[q].book)
  <2> SUFFICES ASSUME ~forked[q]
               PROVE  Begins(d.cradle.got, host[q].book) /\ Filed(h.reorder, host[q].book)
    OBVIOUS
  <2>1. Begins(host[p].cradle.got, host[q].book)
    BY <1>1 DEF TransportInv, Streams, OneStream
  <2>2. Begins(d.cradle.got, host[p].cradle.got)
    BY <1>3 DEF PageOK, Precedes
  <2>3. Begins(d.cradle.got, host[q].book)
    BY <1>2, <1>3, <2>1, <2>2, BeginsChain
  <2> QED
    BY <1>5, <2>3 DEF Filed
<1>11. Sound(p, h)
  BY <1>4, <1>5, <1>8, <1>9, <1>10 DEF Sound, d
<1>12. AcksWait(h, d)
  BY <1>2, <1>5, <1>8 DEF AcksWait
<1>13. ~left[p] /\ ~left[q] => Kept(h, disk[q])
  <2>1. ~left[p] /\ ~left[q] => Kept(d, disk[q])
    BY DEF TransportInv, NothingDropped, d
  <2> QED
    BY <1>5, <2>1 DEF Kept
<1>14. Keeps(p, h)
  BY <1>5, <1>12, <1>13 DEF Keeps, d
<1>15. CASE d.cradle.handoff = None
  <2>1. g = h
    BY <1>6, <1>15
  <2>2. HandoffOK(h)
    BY <1>5 DEF HandoffOK, NoHandoff
  <2> QED
    BY <1>5, <1>7, <1>11, <1>14, <2>1, <2>2 DEF g, d
<1>16. CASE d.cradle.handoff # None
  <2>1. g = QueueHandoff(h, h.cradle.handoff)
    BY <1>5, <1>6, <1>16
  <2>2. Sound(p, g) /\ HandoffOK(g) /\ Begins(h.book, g.book) /\ Keeps(p, g)
    BY <1>11, <1>14, <2>1, QueueHandoffSound
  <2> QED
    BY <1>5, <2>2 DEF g, d
<1> QED
  BY <1>15, <1>16

\* The peer has seen no number that the save on disk does not hold, so its
\* view of p's stream is one of the save's book.
LEMMA UnseenStream ==
    ASSUME TransportInv, NEW p \in Peer, ~forked[p], ~Seen(Other(p), disk[p].next)
    PROVE  OneStream(disk[p].book, host[Other(p)], net[Other(p)])
<1> DEFINE q == Other(p)
           d == disk[p]
           b == host[p].book
<1>1. q \in Peer
  BY OtherPeer
<1>2. /\ d.book \in Seq(Message) /\ b \in Seq(Message) /\ d.next \in Nat
      /\ host[q] \in Page /\ host[q].cradle.got \in Seq(Message) /\ host[q].reorder \in SUBSET Entry
      /\ net[q] \in SUBSET Frame /\ host[q].remote \in Nat
  BY <1>1 DEF TransportInv, Typed, SessionSave, Page, Cradle
<1>3. d.next = Len(d.book) + 1 /\ Begins(d.book, b) /\ host[q].remote = Len(host[q].cradle.got)
  BY <1>1 DEF TransportInv, PagesOK, PageOK, Coherent, Precedes
<1>4. OneStream(b, host[q], net[q])
  BY DEF TransportInv, Streams
<1>5. /\ Len(d.book) \in Nat /\ Len(b) \in Nat /\ Len(d.book) <= Len(b)
      /\ \A i \in 1..Len(d.book) : d.book[i] = b[i]
  BY <1>2, <1>3 DEF Begins
<1>6. /\ ~(host[q].remote >= d.next)
      /\ \A e \in host[q].reorder : ~(e.no >= d.next)
      /\ \A f \in net[q] : f.k = "msg" => ~(f.no >= d.next)
  BY DEF Seen
<1>7. (\A e \in host[q].reorder : e.no \in Nat) /\ \A f \in net[q] : f.no \in Nat
  BY <1>2 DEF Entry, Frame
<1> HIDE DEF q, d, b
<1>8. Begins(host[q].cradle.got, d.book)
  BY <1>2, <1>3, <1>4, <1>5, <1>6 DEF OneStream, Begins
<1>9. Filed(host[q].reorder, d.book)
  <2> SUFFICES ASSUME NEW e \in host[q].reorder
               PROVE  e.no \in 1..Len(d.book) /\ e.msg = d.book[e.no]
    BY DEF Filed
  <2>1. e.no \in 1..Len(b) /\ e.msg = b[e.no]
    BY <1>4 DEF OneStream, Filed
  <2> QED
    BY <1>3, <1>5, <1>6, <1>7, <2>1
<1>10. Filed({f \in net[q] : f.k = "msg"}, d.book)
  <2> SUFFICES ASSUME NEW f \in net[q], f.k = "msg"
               PROVE  f.no \in 1..Len(d.book) /\ f.msg = d.book[f.no]
    BY DEF Filed
  <2>1. f.no \in 1..Len(b) /\ f.msg = b[f.no]
    BY <1>4 DEF OneStream, Filed
  <2> QED
    BY <1>3, <1>5, <1>6, <1>7, <2>1
<1> QED
  BY <1>8, <1>9, <1>10 DEF OneStream, q, d

\* The page dies and is loaded again.
LEMMA ReloadKeeps ==
    ASSUME TransportInv, NEW p \in Peer, Reload(p)
    PROVE  TransportInv'
<1> DEFINE d == disk[p]
           q == Other(p)
           h == Restored(d)
<1>1. q \in Peer /\ q # p
  BY OtherPeer
<1>2. Sound(p, h) /\ HandoffOK(h) /\ Keeps(p, h) /\ Begins(d.book, h.book)
  BY RestoredSound
<1>3. PICK sent \in BOOLEAN : Step(p, Resent(h, sent)) /\ Transmit(p, ResendFrames(h, sent))
  BY DEF Reload
<1> HIDE DEF h
<1>4. PICK es \in SUBSET Entry : /\ Filed(es, h.book) /\ Resent(h, sent) = NoteSent(h, es)
                                 /\ ResendFrames(h, sent) = Messages(es)
  BY <1>2, ResentFrames
<1> DEFINE g == NoteSent(h, es)
           out == Messages(es)
<1>5. /\ out \in SUBSET Frame /\ (\A f \in out : f.k = "msg") /\ Filed(out, h.book)
  BY <1>4, MessagesFiled
<1>6. h \in Page
  BY <1>2 DEF Sound
<1>7. Alike(g, h) /\ g.onChain = h.onChain /\ HandoffOK(g)
  BY <1>2, <1>4, <1>6, NoteSentAlike
<1> HIDE DEF g
<1>8. Sound(p, g) /\ Keeps(p, g) /\ g.book = h.book
  BY <1>2, <1>7, AlikeIsSound DEF Alike
<1>9. /\ host' = [host EXCEPT ![p] = g] /\ net' = [net EXCEPT ![q] = @ \cup out]
      /\ disk' = disk /\ left' = left /\ upsets' = upsets + 1
      /\ forked' = [forked EXCEPT ![p] = @ \/ Seen(q, d.next)]
  BY <1>3, <1>4 DEF Reload, Step, Transmit, Upset, g
<1> HIDE DEF out
<1>10. /\ disk \in [Peer -> SessionSave] /\ left \in [Peer -> BOOLEAN] /\ forked \in [Peer -> BOOLEAN]
       /\ upsets \in Nat /\ d.book \in Seq(Message) /\ d \in SessionSave /\ d.remote \in Nat
       /\ host[q].cradle.got \in Seq(Message) /\ host[q].reorder \in SUBSET Entry
       /\ net[q] \in SUBSET Frame
  BY <1>1 DEF TransportInv, Typed, SessionSave, Page, Cradle
<1>11. /\ forked' \in [Peer -> BOOLEAN] /\ forked'[q] = forked[q]
       /\ ~forked'[p] => ~forked[p] /\ ~Seen(q, d.next)
  <2> DEFINE b == forked[p] \/ Seen(q, d.next)
  <2>1. b \in BOOLEAN
    BY DEF Seen
  <2>2. forked' = [forked EXCEPT ![p] = b]
    BY <1>9, <1>10
  <2> HIDE DEF b
  <2>3. forked' \in [Peer -> BOOLEAN] /\ forked'[q] = forked[q] /\ forked'[p] = b
    BY <1>1, <1>10, <2>1, <2>2
  <2> QED
    BY <2>3 DEF b
<1>12. ~forked'[p] => OneStream(g.book, host[q], net[q] \cup out)
  <2> SUFFICES ASSUME ~forked'[p]
               PROVE  OneStream(g.book, host[q], net[q] \cup out)
    OBVIOUS
  <2>1. OneStream(d.book, host[q], net[q])
    BY <1>11, UnseenStream
  <2>2. g.book \in Seq(Message) /\ Begins(d.book, g.book) /\ Filed(out, g.book)
    BY <1>2, <1>5, <1>8 DEF Sound, Page
  <2>3. Begins(host[q].cradle.got, g.book)
    BY <1>10, <2>1, <2>2, BeginsChain DEF OneStream
  <2>4. Filed(host[q].reorder, g.book)
    BY <1>10, <2>1, <2>2, FiledLonger DEF OneStream
  <2>5. Filed({f \in net[q] : f.k = "msg"}, g.book)
    <3>1. Len(d.book) \in Nat /\ Len(g.book) \in Nat
      BY <1>10, <2>2
    <3> QED
      BY <2>1, <2>2, <3>1 DEF OneStream, Filed, Begins
  <2>6. Filed({f \in net[q] \cup out : f.k = "msg"}, g.book)
    BY <2>2, <2>5 DEF Filed
  <2> QED
    BY <2>3, <2>4, <2>6 DEF OneStream
<1>13. Kept(d, disk[q]) \/ left[p] \/ left[q]
  BY DEF TransportInv, NothingDropped
<1>14. /\ left' \in [Peer -> BOOLEAN] /\ (left[p] => left'[p]) /\ left'[q] = left[q]
       /\ upsets' \in Nat /\ disk' = [disk EXCEPT ![p] = d] /\ disk[p].remote <= d.remote
       /\ d \in SessionSave /\ g \in Page /\ IsFiniteSet(g.reorder) /\ PageOK(g, d)
  BY <1>8, <1>9, <1>10 DEF Sound
<1>15. /\ g.stopped \/ g.onChain => left'[p]
       /\ ~left'[p] => AcksWait(g, d)
       /\ \A f \in out : f.k = "ack" => f.no <= d.remote \/ left'[p]
       /\ ~left'[p] /\ ~left[q] =>
            /\ Kept(g, disk[q]) /\ Kept(d, disk[q])
            /\ g.flush # Idle => Kept(g.flush.snap, disk[q])
       /\ ~left[q] => \A e \in Range(g.sends) :
            e \in g.unacked \/ e.no <= disk[q].remote
       /\ ~forked[q] => /\ Begins(g.cradle.got, host[q].book)
                        /\ Filed(g.reorder, host[q].book)
  BY <1>5, <1>8, <1>9, <1>13 DEF Keeps, Sound
<1>16. ProperStep(p, q, g, d, out)
  BY <1>5, <1>7, <1>9, <1>11, <1>12, <1>14, <1>15 DEF ProperStep
<1> QED
  BY <1>1, <1>16, StepKeepsInv

-----------------------------------------------------------------------------
(***************************************************************************)
(* The theorems.                                                           *)
(***************************************************************************)

\* The first state satisfies the invariant.
LEMMA InitHolds ==
    ASSUME Init
    PROVE  TransportInv
<1> DEFINE s == Snapshot(NewHost)
<1>1. NewHost \in Page
  BY DEF NewHost, NewCradle, None, NoHandoff, Page, Cradle, Message
<1>2. /\ NewHost.cradle.got = <<>> /\ NewHost.book = <<>> /\ NewHost.next = 1 /\ NewHost.remote = 0
      /\ NewHost.unacked = {} /\ NewHost.sends = <<>> /\ NewHost.acks = <<>> /\ NewHost.reorder = {}
      /\ NewHost.flush = Idle /\ NewHost.stopped = FALSE /\ NewHost.onChain = FALSE
      /\ NewHost.handoff.no = 0 /\ NewHost.handoff.sent = FALSE
  BY DEF NewHost, NewCradle, NoHandoff
<1>3. Range(NewHost.sends) = {} /\ IsFiniteSet(NewHost.reorder) /\ Len(NewHost.acks) = 0
  BY <1>2, FS_EmptySet DEF Range
<1>4. Coherent(NewHost)
  BY <1>2 DEF Coherent, Filed
<1>5. s \in SessionSave /\ s.remote = 0 /\ s.next = 1 /\ Coherent(s) /\ Precedes(s, NewHost)
  BY <1>1, <1>2, <1>4, SnapshotFacts
<1>6. /\ \A p \in Peer : host[p] = NewHost /\ disk[p] = s /\ net[p] = {}
      /\ \A p \in Peer : left[p] = FALSE /\ forked[p] = FALSE
  BY DEF Init
<1> HIDE DEF s
<1>7. Typed
  <2>1. host \in [Peer -> Page] /\ disk \in [Peer -> SessionSave]
    BY <1>1, <1>5 DEF Init, s
  <2>2. net \in [Peer -> SUBSET Frame] /\ upsets \in Nat /\ left \in [Peer -> BOOLEAN] /\ forked \in [Peer -> BOOLEAN]
    BY DEF Init
  <2> QED
    BY <1>3, <1>6, <2>1, <2>2 DEF Typed
<1>8. PageOK(NewHost, s) /\ HandoffOK(NewHost) /\ AcksWait(NewHost, s)
  BY <1>2, <1>3, <1>4, <1>5 DEF PageOK, HandoffOK, AcksWait, Filed
<1>9. PagesOK
  BY <1>2, <1>6, <1>8 DEF PagesOK
<1>10. AckedIsSaved
  BY <1>6, OtherPeer DEF AckedIsSaved
<1>11. Kept(NewHost, s) /\ Kept(s, s)
  BY <1>2, <1>5 DEF Kept
<1>12. NothingDropped
  BY <1>2, <1>3, <1>6, <1>11, OtherPeer DEF NothingDropped
<1>13. OneStream(NewHost.book, NewHost, {})
  BY <1>2 DEF OneStream, Begins, Filed
<1>14. Streams
  BY <1>6, <1>13, OtherPeer DEF Streams
<1> QED
  BY <1>7, <1>9, <1>10, <1>12, <1>14 DEF TransportInv

\* Every step keeps the invariant.
LEMMA NextKeeps ==
    ASSUME TransportInv, [Next]_vars
    PROVE  TransportInv'
<1>1. CASE UNCHANGED vars
  BY <1>1 DEF vars, TransportInv, Typed, PagesOK, AckedIsSaved, NothingDropped, Streams
<1>2. CASE Next
  <2>1. PICK p \in Peer :
          \/ Act(p) \/ Drain(p) \/ GoOnChain(p)
          \/ \E f \in net[p] : DeliverMessage(p, f) \/ ReceiveAck(p, f)
          \/ \E sent \in BOOLEAN : Nudge(p, sent)
          \/ StartFlush(p) \/ FlushEnds(p) \/ FlushFails(p)
          \/ Save(p) \/ Reload(p)
    BY <1>2 DEF Next
  <2>2. CASE Act(p)
    BY <2>2, ActKeeps
  <2>3. CASE Drain(p)
    BY <2>3, DrainKeeps
  <2>4. CASE GoOnChain(p)
    BY <2>4, GoOnChainKeeps
  <2>5. ASSUME NEW f \in net[p], DeliverMessage(p, f)
        PROVE  TransportInv'
    BY <2>5, DeliverNextKeeps, DeliverEarlyKeeps, DeliverDuplicateKeeps, DeliverIgnoredKeeps
       DEF DeliverMessage
  <2>6. ASSUME NEW f \in net[p], ReceiveAck(p, f)
        PROVE  TransportInv'
    BY <2>6, ReceiveAckKeeps
  <2>7. ASSUME NEW sent \in BOOLEAN, Nudge(p, sent)
        PROVE  TransportInv'
    BY <2>7, NudgeKeeps
  <2>8. CASE StartFlush(p)
    BY <2>8, StartFlushKeeps
  <2>9. CASE FlushEnds(p)
    BY <2>9, FlushEndsKeeps
  <2>10. CASE FlushFails(p)
    BY <2>10, FlushFailsKeeps
  <2>11. CASE Save(p)
    BY <2>11, SaveKeeps
  <2>12. CASE Reload(p)
    BY <2>12, ReloadKeeps
  <2> QED
    BY <2>1, <2>2, <2>3, <2>4, <2>5, <2>6, <2>7, <2>8, <2>9, <2>10, <2>11, <2>12
<1> QED
  BY <1>1, <1>2

\* The invariant of the transport holds at all times: for any bound on
\* messages, upsets and duplicates and for any drain budget.
THEOREM TransportInvariance == Spec => []TransportInv
<1>1. Init => TransportInv
  BY InitHolds
<1>2. TransportInv /\ [Next]_vars => TransportInv'
  BY NextKeeps
<1> QED
  BY <1>1, <1>2, PTL DEF Spec

\* A numbered message is safe until it is saved at the other end: it stays in
\* unackedMessages until the peer's save holds its delivery, and an
\* acknowledgement is only ever on the wire for a delivery that is on disk.
THEOREM MessagesAreSafe == Spec => []DeliveryInv
<1>1. TransportInv => DeliveryInv
  <2> SUFFICES ASSUME TransportInv
               PROVE  DeliveryInv
    OBVIOUS
  <2>1. TypeOK
    <3> SUFFICES ASSUME NEW p \in Peer
                 PROVE  /\ host[p].next = Len(host[p].book) + 1
                        /\ host[p].remote = Len(host[p].cradle.got)
                        /\ \A e \in Range(host[p].sends) : e \in host[p].unacked
                                           \/ e.no <= disk[Other(p)].remote
                                           \/ left[Other(p)]
                        /\ host[p].sends # <<>> \/ host[p].acks # <<>>
                             => host[p].dirty \/ host[p].stopped
                        /\ host[p].flush # Idle /\ ~host[p].stopped =>
                             /\ host[p].flush.outs <= Len(host[p].sends)
                             /\ host[p].flush.acks <= Len(host[p].acks)
                        /\ disk[p].next <= host[p].next /\ disk[p].remote <= host[p].remote
      BY DEF TypeOK
    <3>1. PageOK(host[p], disk[p])
      BY DEF TransportInv, PagesOK
    <3>2. \A e \in Range(host[p].sends) : e \in host[p].unacked
                                           \/ e.no <= disk[Other(p)].remote
                                           \/ left[Other(p)]
      BY Zenon DEF TransportInv, NothingDropped
    <3>3. /\ Len(disk[p].book) <= Len(host[p].book) /\ Len(disk[p].book) \in Nat
          /\ Len(host[p].book) \in Nat /\ Len(disk[p].cradle.got) <= Len(host[p].cradle.got)
      <4>1. disk[p].book \in Seq(Message) /\ host[p].book \in Seq(Message)
        BY DEF TransportInv, Typed, SessionSave, Page
      <4> QED
        BY <3>1, <4>1 DEF PageOK, Precedes, Begins
    <3>4. disk[p].next <= host[p].next /\ disk[p].remote <= host[p].remote
      BY <3>1, <3>3 DEF PageOK, Coherent
    <3> QED
      BY <3>1, <3>2, <3>4 DEF PageOK, Coherent
  <2>2. AckedIsSaved
    BY DEF TransportInv
  <2>3. KeptUntilSaved
    BY DEF TransportInv, NothingDropped, Kept, KeptUntilSaved
  <2> QED
    BY <2>1, <2>2, <2>3 DEF DeliveryInv
<1> QED
  BY <1>1, TransportInvariance, PTL

\* What one cradle consumed is a prefix of what the other's host numbered, as
\* long as no reload forgot a number the peer has seen.
THEOREM StreamsAgree == Spec => []SameStream
<1>1. TransportInv => SameStream
  <2> SUFFICES ASSUME TransportInv, NEW p \in Peer, ~forked[p]
               PROVE  IsPrefix(host[Other(p)].cradle.got, host[p].book)
    BY DEF SameStream
  <2>1. host[p].book \in Seq(Message) /\ host[Other(p)].cradle.got \in Seq(Message)
    BY OtherPeer DEF TransportInv, Typed, Page, Cradle
  <2>2. Begins(host[Other(p)].cradle.got, host[p].book)
    BY DEF TransportInv, Streams, OneStream
  <2> QED
    BY <2>1, <2>2, BeginsIsPrefix
<1> QED
  BY <1>1, TransportInvariance, PTL

\* A session that ends because its terminal message was acknowledged leaves a
\* peer whose save holds that message (completeOutboundTerminalHandoffAfterAck).
THEOREM HandoffArrives == Spec => HandoffReachesPeer
<1>1. ASSUME TransportInv, NEW p \in Peer, ~forked[p], host[p].handoff.sent,
             Ack(host[p].handoff.no) \in net[p], ~left[Other(p)]
      PROVE  host[p].cradle.handoff \in Range(disk[Other(p)].cradle.got)
  <2> DEFINE q == Other(p)
             n == host[p].handoff.no
             got == disk[q].cradle.got
  <2>1. q \in Peer /\ Other(q) = p
    BY OtherPeer
  <2>2. /\ n \in 1..Len(host[p].book) /\ host[p].book[n] = host[p].cradle.handoff
    BY <1>1 DEF TransportInv, PagesOK, HandoffOK
  <2>3. /\ got \in Seq(Message) /\ host[q].cradle.got \in Seq(Message) /\ host[p].book \in Seq(Message)
    BY <1>1, <2>1 DEF TransportInv, Typed, SessionSave, Page, Cradle
  <2>4. n <= disk[q].remote
    <3>1. Ack(n).k = "ack" /\ Ack(n).no = n
      BY DEF Ack
    <3> QED
      BY <1>1, <3>1, FrameFacts
  <2>5. disk[q].remote = Len(got) /\ Begins(got, host[q].cradle.got)
    BY <1>1, <2>1 DEF TransportInv, PagesOK, PageOK, Coherent, Precedes
  <2>6. Begins(host[q].cradle.got, host[p].book)
    BY <1>1 DEF TransportInv, Streams, OneStream
  <2>7. Begins(got, host[p].book)
    BY <2>3, <2>5, <2>6, BeginsChain
  <2>8. n \in 1..Len(got)
    BY <2>2, <2>3, <2>4, <2>5
  <2>9. got[n] = host[p].cradle.handoff /\ n \in DOMAIN got
    BY <2>2, <2>3, <2>7, <2>8, SMTT(40) DEF Begins
  <2> QED
    BY <2>9 DEF Range
<1>2. ASSUME TransportInv
      PROVE  \A p \in Peer :
               /\ ~host[p].stopped /\ host'[p].stopped /\ ~forked[p]
               /\ host[p].handoff.sent /\ Ack(host[p].handoff.no) \in net[p]
               => \/ host[p].cradle.handoff \in Range(disk[Other(p)].cradle.got)
                  \/ left[Other(p)]
  BY <1>1, <1>2
<1> QED
  BY <1>2, TransportInvariance, PTL DEF HandoffReachesPeer
-----------------------------------------------------------------------------
(***************************************************************************)
(* The numbers and the order in which the messages were made.              *)
(***************************************************************************)

\* One message is taken out of a sequence.
LEMMA TakenOut ==
    ASSUME NEW S, NEW s \in Seq(S), NEW k \in 1..Len(s)
    PROVE  /\ RemoveAt(s, k) \in Seq(S) /\ Len(RemoveAt(s, k)) = Len(s) - 1
           /\ \A i \in 1..(Len(s) - 1) : RemoveAt(s, k)[i] = IF i < k THEN s[i] ELSE s[i + 1]
<1> DEFINE a == SubSeq(s, 1, k - 1)
           b == SubSeq(s, k + 1, Len(s))
<1>1. Len(s) \in Nat /\ k \in Nat /\ \A i \in 1..Len(s) : s[i] \in S
  OBVIOUS
<1>2. /\ a \in Seq(S) /\ Len(a) = k - 1
      /\ \A i \in 1..(k - 1) : a[i] = s[i]
  <2>1. \A i \in 1..(k - 1) : s[i] \in S
    BY <1>1
  <2> QED
    BY <1>1, <2>1, SubSeqProperties
<1>3. /\ b \in Seq(S) /\ Len(b) = Len(s) - k
      /\ \A i \in 1..(Len(s) - k) : b[i] = s[k + i]
  <2>1. \A i \in (k + 1)..Len(s) : s[i] \in S
    BY <1>1
  <2>2. /\ b \in Seq(S) /\ Len(b) = (IF k + 1 <= Len(s) THEN Len(s) - (k + 1) + 1 ELSE 0)
        /\ \A i \in 1..(Len(s) - (k + 1) + 1) : b[i] = s[k + 1 + i - 1]
    BY <1>1, <2>1, SubSeqProperties
  <2> HIDE DEF b
  <2> QED
    BY <1>1, <2>2
<1>4. RemoveAt(s, k) = a \o b
  BY DEF RemoveAt
<1> HIDE DEF a, b
<1>5. /\ a \o b \in Seq(S) /\ Len(a \o b) = Len(a) + Len(b)
      /\ \A i \in 1..(Len(a) + Len(b)) : (a \o b)[i] = IF i <= Len(a) THEN a[i] ELSE b[i - Len(a)]
  BY <1>2, <1>3, ConcatProperties
<1>6. ASSUME NEW i \in 1..(Len(s) - 1)
      PROVE  (a \o b)[i] = IF i < k THEN s[i] ELSE s[i + 1]
  <2>1. CASE i < k
    BY <1>1, <1>2, <1>3, <1>5, <2>1
  <2>2. CASE ~(i < k)
    <3>1. i - (k - 1) \in 1..(Len(s) - k) /\ k + (i - (k - 1)) = i + 1
      BY <1>1, <2>2
    <3>2. (a \o b)[i] = b[i - (k - 1)]
      BY <1>1, <1>2, <1>3, <1>5, <2>2
    <3>3. b[i - (k - 1)] = s[k + (i - (k - 1))]
      BY <1>3, <3>1
    <3> QED
      BY <2>2, <3>1, <3>2, <3>3
  <2> QED
    BY <2>1, <2>2
<1> QED
  BY <1>1, <1>2, <1>3, <1>4, <1>5, <1>6

\* What is taken out of the first part is taken out of the whole.
LEMMA TakenOutOfFirst ==
    ASSUME NEW S, NEW s \in Seq(S), NEW t \in Seq(S), NEW k \in 1..Len(s)
    PROVE  RemoveAt(s \o t, k) = RemoveAt(s, k) \o t
<1> DEFINE w == s \o t
           u == RemoveAt(w, k)
           v == RemoveAt(s, k)
           x == v \o t
<1>1. /\ Len(s) \in Nat /\ Len(t) \in Nat /\ k \in Nat
      /\ w \in Seq(S) /\ Len(w) = Len(s) + Len(t)
      /\ \A i \in 1..(Len(s) + Len(t)) : w[i] = IF i <= Len(s) THEN s[i] ELSE t[i - Len(s)]
  BY ConcatProperties
<1> HIDE DEF w
<1>2. k \in 1..Len(w)
  BY <1>1
<1>3. /\ u \in Seq(S) /\ Len(u) = Len(w) - 1
      /\ \A i \in 1..(Len(w) - 1) : u[i] = IF i < k THEN w[i] ELSE w[i + 1]
  <2> HIDE DEF u
  <2> QED
    BY <1>1, <1>2, TakenOut, Zenon DEF u
<1>4. /\ v \in Seq(S) /\ Len(v) = Len(s) - 1
      /\ \A i \in 1..(Len(s) - 1) : v[i] = IF i < k THEN s[i] ELSE s[i + 1]
  BY TakenOut, Zenon
<1> HIDE DEF u, v
<1>5. /\ x \in Seq(S) /\ Len(x) = Len(v) + Len(t)
      /\ \A i \in 1..(Len(v) + Len(t)) : x[i] = IF i <= Len(v) THEN v[i] ELSE t[i - Len(v)]
  BY <1>4, ConcatProperties
<1> HIDE DEF x
<1>6. Len(u) = Len(x)
  BY <1>1, <1>3, <1>4, <1>5
<1>7. ASSUME NEW i \in 1..Len(u)
      PROVE  u[i] = x[i]
  <2>1. /\ i \in 1..(Len(w) - 1) /\ i \in 1..(Len(v) + Len(t)) /\ i \in Nat
        /\ i \in 1..(Len(s) + Len(t)) /\ i + 1 \in 1..(Len(s) + Len(t))
    BY <1>1, <1>3, <1>4
  <2>2. CASE i < k
    <3>1. i <= Len(s) /\ i <= Len(v) /\ i \in 1..(Len(s) - 1)
      BY <1>1, <1>4, <2>1, <2>2
    <3>2. u[i] = w[i] /\ w[i] = s[i]
      BY <1>1, <1>3, <2>1, <2>2, <3>1
    <3>3. x[i] = v[i] /\ v[i] = s[i]
      BY <1>4, <1>5, <2>1, <2>2, <3>1
    <3> QED
      BY <3>2, <3>3
  <2>3. CASE ~(i < k) /\ i <= Len(s) - 1
    <3>1. i + 1 <= Len(s) /\ i <= Len(v) /\ i \in 1..(Len(s) - 1)
      BY <1>1, <1>4, <2>1, <2>3
    <3>2. u[i] = w[i + 1] /\ w[i + 1] = s[i + 1]
      BY <1>1, <1>3, <2>1, <2>3, <3>1
    <3>3. x[i] = v[i] /\ v[i] = s[i + 1]
      BY <1>4, <1>5, <2>1, <2>3, <3>1
    <3> QED
      BY <3>2, <3>3
  <2>4. CASE i > Len(s) - 1
    <3>1. ~(i < k) /\ ~(i + 1 <= Len(s)) /\ ~(i <= Len(v)) /\ i + 1 - Len(s) = i - Len(v)
      BY <1>1, <1>4, <2>1, <2>4
    <3>2. u[i] = w[i + 1] /\ w[i + 1] = t[i + 1 - Len(s)]
      BY <1>1, <1>3, <2>1, <3>1
    <3>3. x[i] = t[i - Len(v)]
      BY <1>5, <2>1, <3>1
    <3> QED
      BY <3>1, <3>2, <3>3
  <2> QED
    BY <1>1, <2>1, <2>2, <2>3, <2>4
<1>8. u = x
  BY <1>3, <1>5, <1>6, <1>7, SeqEqual
<1> QED
  BY <1>8 DEF u, v, w, x

\* A message put at the end and taken out again.
LEMMA TakenOutLast ==
    ASSUME NEW S, NEW s \in Seq(S), NEW m \in S
    PROVE  /\ Len(s) + 1 \in DOMAIN (s \o <<m>>) /\ (s \o <<m>>)[Len(s) + 1] = m
           /\ RemoveAt(s \o <<m>>, Len(s) + 1) = s
<1> DEFINE t == s \o <<m>>
           u == RemoveAt(t, Len(s) + 1)
<1>1. /\ Len(s) \in Nat /\ t \in Seq(S) /\ Len(t) = Len(s) + 1
      /\ (\A i \in 1..Len(s) : t[i] = s[i]) /\ t[Len(s) + 1] = m
  OBVIOUS
<1> HIDE DEF t
<1>2. Len(s) + 1 \in 1..Len(t)
  BY <1>1
<1>3. /\ u \in Seq(S) /\ Len(u) = Len(t) - 1
      /\ \A i \in 1..(Len(t) - 1) : u[i] = IF i < Len(s) + 1 THEN t[i] ELSE t[i + 1]
  BY <1>1, <1>2, TakenOut
<1> HIDE DEF u
<1>4. Len(u) = Len(s) /\ \A i \in 1..Len(u) : u[i] = s[i]
  BY <1>1, <1>3
<1>5. u = s
  BY <1>3, <1>4, SeqEqual
<1> QED
  BY <1>1, <1>2, <1>5 DEF t, u

\* Messages put together in either order.
LEMMA MessagesAssociate ==
    \A s, t, u \in Seq(Message) : (s \o t) \o u = s \o (t \o u)
BY ConcatAssociative

\* A cradle makes a message.
LEMMA InTurnMade ==
    ASSUME NEW c \in Cradle, NEW e \in Cradle, NEW book \in Seq(Message),
           NEW events \in Seq(Message), NEW m \in Message,
           c.handoff = None, e.handoff = None, e.made = Append(c.made, m),
           InTurn(c, book, events)
    PROVE  InTurn(e, book, Append(events, m))
<1>1. book \o events = c.made /\ c.made \in Seq(Message)
  BY DEF InTurn, Cradle
<1>2. Append(events, m) = events \o <<m>> /\ Append(c.made, m) = c.made \o <<m>> /\ <<m>> \in Seq(Message)
  BY <1>1, AppendIsConcat
<1>3. (book \o events) \o <<m>> = book \o (events \o <<m>>)
  BY <1>2, ConcatAssociative
<1> QED
  BY <1>1, <1>2, <1>3 DEF InTurn

\* The first events are given numbers.
LEMMA InTurnDrained ==
    ASSUME NEW c \in Cradle, NEW book \in Seq(Message), NEW events \in Seq(Message),
           NEW n \in 0..Len(events), InTurn(c, book, events)
    PROVE  InTurn(c, book \o SubSeq(events, 1, n), SubSeq(events, n + 1, Len(events)))
<1> DEFINE a == SubSeq(events, 1, n)
           b == SubSeq(events, n + 1, Len(events))
<1>1. a \in Seq(Message) /\ b \in Seq(Message)
  BY CutSeq
<1>2. a \o b = events
  <2>1. Len(events) \in Nat /\ SubSeq(events, 1, Len(events)) = events
    BY SubSeqFull
  <2>2. 1 \in 1..(Len(events) + 1) /\ n \in (1 - 1)..Len(events) /\ Len(events) \in n..Len(events)
    BY <2>1
  <2> QED
    BY <2>1, <2>2, ConcatAdjacentSubSeq, Zenon
<1> HIDE DEF a, b
<1>3. CASE c.handoff = None
  <2>1. (book \o a) \o b = book \o (a \o b)
    BY <1>1, MessagesAssociate
  <2> QED
    BY <1>2, <1>3, <2>1 DEF InTurn, a, b
<1>4. CASE c.handoff # None
  <2>1. PICK k \in DOMAIN book : /\ book[k] = c.handoff
                                 /\ RemoveAt(book, k) \o events \o <<c.handoff>> = c.made
    BY <1>4 DEF InTurn
  <2>2. k \in 1..Len(book)
    BY <2>1
  <2> DEFINE r == RemoveAt(book, k)
  <2>3. r \in Seq(Message) /\ RemoveAt(book \o a, k) = r \o a
    BY <1>1, <2>2, TakenOut, TakenOutOfFirst
  <2> HIDE DEF r
  <2>4. (r \o a) \o b = r \o (a \o b)
    BY <1>1, <2>3, MessagesAssociate
  <2>5. k \in DOMAIN (book \o a) /\ (book \o a)[k] = c.handoff
    BY <1>1, <2>1, <2>2
  <2>6. RemoveAt(book \o a, k) \o b \o <<c.handoff>> = c.made
    BY <1>2, <2>1, <2>3, <2>4 DEF r
  <2> QED
    BY <1>4, <2>5, <2>6 DEF InTurn, a, b
<1> QED
  BY <1>3, <1>4

\* The terminal command is made and numbered at once.
LEMMA InTurnHandoff ==
    ASSUME NEW c \in Cradle, NEW e \in Cradle, NEW book \in Seq(Message),
           NEW events \in Seq(Message), NEW m \in Message,
           c.handoff = None, m # None, e.handoff = m, e.made = Append(c.made, m),
           InTurn(c, book, events)
    PROVE  InTurn(e, book \o <<m>>, events)
<1> DEFINE b == book \o <<m>>
           k == Len(book) + 1
<1>1. book \o events = c.made /\ c.made \in Seq(Message)
  BY DEF InTurn, Cradle
<1>2. Append(c.made, m) = c.made \o <<m>>
  BY <1>1, AppendIsConcat
<1>3. k \in DOMAIN b /\ b[k] = m /\ RemoveAt(b, k) = book
  BY TakenOutLast
<1> HIDE DEF b, k
<1>4. RemoveAt(b, k) \o events \o <<m>> = e.made
  BY <1>1, <1>2, <1>3
<1>5. \E i \in DOMAIN b : b[i] = e.handoff /\ RemoveAt(b, i) \o events \o <<e.handoff>> = e.made
  BY <1>3, <1>4
<1> QED
  BY <1>5 DEF InTurn, b

\* A message not made yet is not in the book.
LEMMA FreshIsNew ==
    ASSUME NEW c \in Cradle, NEW book \in Seq(Message), NEW events \in Seq(Message),
           MadeInOrder(c), c.handoff = None, InTurn(c, book, events),
           NEW i \in 1..Len(book)
    PROVE  book[i].seq # Len(c.made) + 1
<1>1. book \o events = c.made /\ c.made \in Seq(Message)
  BY DEF InTurn, Cradle
<1>2. /\ Len(book) \in Nat /\ Len(events) \in Nat /\ Len(c.made) = Len(book) + Len(events)
      /\ c.made[i] = book[i]
  <2>1. Len(book) \in Nat /\ Len(events) \in Nat
    OBVIOUS
  <2>2. /\ Len(book \o events) = Len(book) + Len(events)
        /\ \A j \in 1..(Len(book) + Len(events)) : (book \o events)[j] =
              IF j <= Len(book) THEN book[j] ELSE events[j - Len(book)]
    BY ConcatProperties, Zenon
  <2>3. (book \o events)[i] = book[i]
    BY <2>1, <2>2
  <2> QED
    BY <1>1, <2>1, <2>2, <2>3
<1>3. i \in DOMAIN c.made /\ i \in Nat
  BY <1>1, <1>2
<1>4. book[i].seq = i
  BY <1>2, <1>3 DEF MadeInOrder
<1> QED
  BY <1>2, <1>3, <1>4

\* The message made next has the next place.
LEMMA MadeNext ==
    ASSUME TransportInv, NEW h \in Page, NEW e \in Cradle, MadeInOrder(h.cradle),
           e.made = Append(h.cradle.made, Fresh(h))
    PROVE  MadeInOrder(e) /\ Fresh(h).seq = Len(h.cradle.made) + 1 /\ Fresh(h) # None
<1> DEFINE m == Fresh(h)
           s == h.cradle.made
<1>1. s \in Seq(Message) /\ Len(s) \in Nat /\ m \in Message
  BY FreshIsMessage DEF Page, Cradle
<1>2. m.seq = Len(s) + 1
  BY DEF Fresh
<1>3. m # None
  BY <1>1, <1>2 DEF None
<1> HIDE DEF m, s
<1>4. /\ DOMAIN e.made = 1..(Len(s) + 1) /\ \A i \in 1..Len(s) : e.made[i] = s[i]
      /\ e.made[Len(s) + 1] = m /\ DOMAIN s = 1..Len(s)
  BY <1>1 DEF m, s
<1>5. MadeInOrder(e)
  BY <1>1, <1>2, <1>4 DEF MadeInOrder, s
<1> QED
  BY <1>2, <1>3, <1>5 DEF m, s

-----------------------------------------------------------------------------
(***************************************************************************)
(* Steps, again: what a step does to the numbering of the peer's page.     *)
(***************************************************************************)

\* The page g has made and numbered what h has; a flush may have ended.
Unmoved(g, h) ==
    /\ g.cradle.made = h.cradle.made /\ g.cradle.handoff = h.cradle.handoff
    /\ g.book = h.book /\ g.events = h.events /\ g.flush \in {h.flush, Idle}
    /\ HandoffKept(h) => HandoffKept(g)

\* What holds of the page's numbering then still does.
LEMMA UnmovedNumbered ==
    ASSUME NEW g, NEW h, NEW d, NEW whole, Numbering(h, d, whole), Unmoved(g, h)
    PROVE  Numbering(g, d, whole)
<1>1. MadeInOrder(g.cradle)
  BY DEF Numbering, PageNumbered, Unmoved, MadeInOrder
<1>2. whole => InTurn(g.cradle, g.book, g.events)
  BY DEF Numbering, PageNumbered, Unmoved, InTurn
<1>3. g.flush # Idle => SaveNumbered(g.flush.snap, whole)
  BY Zenon DEF Numbering, Unmoved
<1> QED
  BY <1>1, <1>2, <1>3, Zenon DEF Numbering, PageNumbered, Unmoved

\* A step that makes p's page h and its save s.
LEMMA NumberStep ==
    ASSUME FullTransportInv, NEW p \in Peer, NEW h, NEW s,
           host' = [host EXCEPT ![p] = h], disk' = [disk EXCEPT ![p] = s],
           torn' \in [Peer -> BOOLEAN],
           \A q \in Peer : q # p => left'[q] = left[q] /\ torn'[q] = torn[q],
           ~left'[p] => Numbering(h, s, ~torn'[p])
    PROVE  NumberingInv'
<1>1. host \in [Peer -> Page] /\ disk \in [Peer -> SessionSave]
  BY DEF FullTransportInv, TransportInv, Typed
<1>2. host'[p] = h /\ disk'[p] = s
  BY <1>1
<1>3. ASSUME NEW q \in Peer, ~left'[q]
      PROVE  Numbering(host'[q], disk'[q], ~torn'[q])
  <2>1. CASE q = p
    BY <1>2, <1>3, <2>1, Zenon
  <2>2. CASE q # p
    <3>1. host'[q] = host[q] /\ disk'[q] = disk[q]
      BY <1>1, <2>2
    <3>2. left'[q] = left[q] /\ torn'[q] = torn[q]
      BY <2>2, Zenon
    <3>3. Numbering(host[q], disk[q], ~torn[q])
      BY <1>3, <3>2, Zenon DEF FullTransportInv, NumberingInv
    <3> QED
      BY <3>1, <3>2, <3>3, Zenon
  <2> QED
    BY <2>1, <2>2
<1> QED
  BY <1>3, Zenon DEF NumberingInv

\* One that only moves the page.
LEMMA PageNumberStep ==
    ASSUME FullTransportInv, NEW p \in Peer, NEW h, Step(p, h), UNCHANGED <<disk, left, torn>>,
           ~left[p] => Numbering(h, disk[p], ~torn[p])
    PROVE  NumberingInv'
<1>1. disk \in [Peer -> SessionSave] /\ torn \in [Peer -> BOOLEAN]
  BY DEF FullTransportInv, TransportInv, Typed, NumberingInv
<1>2. /\ host' = [host EXCEPT ![p] = h] /\ disk' = [disk EXCEPT ![p] = disk[p]]
      /\ torn' = torn /\ left' = left
  BY <1>1 DEF Step
<1> QED
  BY <1>1, <1>2, NumberStep

\* One after which the page has made and numbered what it had before.
LEMMA UnmovedStep ==
    ASSUME FullTransportInv, NEW p \in Peer, NEW h, Step(p, h), UNCHANGED <<disk, left, torn>>,
           Unmoved(h, host[p])
    PROVE  NumberingInv'
<1>1. ~left[p] => Numbering(host[p], disk[p], ~torn[p])
  BY DEF FullTransportInv, NumberingInv
<1>2. ~left[p] => Numbering(h, disk[p], ~torn[p])
  BY <1>1, UnmovedNumbered, Zenon
<1> QED
  BY <1>2, PageNumberStep

\* One by which p leaves.
LEMMA LeaveNumberStep ==
    ASSUME FullTransportInv, NEW p \in Peer, NEW h, Step(p, h),
           left' = [left EXCEPT ![p] = TRUE], UNCHANGED <<disk, torn>>
    PROVE  NumberingInv'
<1>1. /\ disk \in [Peer -> SessionSave] /\ torn \in [Peer -> BOOLEAN]
      /\ left \in [Peer -> BOOLEAN]
  BY DEF FullTransportInv, TransportInv, Typed, NumberingInv
<1>2. /\ host' = [host EXCEPT ![p] = h] /\ disk' = [disk EXCEPT ![p] = disk[p]]
      /\ torn' = torn
  BY <1>1 DEF Step
<1>3. left'[p] /\ \A q \in Peer : q # p => left'[q] = left[q]
  BY <1>1
<1> QED
  BY <1>1, <1>2, <1>3, NumberStep

-----------------------------------------------------------------------------
(***************************************************************************)
(* What the steps of SessionController do to the numbering of a page.      *)
(***************************************************************************)

\* The fields of a page whose messages ms were numbered.
LEMMA EnqueueFields ==
    ASSUME NEW h \in Page, NEW ms \in Seq(Message), h.next = Len(h.book) + 1
    PROVE  LET g == Enqueue(h, ms)
           IN  /\ g \in Page /\ g.book = h.book \o ms /\ g.cradle = h.cradle
               /\ g.events = h.events /\ g.flush = h.flush /\ g.handoff = h.handoff
               /\ h.unacked \subseteq g.unacked /\ Range(Numbered(h, ms)) \subseteq g.unacked
<1>1. h.book \in Seq(Message) /\ h.sends \in Seq(Entry) /\ h.unacked \in SUBSET Entry /\ h.next \in Nat
  BY DEF Page
<1> DEFINE N == Numbered(h, ms)
           g == Enqueue(h, ms)
<1>2. N \in Seq(Entry) /\ Range(N) \in SUBSET Entry /\ Len(N) = Len(ms)
  BY NumberedEntries
<1>3. CASE ms = <<>>
  <2>1. g = h
    BY <1>3 DEF Enqueue
  <2>2. Range(N) = {}
    <3>1. Len(N) = 0
      BY <1>2, <1>3
    <3>2. N = <<>>
      BY <1>2, <3>1
    <3> QED
      BY <3>2 DEF Range
  <2>3. h.book \o ms = h.book
    BY <1>1, <1>3
  <2> QED
    BY <2>1, <2>2, <2>3
<1>4. CASE ms # <<>>
  <2> DEFINE u == [h EXCEPT !.next = @ + Len(ms), !.book = @ \o ms,
                            !.unacked = @ \cup Range(N), !.sends = @ \o N]
  <2>1. g = MarkNeedsDurability(u)
    BY <1>4 DEF Enqueue
  <2> HIDE DEF N, g
  <2>2. /\ h.book \o ms \in Seq(Message) /\ h.sends \o N \in Seq(Entry) /\ h.next + Len(ms) \in Nat
        /\ h.unacked \cup Range(N) \in SUBSET Entry
    BY <1>1, <1>2
  <2>3. u \in Page
    BY <2>2 DEF Page
  <2>4. /\ u.book = h.book \o ms /\ u.cradle = h.cradle /\ u.events = h.events /\ u.flush = h.flush
        /\ u.handoff = h.handoff /\ u.unacked = h.unacked \cup Range(N)
    BY DEF Page
  <2> HIDE DEF u
  <2>5. /\ Alike(g, u) /\ g.events = u.events /\ g.handoff = u.handoff /\ g.cradle = u.cradle
    BY <2>1, <2>3, MarkAlike
  <2>6. g.book = u.book /\ g.flush = u.flush /\ g.unacked = u.unacked /\ g \in Page
    BY <2>5 DEF Alike
  <2> QED
    BY <2>4, <2>5, <2>6 DEF N, g
<1> QED
  BY <1>3, <1>4

\* A local action, or an answer, makes a message and queues an event for it.
LEMMA MadeNumbered ==
    ASSUME TransportInv, NEW h \in Page, NEW s, NEW whole \in BOOLEAN,
           Numbering(h, s, whole), h.cradle.handoff = None
    PROVE  LET m == Fresh(h)
               g == [h EXCEPT !.cradle.made = Append(@, m), !.events = Append(@, m)]
           IN  Numbering(g, s, whole)
<1> DEFINE m == Fresh(h)
           c == [h.cradle EXCEPT !.made = Append(@, m)]
           g == [h EXCEPT !.cradle.made = Append(@, m), !.events = Append(@, m)]
<1>1. /\ m \in Message /\ h.cradle \in Cradle /\ h.book \in Seq(Message) /\ h.events \in Seq(Message)
      /\ Append(h.cradle.made, m) \in Seq(Message)
  <2>1. m \in Message
    BY FreshIsMessage
  <2> HIDE DEF m
  <2> QED
    BY <2>1 DEF Page, Cradle
<1>2. MadeInOrder(h.cradle) /\ (whole => InTurn(h.cradle, h.book, h.events))
  BY DEF Numbering, PageNumbered
<1>3. c \in Cradle /\ c.handoff = None /\ c.made = Append(h.cradle.made, m)
  <2> HIDE DEF m
  <2> QED
    BY <1>1 DEF Cradle
<1>4. g = [h EXCEPT !.cradle = c, !.events = Append(@, m)]
  BY <1>1 DEF Page, Cradle
<1>5. MadeInOrder(c)
  <2> HIDE DEF c
  <2> QED
    BY <1>2, <1>3, MadeNext
<1> HIDE DEF m, c, g
<1>6. g.cradle = c /\ g.events = Append(h.events, m) /\ g.book = h.book /\ g.flush = h.flush
  BY <1>4 DEF Page
<1>7. whole => InTurn(g.cradle, g.book, g.events)
  BY <1>1, <1>2, <1>3, <1>6, InTurnMade
<1>8. HandoffKept(g)
  BY <1>3, <1>6 DEF HandoffKept
<1>9. SaveNumbered(s, whole) /\ (g.flush # Idle => SaveNumbered(g.flush.snap, whole))
  BY <1>6, Zenon DEF Numbering
<1> QED
  BY <1>5, <1>6, <1>7, <1>8, <1>9 DEF Numbering, PageNumbered, g, m

\* The terminal command is made and gets its number.
LEMMA HandoffNumbered ==
    ASSUME TransportInv, NEW h \in Page, NEW s, NEW whole \in BOOLEAN,
           Coherent(h), Numbering(h, s, whole), h.cradle.handoff = None
    PROVE  LET m == Fresh(h)
               t == [h EXCEPT !.cradle.made = Append(@, m), !.cradle.handoff = m]
           IN  Numbering(QueueHandoff(t, m), s, whole)
<1> DEFINE m == Fresh(h)
           c == [h.cradle EXCEPT !.made = Append(@, m), !.handoff = m]
           t == [h EXCEPT !.cradle.made = Append(@, m), !.cradle.handoff = m]
           g == QueueHandoff(t, m)
<1>1. /\ m \in Message /\ h.cradle \in Cradle /\ h.book \in Seq(Message) /\ h.events \in Seq(Message)
      /\ Append(h.cradle.made, m) \in Seq(Message) /\ <<m>> \in Seq(Message)
      /\ h.unacked \in SUBSET Entry
  <2>1. m \in Message
    BY FreshIsMessage
  <2> HIDE DEF m
  <2> QED
    BY <2>1 DEF Page, Cradle
<1>2. MadeInOrder(h.cradle) /\ (whole => InTurn(h.cradle, h.book, h.events))
  BY DEF Numbering, PageNumbered
<1>3. c \in Cradle /\ c.handoff = m /\ c.made = Append(h.cradle.made, m)
  <2> HIDE DEF m
  <2> QED
    BY <1>1 DEF Cradle
<1>4. t = [h EXCEPT !.cradle = c]
  BY <1>1 DEF Page, Cradle
<1>5. MadeInOrder(c) /\ m.seq = Len(h.cradle.made) + 1 /\ m # None
  <2> HIDE DEF c
  <2> QED
    BY <1>2, <1>3, MadeNext
<1> HIDE DEF m, c, t
<1>6. t \in Page
  BY <1>3, <1>4 DEF Page
<1>7. /\ t.cradle = c /\ t.events = h.events /\ t.book = h.book /\ t.flush = h.flush
      /\ t.unacked = h.unacked /\ t.next = h.next
  BY <1>4 DEF Page
<1>8. t.next = Len(t.book) + 1 /\ Filed(t.unacked, t.book)
  BY <1>7 DEF Coherent
<1>9. CASE \E e \in t.unacked : e.msg = m
  <2> DEFINE e == CHOOSE e \in t.unacked : e.msg = m
  <2>1. e \in t.unacked /\ e.msg = m
    BY <1>9, Zenon
  <2>2. g = [t EXCEPT !.handoff = [no |-> e.no, sent |-> FALSE]]
    BY <1>9 DEF QueueHandoff
  <2> HIDE DEF e, g
  <2>3. /\ g.cradle = c /\ g.flush = h.flush /\ g.unacked = h.unacked
        /\ g.handoff = [no |-> e.no, sent |-> FALSE]
    BY <1>6, <1>7, <2>2 DEF Page
  <2>4. e \in Entry /\ e.no \in 1..Len(h.book) /\ e.msg = h.book[e.no]
    BY <1>1, <1>7, <1>8, <2>1 DEF Filed
  <2>5. HandoffKept(g)
    <3>1. e = [no |-> e.no, msg |-> m]
      BY <2>1, <2>4 DEF Entry
    <3> QED
      BY <1>3, <1>7, <2>1, <2>3, <3>1 DEF HandoffKept
  <2>6. ~whole
    <3> SUFFICES ASSUME whole
                 PROVE  FALSE
      OBVIOUS
    <3>1. h.book[e.no].seq # Len(h.cradle.made) + 1
      BY <1>1, <1>2, <2>4, FreshIsNew
    <3> QED
      BY <1>5, <2>1, <2>4, <3>1
  <2>7. SaveNumbered(s, whole) /\ (g.flush # Idle => SaveNumbered(g.flush.snap, whole))
    BY <2>3, Zenon DEF Numbering
  <2> QED
    BY <1>5, <2>3, <2>5, <2>6, <2>7 DEF Numbering, PageNumbered, g, m, t
<1>10. CASE ~ \E e \in t.unacked : e.msg = m
  <2> DEFINE e == Enqueue(t, <<m>>)
             N == Numbered(t, <<m>>)
  <2>1. g = [e EXCEPT !.handoff = [no |-> t.next, sent |-> FALSE]]
    BY <1>10 DEF QueueHandoff
  <2>2. /\ e \in Page /\ e.book = t.book \o <<m>> /\ e.cradle = t.cradle
        /\ e.events = t.events /\ e.flush = t.flush /\ Range(N) \subseteq e.unacked
    BY <1>1, <1>6, <1>8, EnqueueFields
  <2>3. N[1] = [no |-> t.next, msg |-> m] /\ 1 \in DOMAIN N
    <3>1. t.next \in Nat
      BY <1>6 DEF Page
    <3> QED
      BY <3>1 DEF Numbered
  <2>4. [no |-> t.next, msg |-> m] \in Range(N)
    BY <2>3 DEF Range
  <2> HIDE DEF e, N, g
  <2>5. /\ g.cradle = c /\ g.flush = h.flush /\ g.unacked = e.unacked /\ g.events = h.events
        /\ g.book = h.book \o <<m>> /\ g.handoff = [no |-> t.next, sent |-> FALSE]
    BY <1>7, <2>1, <2>2 DEF Page
  <2>6. HandoffKept(g)
    BY <1>3, <2>2, <2>4, <2>5 DEF HandoffKept
  <2>7. whole => InTurn(g.cradle, g.book, g.events)
    <3>1. whole => InTurn(c, h.book \o <<m>>, h.events)
      BY <1>1, <1>2, <1>3, <1>5, InTurnHandoff
    <3> QED
      BY <2>5, <3>1
  <2>8. SaveNumbered(s, whole) /\ (g.flush # Idle => SaveNumbered(g.flush.snap, whole))
    BY <2>5, Zenon DEF Numbering
  <2> QED
    BY <1>5, <2>5, <2>6, <2>7, <2>8 DEF Numbering, PageNumbered, g, m, t
<1> QED
  BY <1>9, <1>10

\* A page that made and numbered nothing since, and kept what it has to send.
LEMMA FieldsUnmoved ==
    ASSUME NEW g, NEW h, g.cradle.made = h.cradle.made, g.cradle.handoff = h.cradle.handoff,
           g.book = h.book, g.events = h.events, g.flush \in {h.flush, Idle},
           g.unacked = h.unacked, g.handoff.no = h.handoff.no
    PROVE  Unmoved(g, h)
BY DEF Unmoved, HandoffKept

\* What is delivered, dropped, sent or given up leaves the numbering alone.
LEMMA DeliveredUnmoved ==
    ASSUME NEW h \in Page, NEW ms
    PROVE  Unmoved(Delivered(h, ms), h)
<1> DEFINE u == [h EXCEPT !.cradle.got = @ \o ms, !.remote = @ + Len(ms),
                          !.acks = @ \o [i \in DOMAIN ms |-> h.remote + i],
                          !.reorder = {e \in @ : e.no > h.remote + Len(ms)}]
           g == Delivered(h, ms)
<1>1. CASE ms = <<>>
  BY <1>1, FieldsUnmoved DEF Delivered
<1>2. CASE ms # <<>>
  <2>1. g = [u EXCEPT !.dirty = @ \/ ~u.stopped]
    BY <1>2 DEF Delivered, MarkNeedsDurability
  <2>2. /\ u.cradle.made = h.cradle.made /\ u.cradle.handoff = h.cradle.handoff
        /\ u.book = h.book /\ u.events = h.events /\ u.flush = h.flush
        /\ u.unacked = h.unacked /\ u.handoff = h.handoff /\ DOMAIN u = DOMAIN h
    BY DEF Page, Cradle
  <2>3. DOMAIN h = {"cradle", "events", "book", "next", "remote", "unacked", "sends", "acks",
                    "reorder", "dirty", "flush", "handoff", "onChain", "stopped"}
    BY DEF Page
  <2> HIDE DEF u, g
  <2>4. /\ g.cradle = u.cradle /\ g.book = u.book /\ g.events = u.events /\ g.flush = u.flush
        /\ g.unacked = u.unacked /\ g.handoff = u.handoff
    BY <2>1, <2>2, <2>3
  <2>5. Unmoved(g, h)
    BY <2>2, <2>4, FieldsUnmoved
  <2> QED
    BY <2>5 DEF g
<1> QED
  BY <1>1, <1>2

\* Noting a sent frame moves no number.
LEMMA NoteSentUnmoved ==
    ASSUME NEW h \in Page, NEW es
    PROVE  Unmoved(NoteSent(h, es), h)
<1> DEFINE g == NoteSent(h, es)
           t == [h.handoff EXCEPT !.sent = @ \/ \E e \in es : e.no = h.handoff.no]
<1>1. g = [h EXCEPT !.handoff = t] /\ t.no = h.handoff.no
  BY DEF NoteSent, Page
<1> HIDE DEF t, g
<1>2. /\ g.cradle = h.cradle /\ g.book = h.book /\ g.events = h.events /\ g.flush = h.flush
      /\ g.unacked = h.unacked /\ g.handoff = t
  BY <1>1 DEF Page
<1>3. Unmoved(g, h)
  BY <1>1, <1>2, FieldsUnmoved
<1> QED
  BY <1>3 DEF g

\* A step that throws moves no number.
LEMMA ThrownUnmoved ==
    ASSUME NEW h \in Page
    PROVE  Unmoved(Thrown(h), h)
<1> DEFINE g == Thrown(h)
<1>1. /\ g.cradle = h.cradle /\ g.book = h.book /\ g.events = h.events /\ g.flush = h.flush
      /\ g.unacked = h.unacked /\ g.handoff = h.handoff
  BY DEF Thrown, Page
<1> HIDE DEF g
<1>2. Unmoved(g, h)
  BY <1>1, FieldsUnmoved
<1> QED
  BY <1>2 DEF g

\* An acknowledged message is retired; nothing is renumbered.
LEMMA RetiredUnmoved ==
    ASSUME NEW h \in Page, NEW n \in Nat, ~(h.handoff.sent /\ n >= h.handoff.no)
    PROVE  Unmoved(Retired(h, n), h)
<1> DEFINE g == Retired(h, n)
<1>1. /\ g.cradle = h.cradle /\ g.book = h.book /\ g.events = h.events /\ g.flush = h.flush
      /\ g.unacked = {e \in h.unacked : e.no > n \/ (e.no = h.handoff.no /\ ~h.handoff.sent)}
      /\ g.handoff = h.handoff /\ h.handoff.no \in Nat
  BY DEF Retired, Page
<1> HIDE DEF g
<1>2. HandoffKept(h) => HandoffKept(g)
  <2> SUFFICES ASSUME h.cradle.handoff # None,
                      [no |-> h.handoff.no, msg |-> h.cradle.handoff] \in h.unacked
               PROVE  [no |-> h.handoff.no, msg |-> h.cradle.handoff] \in g.unacked
    BY <1>1 DEF HandoffKept
  <2>1. h.handoff.no > n \/ ~h.handoff.sent
    BY <1>1
  <2> QED
    BY <1>1, <2>1
<1>3. Unmoved(g, h)
  BY <1>1, <1>2 DEF Unmoved
<1> QED
  BY <1>3 DEF g

\* A flush that sends what was pending moves no number.
LEMMA SentUnmoved ==
    ASSUME NEW h \in Page
    PROVE  Unmoved(Sent(h), h) /\ Sent(h).flush = Idle
<1> DEFINE u == [h EXCEPT !.sends = SubSeq(@, h.flush.outs + 1, Len(@)),
                          !.acks = SubSeq(@, h.flush.acks + 1, Len(@)), !.flush = Idle]
           v == [u EXCEPT !.dirty = u.sends # <<>> \/ u.acks # <<>>]
           es == Range(SubSeq(h.sends, 1, h.flush.outs))
           b == v.handoff.sent \/ \E e \in es : e.no = v.handoff.no
           t == [v.handoff EXCEPT !.sent = b]
           g == Sent(h)
<1>1. DOMAIN h = {"cradle", "events", "book", "next", "remote", "unacked", "sends", "acks",
                  "reorder", "dirty", "flush", "handoff", "onChain", "stopped"}
  BY DEF Page
<1>2. /\ u.cradle = h.cradle /\ u.book = h.book /\ u.events = h.events /\ u.flush = Idle
      /\ u.unacked = h.unacked /\ u.handoff = h.handoff /\ DOMAIN u = DOMAIN h
  BY <1>1
<1> HIDE DEF u
<1>3. /\ v.cradle = h.cradle /\ v.book = h.book /\ v.events = h.events /\ v.flush = Idle
      /\ v.unacked = h.unacked /\ v.handoff = h.handoff /\ DOMAIN v = DOMAIN h
  BY <1>1, <1>2
<1>4. g = [v EXCEPT !.handoff.sent = @ \/ \E e \in es : e.no = v.handoff.no]
  BY DEF Sent, NoteSent, u
<1> HIDE DEF v, g, es
<1>5. g = [v EXCEPT !.handoff = t]
  BY <1>1, <1>3, <1>4
<1>6. t.no = v.handoff.no
  BY <1>3 DEF Page
<1> HIDE DEF b, t
<1>7. /\ g.cradle = v.cradle /\ g.book = v.book /\ g.events = v.events /\ g.flush = v.flush
      /\ g.unacked = v.unacked /\ g.handoff = t
  BY <1>1, <1>3, <1>5
<1>8. Unmoved(g, h) /\ g.flush = Idle
  BY <1>3, <1>6, <1>7, FieldsUnmoved
<1> QED
  BY <1>8 DEF g

-----------------------------------------------------------------------------
(***************************************************************************)
(* Every action keeps the numbering.                                       *)
(***************************************************************************)

\* What is known of a page.
LEMMA PageFacts ==
    ASSUME FullTransportInv, NEW p \in Peer
    PROVE  /\ TransportInv /\ host[p] \in Page /\ disk[p] \in SessionSave
           /\ Coherent(host[p]) /\ Coherent(disk[p]) /\ torn[p] \in BOOLEAN
           /\ host[p].stopped \/ host[p].onChain => left[p]
           /\ ~left[p] => Numbering(host[p], disk[p], ~torn[p])
<1>1. TransportInv /\ NumberingInv
  BY DEF FullTransportInv
<1>2. host[p] \in Page /\ disk[p] \in SessionSave /\ torn[p] \in BOOLEAN
  BY <1>1 DEF TransportInv, Typed, NumberingInv
<1>3. /\ PageOK(host[p], disk[p])
      /\ host[p].stopped \/ host[p].onChain => left[p]
  BY <1>1 DEF TransportInv, PagesOK
<1> QED
  BY <1>1, <1>2, <1>3 DEF NumberingInv, PageOK

\* A local action: the message made is the last event.
LEMMA ActNumbers ==
    ASSUME FullTransportInv, NEW p \in Peer, Act(p)
    PROVE  NumberingInv'
<1> DEFINE h == host[p]
           g == [h EXCEPT !.cradle.made = Append(@, Fresh(h)), !.events = Append(@, Fresh(h))]
<1>1. TransportInv /\ h \in Page /\ (~left[p] => Numbering(h, disk[p], ~torn[p]))
  BY PageFacts
<1>2. Step(p, g) /\ UNCHANGED <<disk, left, torn>> /\ h.cradle.handoff = None
  BY DEF Act, CanMake
<1>3. ~left[p] => Numbering(g, disk[p], ~torn[p])
  BY <1>1, <1>2, MadeNumbered
<1> HIDE DEF g
<1> QED
  BY <1>2, <1>3, PageNumberStep

\* The drain moves events to the book, up to its budget.
LEMMA DrainNumbers ==
    ASSUME FullTransportInv, NEW p \in Peer, Drain(p)
    PROVE  NumberingInv'
<1> DEFINE h == host[p]
           n == IF Len(h.events) < DrainBudget THEN Len(h.events) ELSE DrainBudget
           ms == SubSeq(h.events, 1, n)
           rest == SubSeq(h.events, n + 1, Len(h.events))
           e == Enqueue(h, ms)
           g == Drained(h, n)
<1>1. /\ TransportInv /\ h \in Page /\ h.events \in Seq(Message) /\ h.book \in Seq(Message)
      /\ h.cradle \in Cradle /\ h.next = Len(h.book) + 1 /\ (h.onChain => left[p])
      /\ (~left[p] => Numbering(h, disk[p], ~torn[p]))
  BY PageFacts DEF Page, Coherent
<1>2. Step(p, g) /\ UNCHANGED <<disk, left, torn>>
  BY DEF Drain
<1>3. n \in 0..Len(h.events)
  BY <1>1, BoundsAssumption
<1> HIDE DEF n
<1>4. ms \in Seq(Message) /\ rest \in Seq(Message)
  BY <1>1, <1>3, CutSeq
<1>5. ASSUME ~left[p]
      PROVE  Numbering(g, disk[p], ~torn[p])
  <2>1. g = [e EXCEPT !.events = SubSeq(@, n + 1, Len(@))]
    BY <1>1, <1>5 DEF Drained
  <2>2. /\ e \in Page /\ e.book = h.book \o ms /\ e.cradle = h.cradle /\ e.events = h.events
        /\ e.flush = h.flush /\ e.handoff = h.handoff /\ h.unacked \subseteq e.unacked
    BY <1>1, <1>4, EnqueueFields
  <2> HIDE DEF e, g
  <2>3. g = [e EXCEPT !.events = rest]
    BY <2>1, <2>2 DEF Page
  <2>4. /\ g.cradle = h.cradle /\ g.book = h.book \o ms /\ g.events = rest /\ g.flush = h.flush
        /\ g.handoff = h.handoff /\ g.unacked = e.unacked
    BY <2>2, <2>3 DEF Page
  <2> HIDE DEF h
  <2>5. Numbering(h, disk[p], ~torn[p])
    BY <1>1, <1>5
  <2>6. ~torn[p] => InTurn(g.cradle, g.book, g.events)
    <3> SUFFICES ASSUME ~torn[p]
                 PROVE  InTurn(h.cradle, h.book \o ms, rest)
      BY <2>4
    <3>1. InTurn(h.cradle, h.book, h.events)
      BY <2>5 DEF Numbering, PageNumbered
    <3> QED
      BY <1>1, <1>3, <3>1, InTurnDrained
  <2>7. HandoffKept(g) /\ MadeInOrder(g.cradle)
    BY <2>2, <2>4, <2>5 DEF Numbering, PageNumbered, HandoffKept
  <2>8. SaveNumbered(disk[p], ~torn[p]) /\ (g.flush # Idle => SaveNumbered(g.flush.snap, ~torn[p]))
    BY <2>4, <2>5, Zenon DEF Numbering
  <2> QED
    BY <2>6, <2>7, <2>8 DEF Numbering, PageNumbered
<1> HIDE DEF g
<1> QED
  BY <1>2, <1>5, PageNumberStep

\* A message is consumed and may be answered.
LEMMA AnsweredNumbers ==
    ASSUME FullTransportInv, NEW p \in Peer, NEW d \in Page, Answered(p, d), Coherent(d),
           Unmoved(d, host[p]), UNCHANGED <<disk, left, torn>>
    PROVE  NumberingInv'
<1> DEFINE m == Fresh(d)
           g == [d EXCEPT !.cradle.made = Append(@, m), !.events = Append(@, m)]
           t == [d EXCEPT !.cradle.made = Append(@, m), !.cradle.handoff = m]
           u == QueueHandoff(t, m)
<1>1. TransportInv /\ (~left[p] => Numbering(host[p], disk[p], ~torn[p]))
  BY PageFacts
<1>2. ~left[p] => Numbering(d, disk[p], ~torn[p])
  BY <1>1, UnmovedNumbered, Zenon
<1>3. \/ Step(p, d)
      \/ d.cradle.handoff = None /\ (Step(p, g) \/ Step(p, u))
  BY DEF Answered, CanMake
<1>4. CASE Step(p, d)
  BY <1>2, <1>4, PageNumberStep
<1>5. CASE d.cradle.handoff = None /\ Step(p, g)
  <2>1. ~left[p] => Numbering(g, disk[p], ~torn[p])
    BY <1>1, <1>2, <1>5, MadeNumbered
  <2> HIDE DEF g
  <2> QED
    BY <1>5, <2>1, PageNumberStep
<1>6. CASE d.cradle.handoff = None /\ Step(p, u)
  <2>1. ~left[p] => Numbering(u, disk[p], ~torn[p])
    BY <1>1, <1>2, <1>6, HandoffNumbered
  <2> HIDE DEF u
  <2> QED
    BY <1>6, <2>1, PageNumberStep
<1> QED
  BY <1>3, <1>4, <1>5, <1>6

\* The next message comes, with those that waited for it.
LEMMA DeliverNextNumbers ==
    ASSUME FullTransportInv, NEW p \in Peer, NEW f \in net[p], f.k = "msg", DeliverNext(p, f)
    PROVE  NumberingInv'
<1> DEFINE h == host[p]
           ms == InOrder(h, f.msg)
           D(n) == Delivered(h, SubSeq(ms, 1, n))
<1>1. TransportInv /\ h \in Page /\ Sound(p, h)
  BY PageFacts, HostIsSound
<1>2. /\ ms \in Seq(Message) /\ Follows(p, h, ms) /\ Len(ms) \in Nat
      /\ \A n \in 0..Len(ms) : SubSeq(ms, 1, n) \in Seq(Message) /\ Follows(p, h, SubSeq(ms, 1, n))
  BY <1>1, InOrderIsNext DEF DeliverNext
<1>3. UNCHANGED <<disk, torn>>
  BY DEF DeliverNext
<1>4. \/ Answered(p, Delivered(h, ms)) /\ UNCHANGED left
      \/ \E g : Leave(p, g)
      \/ \E n \in 0..(Len(ms) - 1) : Step(p, Thrown(D(n))) /\ UNCHANGED left
  BY DEF DeliverNext
<1> HIDE DEF ms
<1>5. CASE Answered(p, Delivered(h, ms)) /\ UNCHANGED left
  <2>1. Sound(p, Delivered(h, ms)) /\ Unmoved(Delivered(h, ms), h)
    BY <1>1, <1>2, DeliveredSound, DeliveredUnmoved
  <2>2. Delivered(h, ms) \in Page /\ Coherent(Delivered(h, ms))
    BY <2>1 DEF Sound, PageOK
  <2> QED
    BY <1>3, <1>5, <2>1, <2>2, AnsweredNumbers
<1>6. ASSUME NEW g, Leave(p, g)
      PROVE  NumberingInv'
  BY <1>3, <1>6, LeaveNumberStep DEF Leave
<1>7. ASSUME NEW n \in 0..(Len(ms) - 1), Step(p, Thrown(D(n))), UNCHANGED left
      PROVE  NumberingInv'
  <2> DEFINE d == D(n)
             g == Thrown(d)
  <2>1. n \in 0..Len(ms)
    BY <1>2
  <2>2. Sound(p, d) /\ Unmoved(d, h)
    BY <1>1, <1>2, <2>1, DeliveredSound, DeliveredUnmoved
  <2>3. Step(p, g)
    BY <1>7
  <2> HIDE DEF d, D
  <2>4. Unmoved(g, d)
    BY <2>2, ThrownUnmoved DEF Sound
  <2> HIDE DEF g
  <2>5. Unmoved(g, h)
    BY <2>2, <2>4 DEF Unmoved
  <2> QED
    BY <1>3, <1>7, <2>3, <2>5, UnmovedStep
<1> HIDE DEF D
<1> QED
  BY <1>4, <1>5, <1>6, <1>7

\* A message that comes early waits in the reorder queue.
LEMMA DeliverEarlyNumbers ==
    ASSUME FullTransportInv, NEW p \in Peer, NEW f, DeliverEarly(p, f)
    PROVE  NumberingInv'
<1> DEFINE h == host[p]
           g == [h EXCEPT !.reorder = {e \in @ : e.no # f.no} \cup {[no |-> f.no, msg |-> f.msg]}]
<1>1. Step(p, g) /\ UNCHANGED <<disk, left, torn>> /\ h \in Page
  BY PageFacts DEF DeliverEarly
<1>2. /\ g.cradle = h.cradle /\ g.book = h.book /\ g.events = h.events /\ g.flush = h.flush
      /\ g.unacked = h.unacked /\ g.handoff = h.handoff
  BY <1>1 DEF Page
<1> HIDE DEF g
<1>3. Unmoved(g, h)
  BY <1>2, FieldsUnmoved
<1> QED
  BY <1>1, <1>3, UnmovedStep

\* A retransmission, with or without a queued acknowledgement.
LEMMA ResentUnmoved ==
    ASSUME NEW h \in Page, NEW sent \in BOOLEAN
    PROVE  Unmoved(Resent(h, sent), h)
BY NoteSentUnmoved DEF Resent

\* A keepalive comes, or the socket opens again: no number moves.
LEMMA NudgeNumbers ==
    ASSUME FullTransportInv, NEW p \in Peer, NEW sent \in BOOLEAN, Nudge(p, sent)
    PROVE  NumberingInv'
<1>1. /\ host[p] \in Page /\ Step(p, Resent(host[p], sent)) /\ UNCHANGED <<disk, left, torn>>
  BY PageFacts DEF Nudge
<1> QED
  BY <1>1, ResentUnmoved, UnmovedStep

\* A repeated message is acknowledged again.
LEMMA DeliverDuplicateNumbers ==
    ASSUME FullTransportInv, NEW p \in Peer, NEW f \in net[p], DeliverDuplicate(p, f)
    PROVE  NumberingInv'
<1> DEFINE h == host[p]
           d == [h EXCEPT !.acks = Append(@, f.no)]
<1>1. h \in Page /\ UNCHANGED <<disk, left, torn>> /\ f.no \in Nat
  BY PageFacts, FrameFacts DEF DeliverDuplicate
<1>2. PICK sent \in BOOLEAN : Step(p, Resent(d, sent)) \/ Step(p, Resent(h, sent))
  BY DEF DeliverDuplicate
<1>3. d \in Page
  <2>1. Append(h.acks, f.no) \in Seq(Nat)
    BY <1>1 DEF Page
  <2> QED
    BY <1>1, <2>1 DEF Page
<1>4. /\ d.cradle = h.cradle /\ d.book = h.book /\ d.events = h.events /\ d.flush = h.flush
      /\ d.unacked = h.unacked /\ d.handoff = h.handoff
  BY <1>1 DEF Page
<1> HIDE DEF d
<1>5. Unmoved(d, h) /\ Unmoved(Resent(d, sent), d) /\ Unmoved(Resent(h, sent), h)
  BY <1>1, <1>3, <1>4, FieldsUnmoved, ResentUnmoved
<1>6. Unmoved(Resent(d, sent), h)
  BY <1>5 DEF Unmoved
<1> QED
  BY <1>1, <1>2, <1>5, <1>6, UnmovedStep

\* An acknowledgement comes.
LEMMA ReceiveAckNumbers ==
    ASSUME FullTransportInv, NEW p \in Peer, NEW f \in net[p], ReceiveAck(p, f)
    PROVE  NumberingInv'
<1>1. host[p] \in Page /\ f.no \in Nat /\ UNCHANGED <<disk, torn>>
  BY PageFacts, FrameFacts DEF ReceiveAck
<1>2. CASE Step(p, Stop(host[p])) /\ left' = [left EXCEPT ![p] = TRUE]
  BY <1>1, <1>2, LeaveNumberStep
<1>3. CASE /\ ~(host[p].handoff.sent /\ f.no >= host[p].handoff.no)
           /\ Step(p, Retired(host[p], f.no)) /\ UNCHANGED left
  BY <1>1, <1>3, RetiredUnmoved, UnmovedStep
<1> QED
  BY <1>2, <1>3 DEF ReceiveAck

\* The terminal command is numbered at once.
LEMMA GoOnChainNumbers ==
    ASSUME FullTransportInv, NEW p \in Peer, GoOnChain(p)
    PROVE  NumberingInv'
<1>1. PICK h : Leave(p, h)
  BY DEF GoOnChain
<1>2. UNCHANGED <<disk, torn>>
  BY DEF GoOnChain
<1> QED
  BY <1>1, <1>2, LeaveNumberStep DEF Leave

\* A save is numbered as the page it is taken of.
LEMMA SnapshotNumbered ==
    ASSUME NEW h \in Page, NEW whole \in BOOLEAN, PageNumbered(h, whole)
    PROVE  SaveNumbered(Snapshot(h), whole)
<1> DEFINE s == Snapshot(h)
<1>1. s.cradle = h.cradle /\ s.book = h.book /\ s.unacked = h.unacked /\ s.undrained = h.events
  BY DEF Snapshot
<1> HIDE DEF s
<1>2. HandoffSaved(s)
  <2> SUFFICES ASSUME h.cradle.handoff # None
               PROVE  \E e \in h.unacked : e.msg = h.cradle.handoff
    BY <1>1 DEF HandoffSaved
  <2>1. [no |-> h.handoff.no, msg |-> h.cradle.handoff] \in h.unacked
    BY DEF PageNumbered, HandoffKept
  <2>2. [no |-> h.handoff.no, msg |-> h.cradle.handoff].msg = h.cradle.handoff
    OBVIOUS
  <2> QED
    BY <2>1, <2>2, Zenon
<1>3. SaveNumbered(s, whole)
  BY <1>1, <1>2 DEF SaveNumbered, PageNumbered
<1> QED
  BY <1>3 DEF s

\* A flush takes its snapshot of the page.
LEMMA StartFlushNumbers ==
    ASSUME FullTransportInv, NEW p \in Peer, StartFlush(p)
    PROVE  NumberingInv'
<1> DEFINE h == host[p]
           w == [busy |-> TRUE, snap |-> Snapshot(h), outs |-> Len(h.sends), acks |-> Len(h.acks)]
           g == [h EXCEPT !.flush = w]
<1>1. Step(p, g) /\ UNCHANGED <<disk, left, torn>>
  BY DEF StartFlush
<1>2. h \in Page /\ torn[p] \in BOOLEAN /\ (~left[p] => Numbering(h, disk[p], ~torn[p]))
  BY PageFacts
<1>3. w.snap = Snapshot(h)
  OBVIOUS
<1> HIDE DEF w
<1>4. /\ g.cradle = h.cradle /\ g.book = h.book /\ g.events = h.events /\ g.flush = w
      /\ g.unacked = h.unacked /\ g.handoff = h.handoff
  BY <1>2 DEF Page
<1> HIDE DEF g
<1>5. ASSUME ~left[p]
      PROVE  Numbering(g, disk[p], ~torn[p])
  <2>1. PageNumbered(h, ~torn[p]) /\ SaveNumbered(disk[p], ~torn[p])
    BY <1>2, <1>5, Zenon DEF Numbering
  <2>2. SaveNumbered(g.flush.snap, ~torn[p])
    BY <1>2, <1>3, <1>4, <2>1, SnapshotNumbered
  <2>3. PageNumbered(g, ~torn[p])
    BY <1>4, <2>1 DEF PageNumbered, HandoffKept
  <2> QED
    BY <2>1, <2>2, <2>3, Zenon DEF Numbering
<1> QED
  BY <1>1, <1>5, PageNumberStep

\* A flush that has ended leaves the page as it is.
LEMMA IdleUnmoved ==
    ASSUME NEW h \in Page
    PROVE  LET g == [h EXCEPT !.flush = Idle]
           IN  Unmoved(g, h) /\ g.flush = Idle
<1> DEFINE g == [h EXCEPT !.flush = Idle]
<1>1. /\ g.cradle = h.cradle /\ g.book = h.book /\ g.events = h.events /\ g.flush = Idle
      /\ g.unacked = h.unacked /\ g.handoff = h.handoff
  BY DEF Page
<1> HIDE DEF g
<1>2. Unmoved(g, h) /\ g.flush = Idle
  BY <1>1, FieldsUnmoved
<1> QED
  BY <1>2 DEF g

\* The write fails.
LEMMA FlushFailsNumbers ==
    ASSUME FullTransportInv, NEW p \in Peer, FlushFails(p)
    PROVE  NumberingInv'
<1> DEFINE g == [host[p] EXCEPT !.flush = Idle]
<1>1. Step(p, g) /\ UNCHANGED <<disk, left, torn>> /\ host[p] \in Page
  BY PageFacts DEF FlushFails
<1>2. Unmoved(g, host[p])
  BY <1>1, IdleUnmoved
<1> HIDE DEF g
<1> QED
  BY <1>1, <1>2, UnmovedStep

\* A page that is not writing, and a save of it that was just written.
LEMMA WrittenNumbers ==
    ASSUME FullTransportInv, NEW p \in Peer, NEW g, NEW s, Step(p, g),
           disk' = [disk EXCEPT ![p] = s], UNCHANGED <<left, torn>>,
           Unmoved(g, host[p]), g.flush = Idle, ~left[p] => SaveNumbered(s, ~torn[p])
    PROVE  NumberingInv'
<1>1. ~left[p] => Numbering(host[p], disk[p], ~torn[p])
  BY PageFacts
<1>2. ~left[p] => Numbering(g, disk[p], ~torn[p])
  BY <1>1, UnmovedNumbered, Zenon
<1>3. ~left[p] => Numbering(g, s, ~torn[p])
  BY <1>2, Zenon DEF Numbering
<1>4. torn \in [Peer -> BOOLEAN]
  BY DEF FullTransportInv, NumberingInv
<1>5. host' = [host EXCEPT ![p] = g] /\ left' = left /\ torn' = torn
  BY DEF Step
<1> QED
  BY <1>3, <1>4, <1>5, NumberStep

\* The write ends: the snapshot is the save on disk.
LEMMA FlushEndsNumbers ==
    ASSUME FullTransportInv, NEW p \in Peer, FlushEnds(p)
    PROVE  NumberingInv'
<1> DEFINE h == host[p]
           s == h.flush.snap
<1>1. /\ h.flush # Idle /\ disk' = [disk EXCEPT ![p] = s] /\ UNCHANGED <<left, torn>>
      /\ Step(p, Sent(h)) \/ Step(p, [h EXCEPT !.flush = Idle])
  BY DEF FlushEnds
<1>2. h \in Page /\ (~left[p] => Numbering(h, disk[p], ~torn[p]))
  BY PageFacts
<1>3. ~left[p] => SaveNumbered(s, ~torn[p])
  BY <1>1, <1>2, Zenon DEF Numbering
<1>4. Unmoved(Sent(h), h) /\ Sent(h).flush = Idle
  BY <1>2, SentUnmoved
<1>5. CASE Step(p, Sent(h))
  BY <1>1, <1>3, <1>4, <1>5, WrittenNumbers
<1>6. CASE Step(p, [h EXCEPT !.flush = Idle])
  <2> DEFINE g == [h EXCEPT !.flush = Idle]
  <2>1. Unmoved(g, h) /\ g.flush = Idle /\ Step(p, g)
    BY <1>2, <1>6, IdleUnmoved
  <2> HIDE DEF g
  <2> QED
    BY <1>1, <1>3, <2>1, WrittenNumbers
<1> QED
  BY <1>1, <1>5, <1>6

\* A save of the page as it is.
LEMMA SaveNumbers ==
    ASSUME FullTransportInv, NEW p \in Peer, Save(p)
    PROVE  NumberingInv'
<1> DEFINE h == host[p]
<1>1. /\ h.flush = Idle /\ disk' = [disk EXCEPT ![p] = Snapshot(h)] /\ UNCHANGED <<host, left, torn>>
  BY DEF Save
<1>2. h \in Page /\ torn[p] \in BOOLEAN /\ (~left[p] => Numbering(h, disk[p], ~torn[p]))
  BY PageFacts
<1>3. Step(p, h)
  BY <1>1 DEF Step, FullTransportInv, TransportInv, Typed
<1>4. Unmoved(h, h)
  BY FieldsUnmoved
<1>5. ~left[p] => SaveNumbered(Snapshot(h), ~torn[p])
  BY <1>2, SnapshotNumbered DEF Numbering
<1> QED
  BY <1>1, <1>3, <1>4, <1>5, WrittenNumbers

\* What is resumed from a save taken while no event was queued is numbered as
\* the save was.
LEMMA RestoredNumbered ==
    ASSUME NEW s \in SessionSave, NEW whole \in BOOLEAN, Coherent(s), SaveNumbered(s, whole),
           whole => s.undrained = <<>>
    PROVE  /\ PageNumbered(Restored(s), whole) /\ Restored(s).flush = Idle
           /\ Restored(s) \in Page
<1> DEFINE m == s.cradle.handoff
           h == [NewHost EXCEPT !.cradle = s.cradle, !.book = s.book, !.next = s.next,
                                !.remote = s.remote, !.unacked = s.unacked]
           g == Restored(s)
<1>1. s.cradle \in Cradle /\ s.book \in Seq(Message) /\ s.next \in Nat /\ s.remote \in Nat
      /\ s.unacked \in SUBSET Entry
  BY DEF SessionSave
<1>2. NewHost \in Page
  BY DEF NewHost, NewCradle, None, NoHandoff, Page, Cradle, Message
<1>3. h \in Page
  BY <1>1, <1>2 DEF Page
<1>4. /\ h.cradle = s.cradle /\ h.book = s.book /\ h.unacked = s.unacked
      /\ h.events = <<>> /\ h.flush = Idle
  BY <1>1 DEF NewHost
<1>5. g = IF m = None THEN h ELSE QueueHandoff(h, m)
  BY DEF Restored
<1> HIDE DEF h, g
<1>6. MadeInOrder(h.cradle) /\ (whole => InTurn(h.cradle, h.book, h.events))
  BY <1>4 DEF SaveNumbered
<1>7. CASE m = None
  <2>1. g = h /\ HandoffKept(h)
    BY <1>4, <1>5, <1>7 DEF HandoffKept
  <2> QED
    BY <1>3, <1>4, <1>6, <2>1 DEF PageNumbered, g
<1>8. CASE m # None
  <2> DEFINE e == CHOOSE e \in h.unacked : e.msg = m
  <2>1. \E x \in h.unacked : x.msg = m
    BY <1>4, <1>8 DEF SaveNumbered, HandoffSaved
  <2>2. e \in h.unacked /\ e.msg = m
    BY <2>1, Zenon
  <2>3. g = [h EXCEPT !.handoff = [no |-> e.no, sent |-> FALSE]]
    BY <1>5, <1>8, <2>1 DEF QueueHandoff
  <2> HIDE DEF e
  <2>4. e \in Entry
    BY <1>1, <1>4, <2>2
  <2>5. e.no \in Nat /\ e = [no |-> e.no, msg |-> m]
    BY <2>2, <2>4 DEF Entry
  <2>6. [no |-> e.no, sent |-> FALSE] \in [no : Nat, sent : BOOLEAN]
    BY <2>5
  <2>7. g \in Page
    BY <1>3, <2>3, <2>6 DEF Page
  <2>8. /\ g.cradle = h.cradle /\ g.book = h.book /\ g.events = h.events /\ g.flush = h.flush
        /\ g.unacked = h.unacked /\ g.handoff.no = e.no
    BY <1>3, <2>3 DEF Page
  <2>9. HandoffKept(g)
    BY <1>4, <2>2, <2>5, <2>8 DEF HandoffKept
  <2> QED
    BY <1>4, <1>6, <2>7, <2>8, <2>9 DEF PageNumbered, g
<1> QED
  BY <1>7, <1>8

\* The page is made anew from its save.
LEMMA ReloadNumbers ==
    ASSUME FullTransportInv, NEW p \in Peer, Reload(p)
    PROVE  NumberingInv'
<1> DEFINE s == disk[p]
           h == Restored(s)
           whole == ~(torn[p] \/ s.undrained # <<>>)
<1>1. /\ s \in SessionSave /\ Coherent(s) /\ torn[p] \in BOOLEAN
      /\ ~left[p] => Numbering(host[p], s, ~torn[p])
  BY PageFacts
<1>2. PICK sent \in BOOLEAN : Step(p, Resent(h, sent))
  BY DEF Reload
<1>3. /\ UNCHANGED <<disk, left>> /\ torn' = [torn EXCEPT ![p] = @ \/ s.undrained # <<>>]
  BY DEF Reload
<1>4. torn \in [Peer -> BOOLEAN] /\ disk \in [Peer -> SessionSave]
  BY DEF FullTransportInv, NumberingInv, TransportInv, Typed
<1>5. /\ torn' \in [Peer -> BOOLEAN] /\ whole \in BOOLEAN /\ ~torn'[p] = whole
      /\ \A q \in Peer : q # p => torn'[q] = torn[q]
  <2> DEFINE b == torn[p] \/ s.undrained # <<>>
  <2>1. b \in BOOLEAN /\ torn' = [torn EXCEPT ![p] = b] /\ whole = ~b
    BY <1>3, <1>4
  <2> HIDE DEF b, whole
  <2> QED
    BY <1>4, <2>1
<1>6. whole => ~torn[p] /\ s.undrained = <<>>
  OBVIOUS
<1> HIDE DEF whole
<1>7. ASSUME ~left[p]
      PROVE  Numbering(Resent(h, sent), s, whole)
  <2>1. SaveNumbered(s, whole)
    BY <1>1, <1>6, <1>7 DEF Numbering, SaveNumbered
  <2>2. PageNumbered(h, whole) /\ h.flush = Idle /\ h \in Page
    BY <1>1, <1>5, <1>6, <2>1, RestoredNumbered
  <2> HIDE DEF h
  <2>3. Numbering(h, s, whole)
    BY <2>1, <2>2 DEF Numbering
  <2> QED
    BY <2>2, <2>3, ResentUnmoved, UnmovedNumbered
<1>8. /\ host' = [host EXCEPT ![p] = Resent(h, sent)] /\ disk' = [disk EXCEPT ![p] = s]
      /\ left' = left
  BY <1>2, <1>3, <1>4 DEF Step
<1>9. ~left'[p] => Numbering(Resent(h, sent), s, ~torn'[p])
  BY <1>5, <1>7, <1>8
<1> HIDE DEF h, s
<1> QED
  BY <1>5, <1>8, <1>9, NumberStep

\* The first state is numbered.
LEMMA InitNumbers ==
    ASSUME Init
    PROVE  NumberingInv
<1> DEFINE s == Snapshot(NewHost)
<1>1. NewHost \in Page
  BY DEF NewHost, NewCradle, None, NoHandoff, Page, Cradle, Message
<1>2. /\ NewHost.cradle.made = <<>> /\ NewHost.cradle.handoff = None /\ NewHost.book = <<>>
      /\ NewHost.events = <<>> /\ NewHost.flush = Idle
  BY DEF NewHost, NewCradle
<1>3. PageNumbered(NewHost, TRUE)
  <2>1. <<>> \o <<>> = <<>>
    OBVIOUS
  <2> QED
    BY <1>2, <2>1 DEF PageNumbered, MadeInOrder, HandoffKept, InTurn
<1>4. SaveNumbered(s, TRUE)
  BY <1>1, <1>3, SnapshotNumbered
<1>5. \A p \in Peer : host[p] = NewHost /\ disk[p] = s /\ torn[p] = FALSE
  BY DEF Init
<1>6. torn \in [Peer -> BOOLEAN]
  BY DEF Init
<1> HIDE DEF s
<1>7. Numbering(NewHost, s, ~FALSE)
  BY <1>2, <1>3, <1>4 DEF Numbering
<1> QED
  BY <1>5, <1>6, <1>7 DEF NumberingInv

\* Every step keeps the numbering.
LEMMA NextNumbers ==
    ASSUME FullTransportInv, [Next]_vars
    PROVE  NumberingInv'
<1>1. CASE UNCHANGED <<host, disk, left, torn>>
  BY <1>1 DEF FullTransportInv, NumberingInv
<1>2. CASE Next
  <2>1. PICK p \in Peer :
          \/ Act(p) \/ Drain(p) \/ GoOnChain(p)
          \/ \E f \in net[p] : DeliverMessage(p, f) \/ ReceiveAck(p, f)
          \/ \E sent \in BOOLEAN : Nudge(p, sent)
          \/ StartFlush(p) \/ FlushEnds(p) \/ FlushFails(p)
          \/ Save(p) \/ Reload(p)
    BY <1>2 DEF Next
  <2>2. CASE Act(p)
    BY <2>2, ActNumbers
  <2>3. CASE Drain(p)
    BY <2>3, DrainNumbers
  <2>4. CASE GoOnChain(p)
    BY <2>4, GoOnChainNumbers
  <2>5. ASSUME NEW f \in net[p], DeliverMessage(p, f)
        PROVE  NumberingInv'
    <3>1. CASE DeliverIgnored(p, f)
      BY <1>1, <3>1 DEF DeliverIgnored
    <3> QED
      BY <2>5, <3>1, DeliverNextNumbers, DeliverEarlyNumbers, DeliverDuplicateNumbers
         DEF DeliverMessage
  <2>6. ASSUME NEW f \in net[p], ReceiveAck(p, f)
        PROVE  NumberingInv'
    BY <2>6, ReceiveAckNumbers
  <2>7. ASSUME NEW sent \in BOOLEAN, Nudge(p, sent)
        PROVE  NumberingInv'
    BY <2>7, NudgeNumbers
  <2>8. CASE StartFlush(p)
    BY <2>8, StartFlushNumbers
  <2>9. CASE FlushEnds(p)
    BY <2>9, FlushEndsNumbers
  <2>10. CASE FlushFails(p)
    BY <2>10, FlushFailsNumbers
  <2>11. CASE Save(p)
    BY <2>11, SaveNumbers
  <2>12. CASE Reload(p)
    BY <2>12, ReloadNumbers
  <2> QED
    BY <2>1, <2>2, <2>3, <2>4, <2>5, <2>6, <2>7, <2>8, <2>9, <2>10, <2>11, <2>12
<1> QED
  BY <1>1, <1>2 DEF vars

\* The numbering is part of the invariant: for any bound on messages, upsets
\* and duplicates and for any drain budget.
THEOREM FullInvariance == Spec => []FullTransportInv
<1>1. Init => FullTransportInv
  BY InitHolds, InitNumbers DEF FullTransportInv
<1>2. FullTransportInv /\ [Next]_vars => FullTransportInv'
  BY NextKeeps, NextNumbers DEF FullTransportInv
<1> QED
  BY <1>1, <1>2, PTL DEF Spec

\* A page that has not left, and was not resumed from a save taken while events
\* were queued, has given every message of its cradle one number, in the order
\* they were made, the terminal command apart (drainActiveEventsToQuiescence,
\* queueTerminalHandoff).
THEOREM MessagesNumbered == Spec => []NumberedAsMade
<1>1. FullTransportInv => NumberedAsMade
  BY DEF FullTransportInv, NumberingInv, Numbering, PageNumbered, NumberedAsMade
<1> QED
  BY <1>1, FullInvariance, PTL
=============================================================================
