---------------------------- MODULE PotatoProofs ----------------------------
(***************************************************************************)
(* PotatoInv is an invariant of the channel between two players, for every *)
(* deposit, factory, set of game types and moves, and bound on the calls.  *)
(* A step of one session is of one of a few kinds (it rests, sends the     *)
(* potato, receives it, answers it or quits), each kind keeps the          *)
(* invariant, and every action of the specification is of such a kind.     *)
(***************************************************************************)
EXTENDS LedgerProofs, FiniteSetTheorems

(***************************************************************************)
(* The stream: which of its messages are batches.                          *)
(***************************************************************************)
BatchesIn(w) == {i \in DOMAIN w : w[i].k = "Batch"}

Single(w) == \A i, j \in BatchesIn(w) : i = j

\* v carries no batch that w does not carry.
Fewer(w, v) ==
    /\ \A i \in BatchesIn(v) : \E j \in BatchesIn(w) : v[i] = w[j]
    /\ Single(w) => Single(v)

NoBatch(w) == BatchesIn(w) = {}

\* The one batch of w carries the state sig.
OneBatch(w, sig) ==
    Single(w) /\ BatchesIn(w) # {} /\ \A i \in BatchesIn(w) : w[i].sig = sig

LEMMA FewerSelf ==
    ASSUME NEW w
    PROVE  Fewer(w, w)
    BY DEF Fewer

LEMMA FewerTail ==
    ASSUME NEW w \in Seq(Messages), w # << >>
    PROVE  /\ Tail(w) \in Seq(Messages) /\ Head(w) \in Messages
           /\ Fewer(w, Tail(w))
           /\ Single(w) /\ Head(w).k = "Batch" => NoBatch(Tail(w))
           /\ Head(w).k = "Batch" => \E i \in BatchesIn(w) : w[i] = Head(w)
           /\ Head(w).k # "Batch" /\ ~NoBatch(w) => ~NoBatch(Tail(w))
  <1> DEFINE v == Tail(w)
  <1>1. /\ v \in Seq(Messages) /\ Len(w) \in Nat \ {0} /\ Len(v) = Len(w) - 1
        /\ \A i \in 1..Len(v) : v[i] = w[i + 1] /\ i + 1 \in 1..Len(w)
        /\ DOMAIN v = 1..Len(v) /\ DOMAIN w = 1..Len(w) /\ Head(w) = w[1]
        /\ Head(w) \in Messages /\ 1 \in 1..Len(w)
      OBVIOUS
  <1> HIDE DEF v
  <1>2. \A i \in BatchesIn(v) : i \in Nat /\ i + 1 \in BatchesIn(w) /\ v[i] = w[i + 1]
      BY <1>1 DEF BatchesIn
  <1>3. Fewer(w, v)
    <2>1. ASSUME Single(w), NEW i \in BatchesIn(v), NEW j \in BatchesIn(v) PROVE i = j
      <3>1. i + 1 = j + 1
          BY <2>1, <1>2 DEF Single
      <3> QED
          BY <3>1, <1>2
    <2> QED
        BY <2>1, <1>2 DEF Fewer, Single
  <1>4. ASSUME Single(w), Head(w).k = "Batch" PROVE NoBatch(v)
    <2>1. 1 \in BatchesIn(w)
        BY <1>1, <1>4 DEF BatchesIn
    <2>2. ASSUME NEW i \in BatchesIn(v) PROVE FALSE
      <3>1. i + 1 = 1 /\ i \in 1..Len(v)
          BY <1>1, <1>2, <1>4, <2>1 DEF Single, BatchesIn
      <3> QED
          BY <3>1, <1>1
    <2> QED
        BY <2>2 DEF NoBatch
  <1>5. Head(w).k = "Batch" => \E i \in BatchesIn(w) : w[i] = Head(w)
      BY <1>1 DEF BatchesIn
  <1>6. ASSUME Head(w).k # "Batch", ~NoBatch(w) PROVE ~NoBatch(v)
    <2>1. PICK i \in BatchesIn(w) : TRUE
        BY <1>6 DEF NoBatch
    <2>2. i \in 1..Len(w) /\ i # 1 /\ w[i].k = "Batch"
        BY <2>1, <1>1, <1>6 DEF BatchesIn
    <2>3. i - 1 \in 1..Len(v) /\ (i - 1) + 1 = i
        BY <2>2, <1>1
    <2>4. i - 1 \in BatchesIn(v)
        BY <2>2, <2>3, <1>1 DEF BatchesIn
    <2> QED
        BY <2>4 DEF NoBatch
  <1> QED
      BY <1>1, <1>3, <1>4, <1>5, <1>6 DEF v

LEMMA FewerAppended ==
    ASSUME NEW w \in Seq(Messages), NEW o \in Seq(Messages)
    PROVE  /\ w \o o \in Seq(Messages)
           /\ NoBatch(o) => Fewer(w, w \o o)
           /\ ~NoBatch(w) => ~NoBatch(w \o o)
           /\ \A sig : NoBatch(w) /\ OneBatch(o, sig) => OneBatch(w \o o, sig)
  <1> DEFINE v == w \o o
  <1>1. /\ v \in Seq(Messages) /\ Len(v) = Len(w) + Len(o)
        /\ \A i \in DOMAIN v : v[i] = IF i <= Len(w) THEN w[i] ELSE o[i - Len(w)]
      BY ConcatType
  <1>2. /\ DOMAIN v = 1..Len(v) /\ DOMAIN w = 1..Len(w) /\ DOMAIN o = 1..Len(o)
        /\ Len(w) \in Nat /\ Len(o) \in Nat
      BY <1>1
  <1> HIDE DEF v
  <1>3. ASSUME NEW i \in BatchesIn(v)
        PROVE  \/ i \in BatchesIn(w) /\ v[i] = w[i]
               \/ /\ i - Len(w) \in BatchesIn(o) /\ v[i] = o[i - Len(w)]
                  /\ i \in Nat
    <2>1. i \in 1..(Len(w) + Len(o)) /\ v[i].k = "Batch"
        BY <1>1, <1>2 DEF BatchesIn
    <2>2. CASE i <= Len(w)
      <3>1. i \in 1..Len(w) /\ v[i] = w[i]
          BY <2>1, <2>2, <1>1, <1>2
      <3> QED
          BY <3>1, <2>1, <1>2 DEF BatchesIn
    <2>3. CASE ~(i <= Len(w))
      <3>1. i - Len(w) \in 1..Len(o) /\ i \in Nat /\ i \in DOMAIN v
          BY <2>1, <2>3, <1>1, <1>2
      <3>2. v[i] = o[i - Len(w)]
          BY <3>1, <2>3, <1>1
      <3> QED
          BY <3>1, <3>2, <2>1, <1>2 DEF BatchesIn
    <2> QED
        BY <2>2, <2>3
  <1>4. NoBatch(o) => Fewer(w, v)
      BY <1>3 DEF NoBatch, Fewer, Single
  <1>5. \A i \in BatchesIn(w) : i \in BatchesIn(v)
      BY <1>1, <1>2 DEF BatchesIn
  <1>6. \A j \in BatchesIn(o) : Len(w) + j \in BatchesIn(v)
    <2> SUFFICES ASSUME NEW j \in BatchesIn(o) PROVE Len(w) + j \in BatchesIn(v)
        BY Zenon
    <2>1. j \in 1..Len(o) /\ o[j].k = "Batch"
        BY <1>2 DEF BatchesIn
    <2>2. Len(w) + j \in 1..Len(v) /\ ~(Len(w) + j <= Len(w)) /\ (Len(w) + j) - Len(w) = j
        BY <2>1, <1>1, <1>2
    <2> QED
        BY <2>1, <2>2, <1>1, <1>2 DEF BatchesIn
  <1>7. ASSUME NEW sig, NoBatch(w), OneBatch(o, sig) PROVE OneBatch(v, sig)
    <2>1. \A i \in BatchesIn(v) : /\ i - Len(w) \in BatchesIn(o) /\ v[i] = o[i - Len(w)]
                                  /\ i \in Nat
        BY <1>3, <1>7 DEF NoBatch
    <2>2. ASSUME NEW i \in BatchesIn(v), NEW j \in BatchesIn(v) PROVE i = j
      <3>1. i - Len(w) = j - Len(w)
          BY <2>1, <1>7 DEF OneBatch, Single
      <3> QED
          BY <3>1, <2>1, <1>2
    <2>3. BatchesIn(v) # {}
        BY <1>6, <1>7 DEF OneBatch
    <2> QED
        BY <2>1, <2>2, <2>3, <1>7 DEF OneBatch, Single
  <1> QED
      BY <1>1, <1>4, <1>5, <1>7 DEF v, NoBatch

-----------------------------------------------------------------------------
(***************************************************************************)
(* The kinds of session steps, from session s to session r, as far as the  *)
(* other session is concerned.                                             *)
(***************************************************************************)

\* The states on record are as they were.
Steady(c, d) ==
    /\ d.me = c.me /\ d.sn = c.sn /\ d.sent = c.sent /\ d.received = c.received
    /\ d.known = c.known

Gives(c, d) ==
    /\ d.me = c.me /\ d.sn = c.sn + 1 /\ d.sent.sn = d.sn /\ d.received = c.received
    /\ d.known = c.known \cup {d.sent}

Gets(c, d, sig) ==
    /\ d.me = c.me /\ d.sn = c.sn + 1 /\ sig.sn = d.sn /\ d.received = sig
    /\ d.sent = c.sent /\ d.known = c.known \cup {sig}

Swaps(c, d, sig) ==
    /\ d.me = c.me /\ d.sn = c.sn + 2 /\ sig.sn = c.sn + 1 /\ d.received = sig
    /\ d.sent.sn = d.sn /\ d.known = c.known \cup {sig, d.sent}

\* The unrolls that r publishes or keeps to publish are s's.
SpendsKept(s, r) == \A x \in r.tx \cup {r.spend} : x.k = "Unroll" => x = s.spend

Sound(s, r) == r \in Sessions /\ SessionInv(r) /\ (s.accused => r.accused)

Rests(s, r) ==
    /\ Sound(s, r) /\ Steady(s.ch, r.ch) /\ (Present(r) <=> Present(s)) /\ NoBatch(r.out)
    /\ SpendsKept(s, r) /\ (r.phase = "OffChain" => s.phase = "OffChain")

Sends(s, r) ==
    /\ Sound(s, r) /\ Gives(s.ch, r.ch) /\ Present(s) /\ ~Present(r)
    /\ OneBatch(r.out, r.ch.sent)
    /\ SpendsKept(s, r) /\ s.phase = "OffChain" /\ r.phase = "OffChain"

Receives(s, r, sig) ==
    /\ Sound(s, r) /\ Gets(s.ch, r.ch, sig) /\ ~Present(s) /\ Present(r) /\ NoBatch(r.out)
    /\ r.tx = {} /\ r.spend = Unroll(sig) /\ s.phase = "OffChain" /\ r.phase = "OffChain"

Answers(s, r, sig) ==
    /\ Sound(s, r) /\ Swaps(s.ch, r.ch, sig) /\ ~Present(s) /\ ~Present(r)
    /\ OneBatch(r.out, r.ch.sent)
    /\ r.tx = {} /\ r.spend = Unroll(sig) /\ s.phase = "OffChain" /\ r.phase = "OffChain"

\* A batch that is refused, or that closes the channel, ends the off-chain phase.
Quits(s, r, sig) ==
    /\ Sound(s, r) /\ Steady(s.ch, r.ch) /\ NoBatch(r.out) /\ r.phase # "OffChain"
    /\ \A x \in r.tx \cup {r.spend} :
          x.k = "Unroll" => x = s.spend \/ (x = Unroll(sig) /\ r.accused)

-----------------------------------------------------------------------------
(***************************************************************************)
(* Both sessions.                                                          *)
(***************************************************************************)

\* What the invariants of the other session and the stream say of player p.
LEMMA TypeFacts ==
    ASSUME TypeInv, NEW p \in Party
    PROVE  /\ peer[p] \in Sessions /\ peer[p].ch \in Channels /\ peer[p].ch.me = p
           /\ wire[p] \in Seq(Messages) /\ published[p] \in SUBSET Spends
           /\ calls[p] \in Nat /\ peer[p].ch.sn \in Nat
           /\ peer[p].ch.known \in SUBSET States /\ peer[p].spend \in Spends
  <1>1. peer[p] \in Sessions /\ wire[p] \in Seq(Messages) /\ published[p] \in SUBSET Spends
        /\ calls[p] \in Nat /\ peer[p].ch.me = p
      BY DEF TypeInv
  <1>2. peer[p].ch \in Channels /\ peer[p].spend \in Spends
      BY <1>1 DEF Sessions
  <1> QED
      BY <1>1, <1>2, ChannelFields

LEMMA CollectedType ==
    ASSUME NEW r \in Sessions
    PROVE  LET e == Collected(r)
           IN  /\ e \in Sessions /\ e.ch = r.ch /\ e.have_potato = r.have_potato
               /\ e.phase = r.phase /\ e.spend = r.spend /\ e.accused = r.accused
               /\ e.out = << >> /\ e.tx = {} /\ e.err = FALSE /\ e.blame = FALSE
               /\ e.torn = r.torn /\ e.queue = r.queue
               /\ SessionInv(r) => SessionInv(e)
  <1> DEFINE e == Collected(r)
  <1>1. << >> \in Seq(Messages)
      OBVIOUS
  <1>2. /\ e \in Sessions /\ e.ch = r.ch /\ e.have_potato = r.have_potato
        /\ e.phase = r.phase /\ e.spend = r.spend /\ e.accused = r.accused
        /\ e.out = << >> /\ e.tx = {} /\ e.err = FALSE /\ e.blame = FALSE
        /\ e.torn = r.torn /\ e.queue = r.queue
      BY <1>1 DEF Collected, Sessions
  <1> HIDE DEF e
  <1>3. SessionInv(r) => SessionInv(e)
      BY <1>2 DEF SessionInv, QueueInv, PlayInv, FlagsInv, HeldInv, Present
  <1> QED
      BY <1>2, <1>3 DEF e

\* What ties sessions s and t and their streams w and v together.
Bound(s, t, w) ==
    \A i \in BatchesIn(w) :
        /\ w[i].sig = t.ch.sent /\ t.ch.sent.sn = t.ch.sn
        /\ s.phase = "OffChain" => t.ch.sn = s.ch.sn + 1

Ahead(s, t) ==
    Present(s) /\ s.phase = "OffChain" =>
        /\ t.ch.sn <= s.ch.sn
        /\ t.phase = "OffChain" => t.ch.sn = s.ch.sn /\ t.ch.sent = s.ch.received

Agree(s, t) == \A c \in s.ch.known, d \in t.ch.known : c.sn = d.sn => c = d

Together(s, t, w, v) ==
    /\ Single(w) /\ Single(v) /\ (NoBatch(w) \/ NoBatch(v))
    /\ Present(s) => ~Present(t) /\ NoBatch(w) /\ NoBatch(v)
    /\ Present(t) => ~Present(s) /\ NoBatch(w) /\ NoBatch(v)
    /\ s.phase = "OffChain" /\ t.phase = "OffChain" =>
          Present(s) \/ Present(t) \/ ~NoBatch(w) \/ ~NoBatch(v)
    /\ Bound(s, t, w) /\ Bound(t, s, v) /\ Ahead(s, t) /\ Ahead(t, s)
    /\ Agree(s, t)

\* The unrolls of s are on record with t, and with s unless it accused t.
Backed(s, t, P) ==
    \A x \in P \cup {s.spend} :
        x.k = "Unroll" => x.c \in t.ch.known /\ (x.c \in s.ch.known \/ s.accused)

LEMMA SessionFields ==
    ASSUME NEW s \in Sessions
    PROVE  /\ s.ch \in Channels /\ s.queue \in Seq(QueueActions)
           /\ s.have_potato \in {"Absent", "Requested", "Present"}
           /\ s.peer_wants \in BOOLEAN /\ s.spend \in Spends /\ s.expected \in Shutdowns
           /\ s.phase \in Phases /\ s.out \in Seq(Messages) /\ s.tx \in SUBSET Spends
           /\ s.err \in BOOLEAN /\ s.blame \in BOOLEAN /\ s.told \in SUBSET Nat
           /\ s.settled \in SUBSET [id : Nat, amt : Nat, pot : Nat]
           /\ s.dup \in BOOLEAN /\ s.torn \in BOOLEAN /\ s.accused \in BOOLEAN
    BY DEF Sessions

LEMMA Numbered ==
    ASSUME NEW s \in Sessions, RecordInv(s.ch)
    PROVE  /\ s.ch.sn \in Nat /\ s.ch.sent \in s.ch.known /\ s.ch.received \in s.ch.known
           /\ \A c \in s.ch.known : c.sn \in Nat /\ c.sn <= s.ch.sn
           /\ \A c, d \in s.ch.known : c.sn = d.sn => c = d
  <1>1. s.ch.sn \in Nat /\ s.ch.known \in SUBSET States
      BY SessionFields, ChannelFields
  <1>2. \A c \in s.ch.known : c.sn \in Nat
      BY <1>1 DEF States
  <1> QED
      BY <1>1, <1>2 DEF RecordInv

LEMMA RestsTogether ==
    ASSUME NEW s \in Sessions, NEW t \in Sessions, NEW r, NEW w, NEW v, NEW x, NEW y,
           Together(s, t, w, v), Rests(s, r), Fewer(w, x), Fewer(v, y),
           ~NoBatch(v) => ~NoBatch(y),
           r.phase = "OffChain" /\ ~NoBatch(w) => ~NoBatch(x)
    PROVE  Together(r, t, x, y)
  <1> USE DEF Rests
  <1>1. Single(x) /\ Single(y) /\ (NoBatch(x) \/ NoBatch(y))
        /\ (NoBatch(w) => NoBatch(x)) /\ (NoBatch(v) => NoBatch(y))
      BY DEF Together, Fewer, NoBatch
  <1>2. Present(r) => ~Present(t) /\ NoBatch(x) /\ NoBatch(y)
      BY <1>1 DEF Together
  <1>3. Present(t) => ~Present(r) /\ NoBatch(x) /\ NoBatch(y)
      BY <1>1 DEF Together
  <1>4. r.phase = "OffChain" /\ t.phase = "OffChain" =>
            Present(r) \/ Present(t) \/ ~NoBatch(x) \/ ~NoBatch(y)
      BY DEF Together
  <1>5. Bound(r, t, x)
      BY DEF Together, Bound, Fewer, Steady
  <1>6. Bound(t, r, y)
      BY DEF Together, Bound, Fewer, Steady
  <1>7. Ahead(r, t) /\ Ahead(t, r) /\ Agree(r, t)
      BY DEF Together, Ahead, Agree, Steady
  <1> QED
      BY <1>1, <1>2, <1>3, <1>4, <1>5, <1>6, <1>7 DEF Together

LEMMA SendsTogether ==
    ASSUME NEW s \in Sessions, NEW t \in Sessions, NEW r, NEW w, NEW v, NEW x, NEW y,
           Together(s, t, w, v), RecordInv(s.ch), RecordInv(t.ch),
           Sends(s, r), Fewer(w, x), OneBatch(y, r.ch.sent)
    PROVE  Together(r, t, x, y)
  <1> USE DEF Sends
  <1>1. NoBatch(w) /\ NoBatch(v) /\ ~Present(t)
      BY DEF Together
  <1>2. NoBatch(x) /\ Single(x) /\ Single(y) /\ ~NoBatch(y)
      BY <1>1 DEF Fewer, NoBatch, OneBatch, Single
  <1>3. /\ t.ch.sn <= s.ch.sn
        /\ t.phase = "OffChain" => t.ch.sn = s.ch.sn
      BY DEF Together, Ahead
  <1>4. Bound(t, r, y)
      BY <1>3 DEF Bound, OneBatch, Gives
  <1>5. Bound(r, t, x)
      BY <1>2 DEF Bound, NoBatch
  <1>6. Ahead(r, t) /\ Ahead(t, r)
      BY <1>1 DEF Ahead
  <1>7. Agree(r, t)
    <2>1. ASSUME NEW c \in r.ch.known, NEW d \in t.ch.known, c.sn = d.sn PROVE c = d
      <3>1. CASE c \in s.ch.known
          BY <3>1, <2>1 DEF Together, Agree
      <3>2. CASE c = r.ch.sent
        <4>1. c.sn = s.ch.sn + 1
            BY <3>2 DEF Gives
        <4>2. d.sn \in Nat /\ d.sn <= t.ch.sn /\ t.ch.sn \in Nat /\ s.ch.sn \in Nat
            BY Numbered
        <4> QED
            BY <4>1, <4>2, <1>3, <2>1
      <3> QED
          BY <3>1, <3>2 DEF Gives
    <2> QED
        BY <2>1 DEF Agree
  <1> QED
      BY <1>1, <1>2, <1>4, <1>5, <1>6, <1>7 DEF Together

\* The batch being read, and what it says of both sessions.
LEMMA BatchRead ==
    ASSUME NEW s, NEW t, NEW w, NEW v, Together(s, t, w, v), NEW sig,
           NEW i \in BatchesIn(w), w[i].sig = sig
    PROVE  /\ sig = t.ch.sent /\ sig.sn = t.ch.sn /\ ~Present(s) /\ ~Present(t)
           /\ NoBatch(v)
           /\ s.phase = "OffChain" => t.ch.sn = s.ch.sn + 1
    BY DEF Together, Bound, NoBatch

LEMMA ReceivesTogether ==
    ASSUME NEW s \in Sessions, NEW t \in Sessions, NEW r, NEW w, NEW v, NEW x, NEW y,
           Together(s, t, w, v), RecordInv(s.ch), RecordInv(t.ch), NEW sig,
           NEW i \in BatchesIn(w), w[i].sig = sig,
           Receives(s, r, sig), NoBatch(x), Fewer(v, y)
    PROVE  Together(r, t, x, y)
  <1> USE DEF Receives
  <1>1. /\ sig = t.ch.sent /\ sig.sn = t.ch.sn /\ ~Present(s) /\ ~Present(t)
        /\ NoBatch(v) /\ t.ch.sn = s.ch.sn + 1
      BY BatchRead
  <1>2. NoBatch(y) /\ Single(x) /\ Single(y)
      BY <1>1 DEF Fewer, NoBatch, Single
  <1>3. t.ch.sn \in Nat /\ s.ch.sn \in Nat
      BY Numbered
  <1>4. Bound(r, t, x) /\ Bound(t, r, y)
      BY <1>2 DEF Bound, NoBatch
  <1>5. Ahead(r, t) /\ Ahead(t, r)
      BY <1>1, <1>3 DEF Ahead, Gets
  <1>6. Agree(r, t)
    <2>1. ASSUME NEW c \in r.ch.known, NEW d \in t.ch.known, c.sn = d.sn PROVE c = d
      <3>1. CASE c \in s.ch.known
          BY <3>1, <2>1 DEF Together, Agree
      <3>2. CASE c = sig
          BY <3>2, <2>1, <1>1, Numbered
      <3> QED
          BY <3>1, <3>2 DEF Gets
    <2> QED
        BY <2>1 DEF Agree
  <1> QED
      BY <1>1, <1>2, <1>4, <1>5, <1>6 DEF Together

LEMMA AnswersTogether ==
    ASSUME NEW s \in Sessions, NEW t \in Sessions, NEW r, NEW w, NEW v, NEW x, NEW y,
           Together(s, t, w, v), RecordInv(s.ch), RecordInv(t.ch), NEW sig,
           NEW i \in BatchesIn(w), w[i].sig = sig,
           Answers(s, r, sig), NoBatch(x), OneBatch(y, r.ch.sent)
    PROVE  Together(r, t, x, y)
  <1> USE DEF Answers
  <1>1. /\ sig = t.ch.sent /\ sig.sn = t.ch.sn /\ ~Present(s) /\ ~Present(t)
        /\ NoBatch(v) /\ t.ch.sn = s.ch.sn + 1
      BY BatchRead
  <1>2. ~NoBatch(y) /\ Single(x) /\ Single(y)
      BY DEF OneBatch, NoBatch, Single
  <1>3. t.ch.sn \in Nat /\ s.ch.sn \in Nat
      BY Numbered
  <1>4. Bound(r, t, x)
      BY DEF Bound, NoBatch
  <1>5. Bound(t, r, y)
      BY <1>1, <1>3 DEF Bound, OneBatch, Swaps
  <1>6. Ahead(r, t) /\ Ahead(t, r)
      BY <1>1 DEF Ahead
  <1>7. Agree(r, t)
    <2>1. ASSUME NEW c \in r.ch.known, NEW d \in t.ch.known, c.sn = d.sn PROVE c = d
      <3>1. CASE c \in s.ch.known
          BY <3>1, <2>1 DEF Together, Agree
      <3>2. CASE c = sig
          BY <3>2, <2>1, <1>1, Numbered
      <3>3. CASE c = r.ch.sent
        <4>1. c.sn = s.ch.sn + 2
            BY <3>3 DEF Swaps
        <4>2. d.sn \in Nat /\ d.sn <= t.ch.sn
            BY Numbered
        <4> QED
            BY <4>1, <4>2, <1>1, <1>3, <2>1
      <3> QED
          BY <3>1, <3>2, <3>3 DEF Swaps
    <2> QED
        BY <2>1 DEF Agree
  <1> QED
      BY <1>1, <1>2, <1>4, <1>5, <1>6, <1>7 DEF Together

LEMMA QuitsTogether ==
    ASSUME NEW s \in Sessions, NEW t \in Sessions, NEW r, NEW w, NEW v, NEW x, NEW y,
           Together(s, t, w, v), NEW sig, NEW i \in BatchesIn(w), w[i].sig = sig,
           Quits(s, r, sig), NoBatch(x), Fewer(v, y)
    PROVE  Together(r, t, x, y)
  <1> USE DEF Quits
  <1>1. ~Present(t) /\ NoBatch(v)
      BY BatchRead
  <1>2. NoBatch(y) /\ Single(x) /\ Single(y)
      BY <1>1 DEF Fewer, NoBatch, Single
  <1>3. Bound(r, t, x) /\ Bound(t, r, y)
      BY <1>2 DEF Bound, NoBatch
  <1>4. Ahead(r, t) /\ Ahead(t, r) /\ Agree(r, t)
      BY <1>1 DEF Ahead, Agree, Together, Steady
  <1> QED
      BY <1>1, <1>2, <1>3, <1>4 DEF Together

\* What is on record stays there, and so does an accusation.
Grows(s, r) == s.ch.known \subseteq r.ch.known /\ (s.accused => r.accused)

LEMMA KindsGrow ==
    ASSUME NEW s, NEW r, NEW sig,
           Rests(s, r) \/ Sends(s, r) \/ Receives(s, r, sig) \/ Answers(s, r, sig)
               \/ Quits(s, r, sig)
    PROVE  Grows(s, r) /\ r \in Sessions /\ SessionInv(r) /\ r.ch.me = s.ch.me
  <1>1. Sound(s, r)
      BY DEF Rests, Sends, Receives, Answers, Quits
  <1>2. s.ch.known \subseteq r.ch.known /\ r.ch.me = s.ch.me
      BY DEF Rests, Sends, Receives, Answers, Quits, Steady, Gives, Gets, Swaps
  <1> QED
      BY <1>1, <1>2 DEF Grows, Sound

LEMMA StaysBacked ==
    ASSUME NEW s, NEW t, NEW r, NEW P, NEW Q, Backed(s, t, P), Backed(t, s, Q), Grows(s, r)
    PROVE  /\ Backed(t, r, Q)
           /\ SpendsKept(s, r) => Backed(r, t, P \cup r.tx)
  <1>1. Backed(t, r, Q)
      BY DEF Backed, Grows
  <1>2. ASSUME SpendsKept(s, r), NEW x \in P \cup r.tx \cup {r.spend}, x.k = "Unroll"
        PROVE  x.c \in t.ch.known /\ (x.c \in r.ch.known \/ r.accused)
    <2>1. x \in P \cup {s.spend}
        BY <1>2 DEF SpendsKept
    <2> QED
        BY <2>1, <1>2 DEF Backed, Grows
  <1> QED
      BY <1>1, <1>2 DEF Backed

LEMMA ReadBacked ==
    ASSUME NEW s, NEW t, NEW r, NEW P, NEW w, NEW v, NEW sig, Backed(s, t, P),
           Together(s, t, w, v), RecordInv(t.ch), NEW i \in BatchesIn(w), w[i].sig = sig,
           Receives(s, r, sig) \/ Answers(s, r, sig) \/ Quits(s, r, sig)
    PROVE  Backed(r, t, P \cup r.tx)
  <1>1. sig \in t.ch.known
      BY BatchRead DEF RecordInv
  <1>2. Grows(s, r)
      BY KindsGrow
  <1>3. ASSUME NEW x \in r.tx \cup {r.spend}, x.k = "Unroll"
        PROVE  x = s.spend \/ (x = Unroll(sig) /\ (sig \in r.ch.known \/ r.accused))
      BY <1>3 DEF Receives, Answers, Quits, Gets, Swaps
  <1>4. Unroll(sig).c = sig
      BY DEF Unroll
  <1>5. ASSUME NEW x \in P \cup r.tx \cup {r.spend}, x.k = "Unroll"
        PROVE  x.c \in t.ch.known /\ (x.c \in r.ch.known \/ r.accused)
    <2>1. CASE x \in P \cup {s.spend}
        BY <2>1, <1>2, <1>5 DEF Backed, Grows
    <2>2. CASE x \in r.tx \cup {r.spend}
      <3>1. CASE x = s.spend
          BY <3>1, <2>1
      <3>2. CASE x = Unroll(sig) /\ (sig \in r.ch.known \/ r.accused)
          BY <3>2, <1>1, <1>4
      <3> QED
          BY <2>2, <1>3, <1>5, <3>1, <3>2
    <2> QED
        BY <2>1, <2>2
  <1> QED
      BY <1>5 DEF Backed

LEMMA TogetherCollected ==
    ASSUME NEW r \in Sessions, NEW t, NEW w, NEW v, NEW P, NEW Q,
           Together(r, t, w, v), Backed(r, t, P), Backed(t, r, Q)
    PROVE  LET e == Collected(r)
           IN  Together(e, t, w, v) /\ Backed(e, t, P) /\ Backed(t, e, Q)
  <1> DEFINE e == Collected(r)
  <1>1. /\ e.ch = r.ch /\ e.have_potato = r.have_potato /\ e.phase = r.phase
        /\ e.spend = r.spend /\ e.accused = r.accused
      BY CollectedType
  <1> HIDE DEF e
  <1>2. Present(e) <=> Present(r)
      BY <1>1 DEF Present
  <1>3. Bound(e, t, w) /\ Bound(t, e, v) /\ Ahead(e, t) /\ Ahead(t, e) /\ Agree(e, t)
      BY <1>1, <1>2 DEF Together, Bound, Ahead, Agree
  <1>4. Backed(e, t, P) /\ Backed(t, e, Q)
      BY <1>1 DEF Backed
  <1> QED
      BY <1>1, <1>2, <1>3, <1>4 DEF e, Together

Exchanged ==
    /\ AtMostOne /\ AtLeastOne /\ (\A p \in Party : BatchInv(p) /\ HolderInv(p))
    /\ KnownStatesAgree

\* The invariants, as the two sessions of the channel see each other.
LEMMA InvTogether ==
    ASSUME Exchanged, NEW p \in Party
    PROVE  Together(peer[p], peer[Other(p)], wire[p], wire[Other(p)])
  <1> DEFINE q == Other(p)
  <1>1. q \in Party /\ q # p /\ Other(q) = p
      BY OtherParty
  <1> HIDE DEF q
  <1>2. \A x \in Party : BatchTo(x) <=> ~NoBatch(wire[x])
      BY DEF BatchTo, BatchAt, NoBatch, BatchesIn
  <1>3. \A x \in Party : Single(wire[x])
      BY DEF Exchanged, AtMostOne, BatchAt, Single, BatchesIn
  <1>4. /\ NoBatch(wire[p]) \/ NoBatch(wire[q])
        /\ Present(peer[p]) =>
              ~Present(peer[q]) /\ NoBatch(wire[p]) /\ NoBatch(wire[q])
        /\ Present(peer[q]) =>
              ~Present(peer[p]) /\ NoBatch(wire[p]) /\ NoBatch(wire[q])
      BY <1>1, <1>2 DEF Exchanged, AtMostOne, Holds, q
  <1>5. peer[p].phase = "OffChain" /\ peer[q].phase = "OffChain" =>
            Present(peer[p]) \/ Present(peer[q]) \/ ~NoBatch(wire[p]) \/ ~NoBatch(wire[q])
      BY <1>1, <1>2, OtherParty DEF Exchanged, AtLeastOne, BothOffChain, OffChain, Holds, q
  <1>6. Bound(peer[p], peer[q], wire[p]) /\ Bound(peer[q], peer[p], wire[q])
      BY <1>1 DEF Exchanged, BatchInv, BatchAt, OffChain, Bound, BatchesIn, q
  <1>7. Ahead(peer[p], peer[q]) /\ Ahead(peer[q], peer[p])
      BY <1>1 DEF Exchanged, HolderInv, Holds, OffChain, Ahead, q
  <1>8. Agree(peer[p], peer[q])
      BY DEF Exchanged, KnownStatesAgree, Agree, q, Other, Party
  <1> QED
      BY <1>1, <1>3, <1>4, <1>5, <1>6, <1>7, <1>8 DEF Together, q

LEMMA TogetherInv ==
    ASSUME NEW p \in Party, Together(peer[p], peer[Other(p)], wire[p], wire[Other(p)])
    PROVE  Exchanged
  <1> DEFINE q == Other(p)
  <1>1. q \in Party /\ q # p /\ Other(q) = p /\ \A x \in Party : x = p \/ x = q
      BY OtherParty
  <1>2. Together(peer[p], peer[q], wire[p], wire[q])
      OBVIOUS
  <1>3. Other(p) = q
      OBVIOUS
  <1> HIDE DEF q
  <1>4. \A x \in Party : BatchTo(x) <=> ~NoBatch(wire[x])
      BY DEF BatchTo, BatchAt, NoBatch, BatchesIn
  <1>5. AtMostOne
    <2>1. \A x \in Party : \A i, j \in DOMAIN wire[x] : BatchAt(x, i) /\ BatchAt(x, j) => i = j
        BY <1>1, <1>2 DEF Together, Single, BatchesIn, BatchAt
    <2>2. \A x \in Party : BatchTo(x) => ~BatchTo(Other(x))
        BY <1>1, <1>2, <1>3, <1>4 DEF Together
    <2>3. \A x \in Party : Holds(x) =>
              ~Holds(Other(x)) /\ ~BatchTo(x) /\ ~BatchTo(Other(x))
        BY <1>1, <1>2, <1>3, <1>4 DEF Together, Holds
    <2> QED
        BY <2>1, <2>2, <2>3 DEF AtMostOne
  <1>6. AtLeastOne
      BY <1>1, <1>2, <1>4 DEF Together, AtLeastOne, BothOffChain, OffChain, Holds
  <1>7. BatchInv(p) /\ BatchInv(q)
      BY <1>1, <1>2, <1>3 DEF Together, BatchInv, BatchAt, OffChain, Bound, BatchesIn
  <1>8. HolderInv(p) /\ HolderInv(q)
      BY <1>1, <1>2, <1>3 DEF Together, HolderInv, Holds, OffChain, Ahead
  <1>9. KnownStatesAgree
      BY <1>2, <1>3 DEF Together, KnownStatesAgree, Agree, Other, Party
  <1> QED
      BY <1>1, <1>5, <1>6, <1>7, <1>8, <1>9 DEF Exchanged

TogetherAt(p) == Together(peer[p], peer[Other(p)], wire[p], wire[Other(p)])

TogetherSomewhere == \E p \in Party : TogetherAt(p)

LEMMA TogetherNow == TogetherSomewhere => Exchanged
    BY TogetherInv DEF TogetherSomewhere, TogetherAt

LEMMA TogetherNext == TogetherSomewhere' => Exchanged'
    BY TogetherNow, PTL

\* A step of p, after which its session is r, reads its stream or leaves it.
Leaves(p, r) ==
    /\ peer' = [peer EXCEPT ![p] = Collected(r)]
    /\ published' = [published EXCEPT ![p] = @ \cup r.tx]
    /\ wire' = [wire EXCEPT ![Other(p)] = @ \o r.out]

Reads(p, r) ==
    /\ wire[p] # << >>
    /\ peer' = [peer EXCEPT ![p] = Collected(r)]
    /\ published' = [published EXCEPT ![p] = @ \cup r.tx]
    /\ wire' = [wire EXCEPT ![p] = Tail(@), ![Other(p)] = @ \o r.out]

\* The step is of one of the five kinds.
Kind(p, r) ==
    LET s == peer[p]
        m == Head(wire[p])
    IN  \/ Leaves(p, r) /\ (Rests(s, r) \/ Sends(s, r))
        \/ Reads(p, r) /\ m.k # "Batch" /\ (Rests(s, r) \/ Sends(s, r))
        \/ /\ Reads(p, r) /\ m.k = "Batch"
           /\ \/ Rests(s, r) /\ s.phase # "OffChain"
              \/ Receives(s, r, m.sig) \/ Answers(s, r, m.sig) \/ Quits(s, r, m.sig)

LEMMA KindAfter ==
    ASSUME PotatoInv, NEW p \in Party, NEW r, Kind(p, r)
    PROVE  LET q == Other(p)
           IN  /\ r \in Sessions /\ SessionInv(r) /\ r.ch.me = p /\ Grows(peer[p], r)
               /\ peer' = [peer EXCEPT ![p] = Collected(r)]
               /\ peer'[p] = Collected(r) /\ peer'[q] = peer[q]
               /\ published' = [published EXCEPT ![p] = @ \cup r.tx]
               /\ published'[p] = published[p] \cup r.tx /\ published'[q] = published[q]
               /\ wire' \in [Party -> Seq(Messages)]
               /\ wire'[q] = wire[q] \o r.out
               /\ Leaves(p, r) => wire'[p] = wire[p]
               /\ Reads(p, r) => wire[p] # << >> /\ wire'[p] = Tail(wire[p])
  <1> DEFINE q == Other(p)
  <1>1. q \in Party /\ q # p /\ \A x \in Party : x = p \/ x = q
      BY OtherParty
  <1>2. /\ peer \in [Party -> Sessions] /\ wire \in [Party -> Seq(Messages)]
        /\ published \in [Party -> SUBSET Spends] /\ peer[p].ch.me = p
      BY DEF PotatoInv, TypeInv
  <1>3. r \in Sessions /\ SessionInv(r) /\ r.ch.me = peer[p].ch.me /\ Grows(peer[p], r)
      BY KindsGrow DEF Kind
  <1>4. r.out \in Seq(Messages)
      BY <1>3, SessionFields
  <1>5. Leaves(p, r) \/ Reads(p, r)
      BY DEF Kind
  <1>6. /\ peer' = [peer EXCEPT ![p] = Collected(r)]
        /\ published' = [published EXCEPT ![p] = @ \cup r.tx]
      BY <1>5 DEF Leaves, Reads
  <1>7. Leaves(p, r) => /\ wire'[p] = wire[p] /\ wire'[q] = wire[q] \o r.out
                        /\ wire' \in [Party -> Seq(Messages)]
    <2> HAVE Leaves(p, r)
    <2>1. wire' = [wire EXCEPT ![q] = wire[q] \o r.out]
        BY DEF Leaves
    <2> HIDE DEF q
    <2>2. wire[q] \o r.out \in Seq(Messages)
        BY <1>1, <1>2, <1>4, ConcatType
    <2> QED
        BY <1>1, <1>2, <2>1, <2>2
  <1>8. Reads(p, r) => /\ wire[p] # << >> /\ wire'[p] = Tail(wire[p])
                       /\ wire'[q] = wire[q] \o r.out
                       /\ wire' \in [Party -> Seq(Messages)]
    <2> HAVE Reads(p, r)
    <2>1. /\ wire[p] # << >>
          /\ wire' = [wire EXCEPT ![p] = Tail(wire[p]), ![q] = wire[q] \o r.out]
        BY <1>1 DEF Reads
    <2> HIDE DEF q
    <2>2. wire[q] \o r.out \in Seq(Messages) /\ Tail(wire[p]) \in Seq(Messages)
        BY <1>1, <1>2, <1>4, <2>1, ConcatType, FewerTail
    <2> QED
        BY <1>1, <1>2, <2>1, <2>2
  <1>9. /\ peer'[p] = Collected(r) /\ peer'[q] = peer[q]
        /\ published'[p] = published[p] \cup r.tx /\ published'[q] = published[q]
      BY <1>1, <1>2, <1>6
  <1> QED
      BY <1>2, <1>3, <1>5, <1>6, <1>7, <1>8, <1>9

\* Every kind of step keeps the two sessions together.
LEMMA KindTogether ==
    ASSUME PotatoInv, NEW p \in Party, NEW r, Kind(p, r)
    PROVE  LET q == Other(p)
           IN  /\ Together(r, peer[q], wire'[p], wire'[q])
               /\ Backed(r, peer[q], published'[p]) /\ Backed(peer[q], r, published[q])
  <1> DEFINE q == Other(p)
  <1> DEFINE s == peer[p]
  <1> DEFINE t == peer[q]
  <1> DEFINE w == wire[p]
  <1> DEFINE v == wire[q]
  <1> DEFINE x == wire'[p]
  <1> DEFINE y == wire'[q]
  <1>1. q \in Party /\ Other(q) = p
      BY OtherParty
  <1>2. TypeInv /\ Exchanged /\ SessionInv(s) /\ SessionInv(t) /\ SpendInv(p) /\ SpendInv(q)
      BY <1>1 DEF PotatoInv, Exchanged
  <1>3. s \in Sessions /\ t \in Sessions /\ w \in Seq(Messages) /\ v \in Seq(Messages)
      BY <1>1, <1>2, TypeFacts
  <1>4. Together(s, t, w, v)
      BY <1>2, InvTogether
  <1>5. Backed(s, t, published[p]) /\ Backed(t, s, published[q])
      BY <1>1, <1>2 DEF SpendInv, Recorded, Backed
  <1>6. /\ r \in Sessions /\ Grows(s, r) /\ y = v \o r.out
        /\ published'[p] = published[p] \cup r.tx
        /\ Leaves(p, r) => x = w
        /\ Reads(p, r) => w # << >> /\ x = Tail(w)
      BY KindAfter
  <1>7. RecordInv(s.ch) /\ RecordInv(t.ch)
      BY <1>2 DEF SessionInv, ChannelInv
  <1>8. r.out \in Seq(Messages)
      BY <1>6, SessionFields
  <1>9. /\ NoBatch(r.out) => Fewer(v, y)
        /\ ~NoBatch(v) => ~NoBatch(y)
        /\ \A sig : NoBatch(v) /\ OneBatch(r.out, sig) => OneBatch(y, sig)
      BY <1>3, <1>6, <1>8, FewerAppended
  <1>10. Kind(p, r)
      OBVIOUS
  <1> DEFINE m == Head(w)
  <1>11. Reads(p, r) /\ m.k = "Batch" =>
            /\ NoBatch(x)
            /\ \E i \in BatchesIn(w) : w[i] = m
    <2>1. Single(w)
        BY <1>4 DEF Together
    <2> QED
        BY <2>1, <1>3, <1>6, FewerTail
  <1>12. Leaves(p, r) \/ Reads(p, r) => Fewer(w, x)
      BY <1>3, <1>6, FewerSelf, FewerTail
  <1>13. Reads(p, r) /\ m.k # "Batch" /\ ~NoBatch(w) => ~NoBatch(x)
      BY <1>3, <1>6, FewerTail
  <1>14. /\ Leaves(p, r) \/ Reads(p, r)
         /\ \/ Rests(s, r) /\ (r.phase = "OffChain" /\ ~NoBatch(w) => ~NoBatch(x))
            \/ Sends(s, r)
            \/ /\ Reads(p, r) /\ m.k = "Batch"
               /\ Receives(s, r, m.sig) \/ Answers(s, r, m.sig) \/ Quits(s, r, m.sig)
    <2>1. CASE Leaves(p, r) /\ (Rests(s, r) \/ Sends(s, r))
        BY <2>1, <1>6
    <2>2. CASE Reads(p, r) /\ m.k # "Batch" /\ (Rests(s, r) \/ Sends(s, r))
        BY <2>2, <1>13
    <2>3. CASE Reads(p, r) /\ m.k = "Batch" /\ Rests(s, r) /\ s.phase # "OffChain"
        BY <2>3 DEF Rests
    <2>4. CASE /\ Reads(p, r) /\ m.k = "Batch"
               /\ Receives(s, r, m.sig) \/ Answers(s, r, m.sig) \/ Quits(s, r, m.sig)
        BY <2>4
    <2> QED
        BY <1>10, <2>1, <2>2, <2>3, <2>4 DEF Kind
  <1>15. Backed(t, r, published[q]) /\ (SpendsKept(s, r) => Backed(r, t, published'[p]))
      BY <1>5, <1>6, StaysBacked
  <1> HIDE DEF s, t, w, v, x, y, m, q
  <1>16. Fewer(w, x)
      BY <1>12, <1>14
  <1>17. Together(r, t, x, y) /\ Backed(r, t, published'[p])
    <2>1. CASE Rests(s, r) /\ (r.phase = "OffChain" /\ ~NoBatch(w) => ~NoBatch(x))
      <3>1. Fewer(v, y) /\ SpendsKept(s, r)
          BY <2>1, <1>9 DEF Rests
      <3> QED
          BY <2>1, <3>1, <1>3, <1>4, <1>9, <1>15, <1>16, RestsTogether
    <2>2. CASE Sends(s, r)
      <3>1. NoBatch(v)
          BY <2>2, <1>4 DEF Sends, Together
      <3>2. OneBatch(y, r.ch.sent) /\ SpendsKept(s, r)
          BY <2>2, <3>1, <1>9 DEF Sends
      <3> QED
          BY <2>2, <3>2, <1>3, <1>4, <1>7, <1>15, <1>16, SendsTogether
    <2>3. CASE /\ Reads(p, r) /\ m.k = "Batch"
               /\ Receives(s, r, m.sig) \/ Answers(s, r, m.sig) \/ Quits(s, r, m.sig)
      <3>1. PICK sig : sig = m.sig
          OBVIOUS
      <3>2. PICK i \in BatchesIn(w) : w[i].sig = sig
          BY <2>3, <3>1, <1>11
      <3>3. NoBatch(x) /\ NoBatch(v)
          BY <2>3, <3>2, <1>4, <1>11, BatchRead
      <3>4. Backed(r, t, published[p] \cup r.tx)
          BY <2>3, <3>1, <3>2, <1>4, <1>5, <1>7, ReadBacked
      <3>5. CASE Receives(s, r, sig)
        <4>1. Fewer(v, y)
            BY <3>5, <1>9 DEF Receives
        <4>2. Together(r, t, x, y)
            BY <3>2, <3>3, <3>5, <4>1, <1>3, <1>4, <1>7, ReceivesTogether
        <4> QED
            BY <4>2, <3>4, <1>6
      <3>6. CASE Answers(s, r, sig)
        <4>1. OneBatch(y, r.ch.sent)
            BY <3>6, <3>3, <1>9 DEF Answers
        <4>2. Together(r, t, x, y)
            BY <3>2, <3>3, <3>6, <4>1, <1>3, <1>4, <1>7, AnswersTogether
        <4> QED
            BY <4>2, <3>4, <1>6
      <3>7. CASE Quits(s, r, sig)
        <4>1. Fewer(v, y)
            BY <3>7, <1>9 DEF Quits
        <4>2. Together(r, t, x, y)
            BY <3>2, <3>3, <3>7, <4>1, <1>3, <1>4, QuitsTogether
        <4> QED
            BY <4>2, <3>4, <1>6
      <3> QED
          BY <2>3, <3>1, <3>5, <3>6, <3>7
    <2> QED
        BY <2>1, <2>2, <2>3, <1>14
  <1> QED
      BY <1>15, <1>17 DEF t, x, y, q

\* A failure is one that was known, or that an accusation came before.
FailsFairly(s, r) ==
    r.phase = "Failed" =>
        s.phase = "Failed" \/ (chain # NoSpend /\ (chain.k = "Unroll" => r.accused))

\* A step of one of the kinds keeps the invariant.
LEMMA KindInv ==
    ASSUME PotatoInv, NEW p \in Party, NEW r, Kind(p, r), FailsFairly(peer[p], r),
           calls' \in [Party -> Nat], UNCHANGED chain
    PROVE  PotatoInv'
  <1> DEFINE q == Other(p)
  <1> DEFINE e == Collected(r)
  <1>1. q \in Party /\ q # p /\ Other(q) = p /\ Other(p) = q /\ \A x \in Party : x = p \/ x = q
      BY OtherParty
  <1>2. /\ r \in Sessions /\ SessionInv(r) /\ r.ch.me = p /\ Grows(peer[p], r)
        /\ peer' = [peer EXCEPT ![p] = e]
        /\ peer'[p] = e /\ peer'[q] = peer[q]
        /\ published' = [published EXCEPT ![p] = @ \cup r.tx]
        /\ published'[p] = published[p] \cup r.tx /\ published'[q] = published[q]
        /\ wire' \in [Party -> Seq(Messages)]
    <2>1. r \in Sessions /\ SessionInv(r) /\ r.ch.me = p /\ Grows(peer[p], r)
        BY KindAfter, Zenon
    <2>2. peer' = [peer EXCEPT ![p] = e] /\ peer'[p] = e /\ peer'[q] = peer[q]
        BY KindAfter, Zenon
    <2>3. published' = [published EXCEPT ![p] = @ \cup r.tx]
      <3>1. Leaves(p, r) \/ Reads(p, r)
          BY DEF Kind
      <3> QED
          BY <3>1 DEF Leaves, Reads
    <2>4. published'[p] = published[p] \cup r.tx /\ published'[q] = published[q]
        BY KindAfter, Zenon
    <2>5. wire' \in [Party -> Seq(Messages)]
        BY KindAfter, Zenon
    <2> QED
        BY <2>1, <2>2, <2>3, <2>4, <2>5, Zenon
  <1>3. /\ e \in Sessions /\ e.ch = r.ch /\ e.phase = r.phase /\ e.accused = r.accused
        /\ e.out = << >> /\ e.tx = {} /\ e.err = FALSE /\ e.blame = FALSE
        /\ SessionInv(e)
      BY <1>2, CollectedType
  <1>4. /\ Together(e, peer[q], wire'[p], wire'[q])
        /\ Backed(e, peer[q], published'[p]) /\ Backed(peer[q], e, published[q])
    <2>1. /\ Together(r, peer[q], wire'[p], wire'[q])
          /\ Backed(r, peer[q], published'[p]) /\ Backed(peer[q], r, published[q])
        BY KindTogether
    <2> QED
        BY <2>1, <1>2, TogetherCollected
  <1> HIDE DEF q, e
  <1>5. TypeInv'
    <2>1. /\ peer \in [Party -> Sessions] /\ published \in [Party -> SUBSET Spends]
          /\ chain = NoSpend \/ chain \in published["alice"] \cup published["bob"]
          /\ \A x \in Party : /\ peer[x].ch.me = x /\ peer[x].out = << >>
                              /\ peer[x].tx = {} /\ peer[x].err = FALSE
                              /\ peer[x].blame = FALSE
        BY DEF PotatoInv, TypeInv
    <2>2. peer' \in [Party -> Sessions]
        BY <2>1, <1>2, <1>3
    <2>3. r.tx \in SUBSET Spends
        BY <1>2, SessionFields
    <2>4. published' \in [Party -> SUBSET Spends]
        BY <2>1, <2>3, <1>2
    <2>5. \A x \in Party : published[x] \subseteq published'[x]
        BY <1>1, <1>2
    <2>6. chain' = NoSpend \/ chain' \in published'["alice"] \cup published'["bob"]
        BY <2>1, <2>5 DEF Party
    <2>7. \A x \in Party : /\ peer'[x].ch.me = x /\ peer'[x].out = << >>
                           /\ peer'[x].tx = {} /\ peer'[x].err = FALSE
                           /\ peer'[x].blame = FALSE
        BY <2>1, <1>1, <1>2, <1>3
    <2> QED
        BY <2>2, <2>4, <2>6, <2>7, <1>2 DEF TypeInv
  <1>6. \A x \in Party : SessionInv(peer[x])'
    <2>1. SessionInv(peer[q])
        BY <1>1 DEF PotatoInv
    <2>2. SessionInv(peer'[p]) /\ SessionInv(peer'[q])
        BY <2>1, <1>2, <1>3
    <2>3. \A x \in Party : SessionInv(peer'[x])
        BY <2>2, <1>1
    <2> QED
        BY <2>3
  <1>7. Exchanged'
    <2>1. TogetherAt(p)'
        BY <1>1, <1>2, <1>4 DEF TogetherAt
    <2> QED
        BY <2>1, TogetherNext DEF TogetherSomewhere
  <1>8. \A x \in Party : SpendInv(x)'
    <2>1. SpendInv(p)'
        BY <1>1, <1>2, <1>4 DEF SpendInv, Recorded, Backed
    <2>2. SpendInv(q)'
        BY <1>1, <1>2, <1>4 DEF SpendInv, Recorded, Backed
    <2> QED
        BY <2>1, <2>2, <1>1
  <1>9. FailedInv' /\ RecognisedUnlessAccused'
    <2>1. \A x \in Party : peer[x].phase = "Failed" =>
              chain # NoSpend /\ (chain.k = "Unroll" => peer[x].accused)
        BY DEF PotatoInv, FailedInv, RecognisedUnlessAccused
    <2>2. r.phase = "Failed" => chain # NoSpend /\ (chain.k = "Unroll" => r.accused)
        BY <2>1, <1>2 DEF FailsFairly, Grows
    <2>3. \A x \in Party : peer'[x].phase = "Failed" =>
              chain # NoSpend /\ (chain.k = "Unroll" => peer'[x].accused)
        BY <2>1, <2>2, <1>1, <1>2, <1>3
    <2> QED
        BY <2>3 DEF FailedInv, RecognisedUnlessAccused
  <1> QED
      BY <1>5, <1>6, <1>7, <1>8, <1>9 DEF PotatoInv, Exchanged

-----------------------------------------------------------------------------

(***************************************************************************)
(* Inside a session: draining the queue.                                   *)
(***************************************************************************)

\* The actions a player may queue.
Own(ch) == {a \in QueueActions : OwnGroup(ch, a)}

\* A sequence whose entries are in T.
LEMMA SeqNarrows ==
    ASSUME NEW S, NEW T, NEW s \in Seq(S), \A i \in DOMAIN s : s[i] \in T
    PROVE  s \in Seq(T)
    OBVIOUS

LEMMA OwnQueue ==
    ASSUME NEW s \in Sessions
    PROVE  QueueInv(s) <=> s.queue \in Seq(Own(s.ch))
  <1>1. s.queue \in Seq(QueueActions)
      BY SessionFields
  <1>2. \A i \in DOMAIN s.queue : s.queue[i] \in QueueActions
      BY <1>1
  <1>3. QueueInv(s) => s.queue \in Seq(Own(s.ch))
    <2> HAVE QueueInv(s)
    <2>1. \A i \in DOMAIN s.queue : s.queue[i] \in Own(s.ch)
        BY <1>2 DEF QueueInv, Own
    <2> QED
        BY <1>1, <2>1, SeqNarrows
  <1>4. s.queue \in Seq(Own(s.ch)) => QueueInv(s)
    <2> HAVE s.queue \in Seq(Own(s.ch))
    <2>1. \A i \in DOMAIN s.queue : s.queue[i] \in Own(s.ch)
        OBVIOUS
    <2> QED
        BY <2>1 DEF QueueInv, Own
  <1> QED
      BY <1>3, <1>4

LEMMA OwnSame ==
    ASSUME NEW c, NEW d, d.my_nonce = c.my_nonce
    PROVE  /\ Own(d) = Own(c)
           /\ \A id : IsOurNonceParity(d, id) <=> IsOurNonceParity(c, id)
    BY DEF Own, OwnGroup, IsOurNonceParity

\* Which action it is tells its fields.
LEMMA ActionFields ==
    ASSUME NEW a \in QueueActions
    PROVE  /\ a.k \in {"Move", "Cheat", "AcceptSettlement", "AcceptProposal",
                       "CancelProposal", "CleanShutdown", "ProposeGroup"}
           /\ a.k \in {"Move", "Cheat"} => a.id \in Nat /\ a.mv \in Moves
           /\ a.k \in {"AcceptSettlement", "AcceptProposal", "CancelProposal"} => a.id \in Nat
           /\ a.k = "CancelProposal" => a.silent \in BOOLEAN
           /\ a.k = "ProposeGroup" => a \in ProposeGroups
    BY DEF QueueActions, ProposeGroups

Drains ==
    [ch : Channels, told : SUBSET Nat, dup : BOOLEAN, batch : Seq(BatchActions),
     deferred : Seq(QueueActions), rest : Seq(QueueActions), clean : Shutdowns,
     err : BOOLEAN, blame : BOOLEAN]

\* The queue of a channel c is being drained into d.
Draining(c, d) ==
    /\ d \in Drains /\ Keeps(c, d.ch)
    /\ d.deferred \in Seq(Own(c)) /\ d.rest \in Seq(Own(c))
    /\ d.batch = << >> => d.ch.bal = c.bal /\ d.ch.live = c.live
    /\ Untouched(c) => Untouched(d.ch)

LEMMA DrainFields ==
    ASSUME NEW d \in Drains
    PROVE  /\ d.ch \in Channels /\ d.told \in SUBSET Nat /\ d.dup \in BOOLEAN
           /\ d.batch \in Seq(BatchActions) /\ d.deferred \in Seq(QueueActions)
           /\ d.rest \in Seq(QueueActions) /\ d.clean \in Shutdowns /\ d.err \in BOOLEAN
           /\ d.blame \in BOOLEAN
    BY DEF Drains

LEMMA DrainPush ==
    ASSUME NEW c, NEW d, Draining(c, d), NEW ch, Keeps(c, ch), Untouched(c) => Untouched(ch),
           NEW a \in BatchActions
    PROVE  Draining(c, Push(d, ch, a))
  <1> DEFINE b == Append(d.batch, a)
  <1> DEFINE e == [d EXCEPT !.ch = ch, !.batch = b]
  <1>1. d \in Drains /\ ch \in Channels
      BY DEF Draining, Keeps
  <1>2. d.batch \in Seq(BatchActions)
      BY <1>1, DrainFields
  <1>3. b \in Seq(BatchActions) /\ b # << >>
      BY <1>2
  <1>4. Push(d, ch, a) = e
      BY DEF Push
  <1> HIDE DEF b
  <1>5. /\ e \in Drains /\ e.ch = ch /\ e.batch = b /\ e.deferred = d.deferred
        /\ e.rest = d.rest
      BY <1>1, <1>3 DEF Drains
  <1> HIDE DEF e
  <1> QED
      BY <1>3, <1>4, <1>5 DEF Draining

LEMMA DrainTell ==
    ASSUME NEW c, NEW d, Draining(c, d), NEW ids \in SUBSET Nat
    PROVE  Draining(c, Tell(d, ids)) /\ Tell(d, ids).ch = d.ch
  <1> DEFINE tl == d.told \cup ids
  <1> DEFINE dp == d.dup \/ ids \cap d.told # {}
  <1> DEFINE e == [d EXCEPT !.dup = dp, !.told = tl]
  <1>1. d \in Drains
      BY DEF Draining
  <1>2. tl \in SUBSET Nat
      BY <1>1, DrainFields
  <1>3. dp \in BOOLEAN
      BY <1>1, DrainFields
  <1>4. Tell(d, ids) = e
      BY DEF Tell
  <1> HIDE DEF tl, dp
  <1>5. /\ e \in Drains /\ e.ch = d.ch /\ e.batch = d.batch /\ e.deferred = d.deferred
        /\ e.rest = d.rest
      BY <1>1, <1>2, <1>3 DEF Drains
  <1> HIDE DEF e
  <1> QED
      BY <1>4, <1>5 DEF Draining

LEMMA DrainFail ==
    ASSUME NEW c, NEW d, Draining(c, d), NEW b \in BOOLEAN
    PROVE  Draining(c, Fail(d, b))
  <1> DEFINE e == [d EXCEPT !.err = TRUE, !.blame = b]
  <1>1. d \in Drains
      BY DEF Draining
  <1>2. /\ e \in Drains /\ e.ch = d.ch /\ e.batch = d.batch /\ e.deferred = d.deferred
        /\ e.rest = d.rest
      BY <1>1 DEF Drains
  <1>3. Fail(d, b) = e
      BY DEF Fail
  <1> HIDE DEF e
  <1> QED
      BY <1>2, <1>3 DEF Draining

LEMMA DrainSetAside ==
    ASSUME NEW c, NEW d, Draining(c, d), NEW a \in Own(c)
    PROVE  /\ Draining(c, [d EXCEPT !.deferred = Append(@, a)])
           /\ Draining(c, [d EXCEPT !.rest = Append(@, a)])
  <1> DEFINE df == Append(d.deferred, a)
  <1> DEFINE rs == Append(d.rest, a)
  <1> DEFINE e == [d EXCEPT !.deferred = df]
  <1> DEFINE f == [d EXCEPT !.rest = rs]
  <1>1. d \in Drains /\ d.deferred \in Seq(Own(c)) /\ d.rest \in Seq(Own(c))
      BY DEF Draining
  <1>2. df \in Seq(Own(c)) /\ rs \in Seq(Own(c))
      BY <1>1, AppendType
  <1>3. df \in Seq(QueueActions) /\ rs \in Seq(QueueActions)
    <2>1. a \in QueueActions
        BY DEF Own
    <2> QED
        BY <1>1, <2>1, DrainFields, AppendType
  <1> HIDE DEF df, rs
  <1>4. /\ e \in Drains /\ e.ch = d.ch /\ e.batch = d.batch /\ e.deferred = df
        /\ e.rest = d.rest
      BY <1>1, <1>3 DEF Drains
  <1>5. /\ f \in Drains /\ f.ch = d.ch /\ f.batch = d.batch /\ f.deferred = d.deferred
        /\ f.rest = rs
      BY <1>1, <1>3 DEF Drains
  <1> HIDE DEF e, f
  <1>6. Draining(c, e) /\ Draining(c, f)
      BY <1>2, <1>4, <1>5 DEF Draining
  <1> QED
      BY <1>6 DEF e, f, df, rs

\* What is live or proposed by the peer has come from the peer.
LEMMA TouchedBy ==
    ASSUME NEW ch, Untouched(ch), NEW id
    PROVE  id \notin Ids(ch.live) /\ (id \in Ids(ch.proposed) => IsOurNonceParity(ch, id))
  <1>1. DOMAIN << >> = {}
      OBVIOUS
  <1> QED
      BY <1>1 DEF Untouched, Ids

LEMMA DrainMoveKeeps ==
    ASSUME NEW c, NEW d, Draining(c, d), NEW a \in Own(c), a.k \in {"Move", "Cheat"}
    PROVE  Draining(c, DrainMove(d, a))
  <1>1. a.id \in Nat /\ a.mv \in Moves /\ d.ch \in Channels /\ Keeps(c, d.ch) /\ LedgerInv(d.ch)
      BY ActionFields DEF Own, Draining, Keeps
  <1>2. Draining(c, [d EXCEPT !.deferred = Append(@, a)])
      BY DrainSetAside
  <1>3. Draining(c, Fail(d, a.k = "Move"))
    <2>1. (a.k = "Move") \in BOOLEAN
        OBVIOUS
    <2> QED
        BY <2>1, DrainFail, Zenon
  <1>4. ASSUME CanMove(d.ch, a.id)
        PROVE  Draining(c, Push(d, SendMove(d.ch, a.id, a.mv),
                                [k |-> "Move", id |-> a.id, mv |-> a.mv]))
    <2> DEFINE e == SendMove(d.ch, a.id, a.mv)
    <2> DEFINE b == [k |-> "Move", id |-> a.id, mv |-> a.mv]
    <2>1. a.id \in Ids(d.ch.live)
        BY <1>4 DEF CanMove
    <2>2. Keeps(d.ch, e)
        BY <1>1, <2>1, MoveKeeps
    <2>3. b \in BatchActions
        BY <1>1 DEF BatchActions
    <2>4. ~Untouched(c)
        BY <2>1, TouchedBy DEF Draining
    <2> HIDE DEF e, b
    <2>5. Keeps(c, e)
        BY <1>1, <2>2, KeepsTrans
    <2>6. Draining(c, Push(d, e, b))
        BY <2>3, <2>4, <2>5, DrainPush
    <2> QED
        BY <2>6 DEF e, b
  <1> QED
      BY <1>2, <1>3, <1>4 DEF DrainMove

LEMMA DrainAcceptSettlementKeeps ==
    ASSUME NEW c, NEW d, Draining(c, d), NEW a \in Own(c), a.k = "AcceptSettlement"
    PROVE  Draining(c, DrainAcceptSettlement(d, a))
  <1>1. a.id \in Nat /\ d.ch \in Channels /\ Keeps(c, d.ch) /\ LedgerInv(d.ch)
      BY ActionFields DEF Own, Draining, Keeps
  <1>2. Draining(c, Fail(d, TRUE))
      BY DrainFail, Zenon
  <1>3. ASSUME CanSettle(d.ch, a.id)
        PROVE  Draining(c, Push(d, SendAcceptSettlement(d.ch, a.id),
                                [k |-> "AcceptSettlement", id |-> a.id]))
    <2> DEFINE e == SendAcceptSettlement(d.ch, a.id)
    <2> DEFINE b == [k |-> "AcceptSettlement", id |-> a.id]
    <2>1. a.id \in Ids(d.ch.live)
        BY <1>3 DEF CanSettle
    <2>2. Keeps(d.ch, e)
        BY <1>1, <2>1, SendSettleKeeps
    <2>3. b \in BatchActions
        BY <1>1 DEF BatchActions
    <2>4. ~Untouched(c)
        BY <2>1, TouchedBy DEF Draining
    <2> HIDE DEF e, b
    <2>5. Keeps(c, e)
        BY <1>1, <2>2, KeepsTrans
    <2>6. Draining(c, Push(d, e, b))
        BY <2>3, <2>4, <2>5, DrainPush
    <2> QED
        BY <2>6 DEF e, b
  <1> QED
      BY <1>2, <1>3 DEF DrainAcceptSettlement

LEMMA DrainProposeGroupKeeps ==
    ASSUME NEW c, NEW d, Draining(c, d), NEW a \in Own(c), a.k = "ProposeGroup"
    PROVE  Draining(c, DrainProposeGroup(d, a))
  <1> DEFINE games == Members(a.t, a.ids, d.ch.me)
  <1> DEFINE e == SendProposeGames(d.ch, games)
  <1> DEFINE b == [k |-> "ProposeGroup", t |-> a.t, ids |-> a.ids]
  <1>1. d.ch \in Channels /\ Keeps(c, d.ch) /\ LedgerInv(d.ch) /\ a \in ProposeGroups
      BY ActionFields DEF Own, Draining, Keeps
  <1>2. d.ch.me \in Party /\ d.ch.proposed \in Seq(Games)
      BY <1>1, ChannelFields
  <1>3. /\ games \in Seq(Games) /\ Len(games) = Len(a.ids) /\ Len(a.ids) # 0
        /\ \A i \in 1..Len(a.ids) : games[i].id = a.ids[i]
      BY <1>1, <1>2, MembersType
  <1>4. b \in BatchActions
      BY <1>1 DEF BatchActions, ProposeGroups
  <1>5. DrainProposeGroup(d, a) = Push(d, e, b)
      BY DEF DrainProposeGroup
  <1> HIDE DEF games, b
  <1>6. games # << >>
      BY <1>3
  <1>7. Keeps(d.ch, e) /\ e.live = d.ch.live /\ e.proposed = d.ch.proposed \o games
      BY <1>1, <1>3, <1>6, ProposeKeeps
  <1> HIDE DEF e
  <1>8. Keeps(c, e)
      BY <1>1, <1>7, KeepsTrans
  <1>9. /\ \A id : IsOurNonceParity(e, id) <=> IsOurNonceParity(d.ch, id)
        /\ \A id : IsOurNonceParity(e, id) <=> IsOurNonceParity(c, id)
      BY <1>7, <1>8, OwnSame DEF Keeps, Control
  <1>10. \A i \in DOMAIN games : IsOurNonceParity(e, games[i].id)
    <2>1. \A j \in DOMAIN a.ids : IsOurNonceParity(c, a.ids[j])
        BY DEF Own, OwnGroup
    <2>2. DOMAIN games = 1..Len(a.ids) /\ DOMAIN a.ids = 1..Len(a.ids)
        BY <1>1, <1>3 DEF ProposeGroups
    <2> QED
        BY <2>1, <2>2, <1>3, <1>9
  <1>11. Untouched(d.ch) => Untouched(e)
    <2> HAVE Untouched(d.ch)
    <2> DEFINE ps == d.ch.proposed
    <2>1. ps \in Seq(Games) /\ \A i \in DOMAIN ps : IsOurNonceParity(e, ps[i].id)
        BY <1>2, <1>9 DEF Untouched
    <2> HIDE DEF ps
    <2>2. /\ ps \o games \in Seq(Games) /\ Len(ps \o games) = Len(ps) + Len(games)
          /\ \A i \in DOMAIN (ps \o games) :
                (ps \o games)[i] = IF i <= Len(ps) THEN ps[i] ELSE games[i - Len(ps)]
      <3>1. ps \in Seq(Games) /\ games \in Seq(Games)
          BY <2>1, <1>3
      <3> QED
          BY <3>1, ConcatType, Zenon
    <2>3. ASSUME NEW i \in DOMAIN (ps \o games)
          PROVE  IsOurNonceParity(e, (ps \o games)[i].id)
      <3>1. (ps \o games)[i] = IF i <= Len(ps) THEN ps[i] ELSE games[i - Len(ps)]
          BY <2>2, Zenon
      <3>2. i \in 1..(Len(ps) + Len(games)) /\ Len(ps) \in Nat /\ Len(games) \in Nat
          BY <2>1, <2>2, <1>3
      <3>3. CASE i <= Len(ps)
        <4>1. i \in DOMAIN ps
            BY <3>2, <3>3, <2>1
        <4> QED
            BY <4>1, <3>1, <3>3, <2>1
      <3>4. CASE ~(i <= Len(ps))
        <4>1. i - Len(ps) \in DOMAIN games
            BY <3>2, <3>4, <1>3
        <4> QED
            BY <4>1, <3>1, <3>4, <1>10
      <3> QED
          BY <3>3, <3>4
    <2> QED
        BY <2>3, <1>7 DEF Untouched, ps
  <1>12. Draining(c, Push(d, e, b))
      BY <1>4, <1>8, <1>11, DrainPush DEF Draining
  <1> QED
      BY <1>5, <1>12

\* A proposal is taken from the table.
LEMMA RemoveUntouched ==
    ASSUME NEW ch \in Channels, LedgerInv(ch), NEW id \in Ids(ch.proposed), Untouched(ch)
    PROVE  Untouched(RemoveProposal(ch, id))
  <1> DEFINE e == RemoveProposal(ch, id)
  <1>1. /\ Keeps(ch, e) /\ e.live = ch.live
        /\ \A i \in DOMAIN e.proposed :
              \E j \in DOMAIN ch.proposed : e.proposed[i] = ch.proposed[j]
      BY RemoveKeeps
  <1> HIDE DEF e
  <1>2. \A x : IsOurNonceParity(e, x) <=> IsOurNonceParity(ch, x)
      BY <1>1, OwnSame DEF Keeps, Control
  <1>3. Untouched(e)
      BY <1>1, <1>2 DEF Untouched
  <1> QED
      BY <1>3 DEF e

LEMMA DrainCancelKeeps ==
    ASSUME NEW c, NEW d, NEW ch, ch = d.ch, Draining(c, d), NEW id \in Ids(ch.proposed)
    PROVE  Draining(c, Push(d, RemoveProposal(ch, id), [k |-> "CancelProposal", id |-> id]))
  <1> DEFINE e == RemoveProposal(ch, id)
  <1> DEFINE b == [k |-> "CancelProposal", id |-> id]
  <1>1. ch \in Channels /\ Keeps(c, ch) /\ LedgerInv(ch)
      BY DEF Draining, Keeps
  <1>2. id \in Nat
      BY <1>1, ChannelFields, IndexType
  <1>3. b \in BatchActions
      BY <1>2 DEF BatchActions
  <1>4. Keeps(ch, e)
      BY <1>1, RemoveKeeps
  <1>5. Untouched(c) => Untouched(e)
      BY <1>1, RemoveUntouched DEF Draining
  <1> HIDE DEF e, b
  <1>6. Keeps(c, e)
      BY <1>1, <1>4, KeepsTrans
  <1>7. Draining(c, Push(d, e, b))
      BY <1>3, <1>5, <1>6, DrainPush
  <1> QED
      BY <1>7 DEF e, b

LEMMA DrainAcceptProposalKeeps ==
    ASSUME NEW c, NEW d, Draining(c, d), NEW a \in Own(c), a.k = "AcceptProposal"
    PROVE  Draining(c, DrainAcceptProposal(d, a))
  <1> DEFINE ch == d.ch
  <1> DEFINE id == a.id
  <1> DEFINE told == Tell(d, {id})
  <1>1. id \in Nat /\ ch \in Channels /\ Keeps(c, ch) /\ LedgerInv(ch)
      BY ActionFields DEF Own, Draining, Keeps
  <1>2. Draining(c, Fail(d, FALSE))
      BY DrainFail, Zenon
  <1>3. Draining(c, told) /\ ch = told.ch
    <2>1. {id} \in SUBSET Nat
        BY <1>1
    <2> QED
        BY <2>1, DrainTell
  <1>4. DrainAcceptProposal(d, a) =
            IF ~IsProposed(ch, id) \/ IsOurNonceParity(ch, id) THEN Fail(d, FALSE)
            ELSE IF CanAccept(ch, id)
            THEN Push(told, SendAcceptProposal(ch, id), [k |-> "AcceptProposal", id |-> id])
            ELSE Push(told, RemoveProposal(ch, id), [k |-> "CancelProposal", id |-> id])
      BY DEF DrainAcceptProposal
  <1>5. Untouched(c) => Untouched(ch)
      BY DEF Draining
  <1> HIDE DEF ch, id, told
  <1>6. ASSUME IsProposed(ch, id), ~IsOurNonceParity(ch, id), CanAccept(ch, id)
        PROVE  Draining(c, Push(told, SendAcceptProposal(ch, id),
                                [k |-> "AcceptProposal", id |-> id]))
    <2> DEFINE e == SendAcceptProposal(ch, id)
    <2> DEFINE b == [k |-> "AcceptProposal", id |-> id]
    <2>1. id \in Ids(ch.proposed) /\ Covers(ch.bal, Find(ch.proposed, id).contrib)
        BY <1>6 DEF CanAccept, IsProposed
    <2>2. Keeps(ch, e)
        BY <1>1, <2>1, SendAcceptKeeps
    <2>3. b \in BatchActions
        BY <1>1 DEF BatchActions
    <2>4. ~Untouched(c)
        BY <2>1, <1>5, <1>6, TouchedBy
    <2> HIDE DEF e, b
    <2>5. Keeps(c, e)
        BY <1>1, <2>2, KeepsTrans
    <2>6. Draining(c, Push(told, e, b))
        BY <2>3, <2>4, <2>5, <1>3, DrainPush
    <2> QED
        BY <2>6 DEF e, b
  <1>7. ASSUME IsProposed(ch, id)
        PROVE  Draining(c, Push(told, RemoveProposal(ch, id),
                                [k |-> "CancelProposal", id |-> id]))
      BY <1>3, <1>7, DrainCancelKeeps DEF IsProposed
  <1> QED
      BY <1>2, <1>4, <1>6, <1>7

LEMMA DrainCancelProposalKeeps ==
    ASSUME NEW c, NEW d, Draining(c, d), NEW a \in Own(c), a.k = "CancelProposal"
    PROVE  Draining(c, DrainCancelProposal(d, a))
  <1> DEFINE ch == d.ch
  <1> DEFINE id == a.id
  <1> DEFINE told == IF a.silent THEN d ELSE Tell(d, {id})
  <1>1. id \in Nat
      BY ActionFields DEF Own
  <1>2. Draining(c, Fail(d, FALSE))
      BY DrainFail, Zenon
  <1>3. Draining(c, told) /\ ch = told.ch
    <2>1. {id} \in SUBSET Nat
        BY <1>1
    <2>2. Draining(c, Tell(d, {id})) /\ Tell(d, {id}).ch = d.ch
        BY <2>1, DrainTell
    <2> QED
        BY <2>2
  <1>4. DrainCancelProposal(d, a) =
            IF ~IsProposed(ch, id) THEN Fail(d, FALSE)
            ELSE Push(told, RemoveProposal(ch, id), [k |-> "CancelProposal", id |-> id])
      BY DEF DrainCancelProposal
  <1> HIDE DEF ch, id, told
  <1>5. ASSUME IsProposed(ch, id)
        PROVE  Draining(c, Push(told, RemoveProposal(ch, id),
                                [k |-> "CancelProposal", id |-> id]))
      BY <1>3, <1>5, DrainCancelKeeps DEF IsProposed
  <1> QED
      BY <1>2, <1>4, <1>5

LEMMA IdsType ==
    ASSUME NEW games \in Seq(Games)
    PROVE  Ids(games) \in SUBSET Nat
  <1>1. \A i \in DOMAIN games : games[i] \in Games
      OBVIOUS
  <1> QED
      BY <1>1, GameFields DEF Ids

LEMMA DrainCleanShutdownKeeps ==
    ASSUME NEW c, NEW d, Draining(c, d)
    PROVE  Draining(c, DrainCleanShutdown(d))
  <1> DEFINE t == Tell(d, Ids(d.ch.proposed))
  <1> DEFINE ch == CancelAllProposals(t.ch)
  <1> DEFINE cl == CleanSpend(d.ch.bal)
  <1> DEFINE e == [t EXCEPT !.ch = ch, !.clean = cl]
  <1>1. d.ch \in Channels /\ Keeps(c, d.ch) /\ LedgerInv(d.ch)
      BY DEF Draining, Keeps
  <1>2. Draining(c, Fail(d, FALSE))
      BY DrainFail, Zenon
  <1>3. d.ch.bal \in [Party -> Nat] /\ Ids(d.ch.proposed) \in SUBSET Nat
      BY <1>1, ChannelFields, IdsType
  <1>4. Draining(c, t) /\ t.ch = d.ch
      BY <1>3, DrainTell
  <1>5. cl \in Shutdowns
      BY <1>3 DEF CleanSpend, Shutdowns
  <1>6. Keeps(d.ch, ch) /\ ch.live = d.ch.live /\ ch.bal = d.ch.bal /\ ch.proposed = << >>
      BY <1>1, <1>4, CancelAllKeeps
  <1>7. DrainCleanShutdown(d) = IF HasActiveGames(d.ch) THEN Fail(d, FALSE) ELSE e
      BY DEF DrainCleanShutdown
  <1> HIDE DEF t, ch, cl
  <1>8. Keeps(c, ch) /\ ch \in Channels
      BY <1>1, <1>6, KeepsTrans DEF Keeps
  <1>9. /\ e \in Drains /\ e.ch = ch /\ e.batch = t.batch /\ e.deferred = t.deferred
        /\ e.rest = t.rest
      BY <1>4, <1>5, <1>8 DEF Draining, Drains
  <1> HIDE DEF e
  <1>10. Untouched(c) => Untouched(ch)
      BY <1>4, <1>6 DEF Draining, Untouched
  <1>11. Draining(c, e)
      BY <1>4, <1>6, <1>8, <1>9, <1>10 DEF Draining
  <1> QED
      BY <1>2, <1>7, <1>11

\* Every step of the drain keeps the channel's books.
LEMMA DrainStepKeeps ==
    ASSUME NEW c, NEW d, Draining(c, d), NEW a \in Own(c)
    PROVE  Draining(c, DrainStep(d, a))
  <1>1. CASE d.err
      BY <1>1, DrainSetAside DEF DrainStep
  <1>2. CASE ~d.err
    <2>1. a.k \in {"Move", "Cheat", "AcceptSettlement", "AcceptProposal",
                   "CancelProposal", "CleanShutdown", "ProposeGroup"}
        BY ActionFields DEF Own
    <2>2. CASE a.k \in {"Move", "Cheat"}
        BY <1>2, <2>2, DrainMoveKeeps DEF DrainStep
    <2>3. CASE a.k = "AcceptSettlement"
        BY <1>2, <2>3, DrainAcceptSettlementKeeps DEF DrainStep
    <2>4. CASE a.k = "ProposeGroup"
        BY <1>2, <2>4, DrainProposeGroupKeeps DEF DrainStep
    <2>5. CASE a.k = "AcceptProposal"
        BY <1>2, <2>5, DrainAcceptProposalKeeps DEF DrainStep
    <2>6. CASE a.k = "CancelProposal"
        BY <1>2, <2>6, DrainCancelProposalKeeps DEF DrainStep
    <2>7. CASE a.k = "CleanShutdown"
        BY <1>2, <2>7, DrainCleanShutdownKeeps DEF DrainStep
    <2> QED
        BY <2>1, <2>2, <2>3, <2>4, <2>5, <2>6, <2>7
  <1> QED
      BY <1>1, <1>2

\* Whatever a step keeps holds at the end of a run of steps.
LEMMA RunStays ==
    ASSUME NEW n \in Nat, NEW S, NEW g, g[0] \in S,
           \A i \in 1..n : g[i - 1] \in S => g[i] \in S
    PROVE  g[n] \in S
  <1> DEFINE T == {i \in 0..n : g[i] \in S}
  <1>1. 0 \in T /\ \A i \in 1..n : i - 1 \in T => i \in T
      OBVIOUS
  <1> HIDE DEF T
  <1>2. \A i \in 0..n : i \in T
      BY <1>1, AlongIndices
  <1> QED
      BY <1>2 DEF T

FreshDrain(s) ==
    [ch |-> s.ch, told |-> s.told, dup |-> s.dup, batch |-> << >>, deferred |-> << >>,
     rest |-> << >>, clean |-> NoSpend, err |-> FALSE, blame |-> FALSE]

DrainRun(f, b, q) ==
    f = [i \in 0..Len(q) |-> IF i = 0 THEN b ELSE DrainStep(f[i - 1], q[i])]

LEMMA DrainRunExists ==
    ASSUME NEW c, NEW b, Draining(c, b), NEW q \in Seq(Own(c))
    PROVE  \E f : DrainRun(f, b, q)
  <1> DEFINE n == Len(q)
  <1> DEFINE S == {d \in Drains : Draining(c, d)}
  <1> DEFINE F == [x \in S \X (1..n) |-> DrainStep(x[1], q[x[2]])]
  <1>1. n \in Nat /\ \A i \in 1..n : q[i] \in Own(c)
      OBVIOUS
  <1>2. b \in S
      BY DEF Draining
  <1>3. F \in [S \X (1..n) -> S]
    <2> SUFFICES ASSUME NEW x \in S \X (1..n) PROVE DrainStep(x[1], q[x[2]]) \in S
        BY Zenon
    <2>1. x[1] \in S /\ x[2] \in 1..n
        OBVIOUS
    <2>2. Draining(c, x[1]) /\ q[x[2]] \in Own(c)
        BY <2>1, <1>1
    <2>3. Draining(c, DrainStep(x[1], q[x[2]]))
        BY <2>2, DrainStepKeeps, Zenon
    <2> QED
        BY <2>3 DEF Draining
  <1>4. \A x \in S, i \in 1..n : F[<<x, i>>] = DrainStep(x, q[i])
    <2> SUFFICES ASSUME NEW x \in S, NEW i \in 1..n PROVE F[<<x, i>>] = DrainStep(x, q[i])
        BY Zenon
    <2>1. <<x, i>> \in S \X (1..n) /\ <<x, i>>[1] = x /\ <<x, i>>[2] = i
        OBVIOUS
    <2> QED
        BY <2>1, Zenon
  <1> HIDE DEF F, S, n
  <1>5. Steps(n, S, b, F)
      BY <1>1, <1>2, <1>3, Zenon DEF Steps
  <1>6. PICK f : Folds(f, n, S, b, F)
      BY <1>5, FoldExists, Zenon
  <1>7. \A i \in 0..n : f[i] = IF i = 0 THEN b ELSE DrainStep(f[i - 1], q[i])
    <2> SUFFICES ASSUME NEW i \in 0..n
                 PROVE  f[i] = IF i = 0 THEN b ELSE DrainStep(f[i - 1], q[i])
        BY Zenon
    <2>1. CASE i = 0
        BY <2>1, <1>6, Zenon DEF Folds
    <2>2. CASE i # 0
      <3>1. i \in 1..n /\ i - 1 \in 0..n
          BY <2>2, <1>1
      <3>2. f[i] = F[<<f[i - 1], i>>] /\ f[i - 1] \in S
          BY <3>1, <1>6, Zenon DEF Folds
      <3> QED
          BY <3>1, <3>2, <2>2, <1>4, Zenon
    <2> QED
        BY <2>1, <2>2
  <1>8. f = [i \in 0..n |-> f[i]]
      BY <1>6 DEF Folds
  <1>9. f = [i \in 0..n |-> IF i = 0 THEN b ELSE DrainStep(f[i - 1], q[i])]
      BY <1>7, <1>8
  <1> QED
      BY <1>9 DEF DrainRun, n

\* The queue is drained into a batch.
LEMMA Drained ==
    ASSUME NEW s \in Sessions, QueueInv(s), LedgerInv(s.ch)
    PROVE  \E d : Draining(s.ch, d) /\ DrainQueueIntoBatch(s) = PackageBatch(s, d)
  <1> DEFINE b == FreshDrain(s)
  <1> DEFINE q == s.queue
  <1> DEFINE c == s.ch
  <1>1. q \in Seq(Own(c))
      BY OwnQueue
  <1>2. Draining(c, b)
    <2>1. c \in Channels /\ s.told \in SUBSET Nat /\ s.dup \in BOOLEAN
        BY SessionFields
    <2>2. << >> \in Seq(Own(c)) /\ << >> \in Seq(QueueActions) /\ << >> \in Seq(BatchActions)
        OBVIOUS
    <2>3. /\ b \in Drains /\ b.ch = c /\ b.deferred = << >> /\ b.rest = << >>
        BY <2>1, <2>2 DEF FreshDrain, Drains, Shutdowns
    <2>4. Keeps(c, c)
        BY <2>1 DEF Keeps, Control
    <2> HIDE DEF b
    <2> QED
        BY <2>2, <2>3, <2>4 DEF Draining
  <1> DEFINE g == CHOOSE g : DrainRun(g, b, q)
  <1>3. DrainRun(g, b, q)
      BY <1>1, <1>2, DrainRunExists, Zenon
  <1>4. DrainQueueIntoBatch(s) = PackageBatch(s, g[Len(q)])
      BY DEF DrainQueueIntoBatch, DrainRun, FreshDrain
  <1> HIDE DEF g, b, q, c
  <1> DEFINE n == Len(q)
  <1>5. n \in Nat /\ \A i \in 1..n : q[i] \in Own(c)
      BY <1>1
  <1>6. \A i \in 0..n : g[i] = IF i = 0 THEN b ELSE DrainStep(g[i - 1], q[i])
      BY <1>3 DEF DrainRun
  <1> DEFINE S == {d \in Drains : Draining(c, d)}
  <1>7. g[0] \in S
    <2>1. g[0] = b
        BY <1>5, <1>6
    <2> QED
        BY <2>1, <1>2 DEF Draining
  <1>8. ASSUME NEW i \in 1..n, g[i - 1] \in S PROVE g[i] \in S
    <2>1. g[i] = DrainStep(g[i - 1], q[i])
        BY <1>5, <1>6
    <2>2. Draining(c, g[i - 1]) /\ q[i] \in Own(c)
        BY <1>5, <1>8
    <2>3. Draining(c, DrainStep(g[i - 1], q[i]))
        BY <2>2, DrainStepKeeps, Zenon
    <2> QED
        BY <2>1, <2>3 DEF Draining
  <1>9. g[n] \in S
    <2> HIDE DEF S, n
    <2> QED
        BY <1>5, <1>7, <1>8, RunStays
  <1> QED
      BY <1>4, <1>9 DEF c, q

-----------------------------------------------------------------------------
(***************************************************************************)
(* Inside a session: sending.                                              *)
(***************************************************************************)
Frame(s, r) ==
    r.phase = s.phase /\ r.spend = s.spend /\ r.accused = s.accused /\ r.tx = s.tx

\* Nothing is sent.
Idle(s, r) ==
    /\ r \in Sessions /\ SessionInv(r) /\ Frame(s, r) /\ Steady(s.ch, r.ch)
    /\ r.have_potato = s.have_potato /\ r.out = s.out

\* A batch is sent, and the potato with it.
Sent(s, r) ==
    /\ r \in Sessions /\ SessionInv(r) /\ Frame(s, r) /\ Gives(s.ch, r.ch)
    /\ r.have_potato = "Absent" /\ r.err = s.err
    /\ \E m \in Batches : m.sig = r.ch.sent /\ r.out = Append(s.out, m)

LEMMA SentBatch ==
    ASSUME NEW s \in Sessions, ChannelInv(s.ch), QueueInv(s),
           NEW actions \in Seq(BatchActions), NEW clean \in Shutdowns
    PROVE  Sent(s, SendBatch(s, actions, clean))
  <1> DEFINE ch == UpdateCachedUnrollState(s.ch)
  <1> DEFINE m == [k |-> "Batch", actions |-> actions, sig |-> ch.sent, clean |-> clean]
  <1> DEFINE o == Append(s.out, m)
  <1> DEFINE r == [s EXCEPT !.ch = ch, !.have_potato = "Absent", !.out = o]
  <1>1. s.ch \in Channels /\ s.out \in Seq(Messages)
      BY SessionFields
  <1>2. /\ ch \in Channels /\ ChannelInv(ch) /\ Gave(s.ch, ch)
        /\ ch.live = s.ch.live /\ ch.bal = s.ch.bal
      BY <1>1, GaveState
  <1>3. SendBatch(s, actions, clean) = r
    <2>1. [s EXCEPT !.ch = ch, !.have_potato = "Absent"].out = s.out
        BY DEF Sessions
    <2> QED
        BY <2>1 DEF SendBatch, Send
  <1> HIDE DEF ch
  <1>4. m \in Batches /\ m.sig = ch.sent
      BY <1>2, ChannelFields DEF Batches
  <1> HIDE DEF m
  <1>5. o \in Seq(Messages)
    <2>1. m \in Messages
        BY <1>4 DEF Messages
    <2> QED
        BY <2>1, <1>1, AppendType
  <1> HIDE DEF o
  <1>6. /\ r \in Sessions /\ r.ch = ch /\ r.have_potato = "Absent" /\ r.out = o
        /\ r.phase = s.phase /\ r.spend = s.spend /\ r.accused = s.accused /\ r.tx = s.tx
        /\ r.queue = s.queue /\ r.err = s.err
      BY <1>2, <1>5 DEF Sessions
  <1> HIDE DEF r
  <1>7. Gives(s.ch, ch) /\ ch.sent.bal = ch.bal /\ ch.sent.games = ch.live
    <2>1. LET x == Commitment(s.ch, s.ch.sn + 1)
          IN  x.sn = s.ch.sn + 1 /\ x.bal = s.ch.bal /\ x.games = s.ch.live
        BY <1>1, CommitmentType
    <2> QED
        BY <2>1, <1>2 DEF Gave, Gives
  <1>8. QueueInv(r)
    <2>1. \A a : OwnGroup(s.ch, a) <=> OwnGroup(ch, a)
        BY <1>2 DEF Gave, OwnGroup, IsOurNonceParity
    <2> QED
        BY <2>1, <1>6 DEF QueueInv
  <1>9. FlagsInv(r) /\ HeldInv(r)
      BY <1>2, <1>6, <1>7 DEF FlagsInv, HeldInv, Present, Gave
  <1>10. SessionInv(r)
      BY <1>2, <1>6, <1>8, <1>9 DEF SessionInv, PlayInv
  <1> QED
      BY <1>3, <1>4, <1>6, <1>7, <1>10 DEF Sent, Frame, o

LEMMA PlayerFields ==
    ASSUME NEW s \in Sessions, SessionInv(s), s.phase = "OffChain"
    PROVE  ChannelInv(s.ch) /\ LedgerInv(s.ch) /\ RecordInv(s.ch) /\ QueueInv(s)
           /\ FlagsInv(s) /\ HeldInv(s)
    BY DEF SessionInv, ChannelInv, PlayInv

\* Channels between which nothing was exchanged.
LEMMA KeepsChannel ==
    ASSUME NEW c, NEW d, Keeps(c, d), RecordInv(c)
    PROVE  ChannelInv(d) /\ Steady(c, d) /\ d \in Channels /\ d.have_potato = c.have_potato
           /\ d.my_nonce = c.my_nonce
  <1>1. RecordInv(d)
      BY KeepsRecord DEF Keeps
  <1> QED
      BY <1>1 DEF Keeps, Control, Steady, ChannelInv

LEMMA Packaged ==
    ASSUME NEW s \in Sessions, SessionInv(s), s.phase = "OffChain", Present(s), NEW d,
           Draining(s.ch, d)
    PROVE  LET r == PackageBatch(s, d) IN Idle(s, r) \/ Sent(s, r)
  <1>1. /\ ChannelInv(s.ch) /\ RecordInv(s.ch) /\ FlagsInv(s) /\ HeldInv(s)
        /\ s.torn \in BOOLEAN /\ s.expected \in Shutdowns
      BY PlayerFields, SessionFields
  <1>2. /\ d \in Drains /\ d.ch \in Channels /\ d.told \in SUBSET Nat /\ d.dup \in BOOLEAN
        /\ d.batch \in Seq(BatchActions) /\ d.clean \in Shutdowns /\ d.blame \in BOOLEAN
        /\ d.deferred \in Seq(QueueActions) /\ d.rest \in Seq(QueueActions)
      BY DrainFields DEF Draining
  <1>3. /\ ChannelInv(d.ch) /\ Steady(s.ch, d.ch) /\ d.ch.have_potato = s.ch.have_potato
        /\ Own(d.ch) = Own(s.ch)
      BY <1>1, KeepsChannel, OwnSame DEF Draining
  <1>4. /\ d.deferred \in Seq(Own(d.ch)) /\ d.rest \in Seq(Own(d.ch))
        /\ d.batch = << >> => d.ch.bal = s.ch.bal /\ d.ch.live = s.ch.live
        /\ Untouched(s.ch) => Untouched(d.ch)
      BY <1>3 DEF Draining
  <1>5. ASSUME NEW r \in Sessions, r.ch = d.ch, r.queue \in Seq(Own(d.ch)),
               r.have_potato = s.have_potato, Frame(s, r), r.out = s.out,
               ~r.torn => ~s.torn /\ d.batch = << >>
        PROVE  Idle(s, r)
    <2>1. QueueInv(r)
        BY <1>5, OwnQueue
    <2>2. Present(r)
        BY <1>5 DEF Present
    <2>3. FlagsInv(r)
        BY <1>1, <1>3, <1>4, <1>5, <2>2 DEF FlagsInv
    <2>4. HeldInv(r)
        BY <1>1, <1>3, <1>4, <1>5, <2>2 DEF HeldInv, Steady
    <2> QED
        BY <1>3, <1>5, <2>1, <2>3, <2>4 DEF Idle, SessionInv, PlayInv
  <1>6. CASE d.err
    <2> DEFINE tn == s.torn \/ d.batch # << >> \/ d.clean # NoSpend
    <2> DEFINE r == [s EXCEPT !.ch = d.ch, !.queue = d.rest, !.err = TRUE,
                              !.blame = d.blame, !.torn = tn]
    <2>1. tn \in BOOLEAN /\ (~tn => ~s.torn /\ d.batch = << >>)
        BY <1>1
    <2>2. PackageBatch(s, d) = r
        BY <1>6 DEF PackageBatch
    <2> HIDE DEF tn
    <2>3. /\ r \in Sessions /\ r.ch = d.ch /\ r.queue = d.rest /\ r.torn = tn
          /\ r.have_potato = s.have_potato /\ Frame(s, r) /\ r.out = s.out
        BY <1>2, <2>1 DEF Sessions, Frame
    <2> HIDE DEF r
    <2> QED
        BY <1>4, <1>5, <2>1, <2>2, <2>3
  <1>7. CASE ~d.err
    <2> DEFINE ex == IF d.clean = NoSpend THEN s.expected ELSE d.clean
    <2> DEFINE x == [s EXCEPT !.ch = d.ch, !.told = d.told, !.dup = d.dup,
                              !.queue = d.deferred, !.expected = ex]
    <2>1. ex \in Shutdowns
        BY <1>1, <1>2
    <2>2. PackageBatch(s, d) = IF d.batch = << >> /\ d.clean = NoSpend THEN x
                               ELSE SendBatch(x, d.batch, d.clean)
        BY <1>7 DEF PackageBatch
    <2> HIDE DEF ex
    <2>3. /\ x \in Sessions /\ x.ch = d.ch /\ x.queue = d.deferred /\ x.torn = s.torn
          /\ x.have_potato = s.have_potato /\ Frame(s, x) /\ x.out = s.out /\ x.err = s.err
        BY <1>2, <2>1 DEF Sessions, Frame
    <2> HIDE DEF x
    <2>4. d.batch = << >> => Idle(s, x)
        BY <1>4, <1>5, <2>3
    <2>5. Sent(s, SendBatch(x, d.batch, d.clean))
      <3> DEFINE r == SendBatch(x, d.batch, d.clean)
      <3>1. QueueInv(x) /\ ChannelInv(x.ch)
          BY <1>3, <1>4, <2>3, OwnQueue
      <3>2. Sent(x, r)
          BY <3>1, <1>2, <2>3, SentBatch
      <3> HIDE DEF r
      <3>3. Gives(s.ch, r.ch)
          BY <3>2, <2>3, <1>3 DEF Sent, Gives, Steady
      <3>4. Sent(s, r)
          BY <3>2, <3>3, <2>3 DEF Sent, Frame
      <3> QED
          BY <3>4 DEF r
    <2> QED
        BY <2>2, <2>4, <2>5
  <1> QED
      BY <1>6, <1>7, <1>2, DrainFields

LEMMA DrainedQueue ==
    ASSUME NEW s \in Sessions, SessionInv(s), s.phase = "OffChain", Present(s)
    PROVE  LET r == DrainQueueIntoBatch(s) IN Idle(s, r) \/ Sent(s, r)
  <1>1. PICK d : Draining(s.ch, d) /\ DrainQueueIntoBatch(s) = PackageBatch(s, d)
      BY PlayerFields, Drained
  <1> QED
      BY <1>1, Packaged

LEMMA AppendedBatch ==
    ASSUME NEW o \in Seq(Messages), NoBatch(o), NEW m \in Messages
    PROVE  /\ m.k # "Batch" => NoBatch(Append(o, m))
           /\ m \in Batches => OneBatch(Append(o, m), m.sig)
  <1> DEFINE v == Append(o, m)
  <1>1. /\ v \in Seq(Messages) /\ Len(v) = Len(o) + 1 /\ v[Len(o) + 1] = m
        /\ \A i \in 1..Len(o) : v[i] = o[i]
        /\ DOMAIN v = 1..(Len(o) + 1) /\ DOMAIN o = 1..Len(o) /\ Len(o) \in Nat
      OBVIOUS
  <1> HIDE DEF v
  <1>2. \A i \in BatchesIn(v) : i = Len(o) + 1
    <2> SUFFICES ASSUME NEW i \in BatchesIn(v), i # Len(o) + 1 PROVE FALSE
        BY Zenon
    <2>1. i \in 1..Len(o)
        BY <1>1 DEF BatchesIn
    <2> QED
        BY <2>1, <1>1 DEF BatchesIn, NoBatch
  <1>3. m.k # "Batch" => NoBatch(v)
      BY <1>1, <1>2 DEF BatchesIn, NoBatch
  <1>4. m \in Batches => OneBatch(v, m.sig)
    <2> HAVE m \in Batches
    <2>1. m.k = "Batch"
        BY DEF Batches
    <2>2. Len(o) + 1 \in BatchesIn(v)
        BY <2>1, <1>1 DEF BatchesIn
    <2> QED
        BY <2>2, <1>1, <1>2 DEF OneBatch, Single
  <1> QED
      BY <1>3, <1>4 DEF v

\* A session changes what only concerns itself.
Calm(s, r) ==
    /\ r \in Sessions /\ SessionInv(r) /\ Frame(s, r) /\ Steady(s.ch, r.ch)
    /\ (Present(r) <=> Present(s)) /\ r.err = s.err
    /\ NoBatch(s.out) => NoBatch(r.out)

LEMMA CalmTrans ==
    ASSUME NEW s, NEW x, NEW r, Calm(s, x), Calm(x, r)
    PROVE  Calm(s, r)
    BY DEF Calm, Frame, Steady

LEMMA CalmIf ==
    ASSUME NEW s \in Sessions, SessionInv(s), NEW r \in Sessions, r.ch = s.ch,
           r.queue \in Seq(Own(s.ch)), Frame(s, r), Present(r) <=> Present(s),
           r.torn = s.torn, r.err = s.err, NoBatch(s.out) => NoBatch(r.out)
    PROVE  Calm(s, r)
  <1>1. QueueInv(r)
      BY OwnQueue
  <1>2. PlayInv(r)
      BY DEF SessionInv, PlayInv, FlagsInv, HeldInv, Frame
  <1>3. SessionInv(r) /\ Steady(s.ch, r.ch)
      BY <1>1, <1>2 DEF SessionInv, Steady
  <1> QED
      BY <1>3 DEF Calm

LEMMA CalmTell ==
    ASSUME NEW s \in Sessions, SessionInv(s), NEW ids \in SUBSET Nat
    PROVE  LET r == Tell(s, ids)
           IN  /\ Calm(s, r) /\ r.ch = s.ch /\ r.queue = s.queue /\ r.out = s.out
               /\ r.have_potato = s.have_potato /\ r.expected = s.expected
               /\ r.torn = s.torn /\ r.blame = s.blame
  <1> DEFINE tl == s.told \cup ids
  <1> DEFINE dp == s.dup \/ ids \cap s.told # {}
  <1> DEFINE r == [s EXCEPT !.dup = dp, !.told = tl]
  <1>1. tl \in SUBSET Nat
      BY SessionFields
  <1>2. dp \in BOOLEAN
      BY SessionFields
  <1>3. Tell(s, ids) = r
      BY DEF Tell
  <1> HIDE DEF tl, dp
  <1>4. /\ r \in Sessions /\ r.ch = s.ch /\ r.queue = s.queue /\ Frame(s, r)
        /\ r.have_potato = s.have_potato /\ r.torn = s.torn /\ r.err = s.err
        /\ r.out = s.out /\ r.expected = s.expected /\ r.blame = s.blame
      BY <1>1, <1>2 DEF Sessions, Frame
  <1> HIDE DEF r
  <1>5. r.queue \in Seq(Own(s.ch)) /\ (Present(r) <=> Present(s))
      BY <1>4, OwnQueue DEF SessionInv, Present
  <1> QED
      BY <1>3, <1>4, <1>5, CalmIf

LEMMA CalmQueue ==
    ASSUME NEW s \in Sessions, SessionInv(s), NEW q \in Seq(Own(s.ch))
    PROVE  LET r == [s EXCEPT !.queue = q]
           IN  /\ Calm(s, r) /\ r.ch = s.ch /\ r.have_potato = s.have_potato
               /\ r.expected = s.expected /\ r.torn = s.torn /\ r.blame = s.blame
               /\ r.out = s.out
  <1> DEFINE r == [s EXCEPT !.queue = q]
  <1>1. q \in Seq(QueueActions)
    <2>1. \A i \in DOMAIN q : q[i] \in QueueActions
        BY DEF Own
    <2> QED
        BY <2>1, SeqNarrows
  <1>2. /\ r \in Sessions /\ r.ch = s.ch /\ r.queue = q /\ Frame(s, r)
        /\ r.have_potato = s.have_potato /\ r.torn = s.torn /\ r.err = s.err
        /\ r.out = s.out /\ r.expected = s.expected /\ r.blame = s.blame
      BY <1>1 DEF Sessions, Frame
  <1> HIDE DEF r
  <1>3. Calm(s, r)
      BY <1>2, CalmIf DEF Present
  <1> QED
      BY <1>2, <1>3 DEF r

LEMMA CalmWithout ==
    ASSUME NEW s \in Sessions, SessionInv(s), NEW kind
    PROVE  LET r == QueueWithout(s, kind)
           IN  /\ Calm(s, r) /\ r.ch = s.ch /\ r.have_potato = s.have_potato
               /\ r.expected = s.expected /\ r.torn = s.torn /\ r.blame = s.blame
               /\ r.out = s.out
  <1> DEFINE q == Among(s.queue, {a \in ToSet(s.queue) : a.k # kind})
  <1>1. s.queue \in Seq(Own(s.ch))
      BY OwnQueue DEF SessionInv
  <1>2. q \in Seq(Own(s.ch))
      BY <1>1, AmongType
  <1>3. QueueWithout(s, kind) = [s EXCEPT !.queue = q]
      BY DEF QueueWithout
  <1> HIDE DEF q
  <1> DEFINE r == [s EXCEPT !.queue = q]
  <1>4. /\ Calm(s, r) /\ r.ch = s.ch /\ r.have_potato = s.have_potato
        /\ r.expected = s.expected /\ r.torn = s.torn /\ r.blame = s.blame
        /\ r.out = s.out
      BY <1>2, CalmQueue, Zenon
  <1> QED
      BY <1>3, <1>4, Zenon

\* A message that is no batch is sent.
LEMMA CalmSend ==
    ASSUME NEW s \in Sessions, SessionInv(s), NEW m \in Messages, m.k # "Batch"
    PROVE  LET r == Send(s, m)
           IN  /\ Calm(s, r) /\ r.ch = s.ch /\ r.queue = s.queue
               /\ r.have_potato = s.have_potato /\ r.expected = s.expected
               /\ r.torn = s.torn /\ r.blame = s.blame
  <1> DEFINE o == Append(s.out, m)
  <1> DEFINE r == [s EXCEPT !.out = o]
  <1>1. s.out \in Seq(Messages)
      BY SessionFields
  <1>2. o \in Seq(Messages) /\ (NoBatch(s.out) => NoBatch(o))
      BY <1>1, AppendType, AppendedBatch
  <1>3. Send(s, m) = r
      BY DEF Send
  <1> HIDE DEF o
  <1>4. /\ r \in Sessions /\ r.ch = s.ch /\ r.queue = s.queue /\ Frame(s, r)
        /\ r.have_potato = s.have_potato /\ r.torn = s.torn /\ r.err = s.err
        /\ r.out = o /\ r.expected = s.expected /\ r.blame = s.blame
      BY <1>2 DEF Sessions, Frame
  <1> HIDE DEF r
  <1>5. r.queue \in Seq(Own(s.ch))
      BY <1>4, OwnQueue DEF SessionInv
  <1>6. Calm(s, r)
      BY <1>2, <1>4, <1>5, CalmIf DEF Present
  <1> QED
      BY <1>3, <1>4, <1>6

LEMMA CalmRequest ==
    ASSUME NEW s \in Sessions, SessionInv(s)
    PROVE  LET r == SendPotatoRequestIfNeeded(s)
           IN  Calm(s, r) /\ r.ch = s.ch /\ r.queue = s.queue
  <1> DEFINE x == [s EXCEPT !.have_potato = "Requested"]
  <1> DEFINE m == [k |-> "RequestPotato"]
  <1>1. /\ x \in Sessions /\ x.ch = s.ch /\ x.queue = s.queue /\ Frame(s, x)
        /\ x.have_potato = "Requested" /\ x.torn = s.torn /\ x.err = s.err
        /\ x.out = s.out
      BY DEF Sessions, Frame
  <1> HIDE DEF x
  <1>2. s.queue \in Seq(Own(s.ch))
      BY OwnQueue DEF SessionInv
  <1>3. s.have_potato = "Absent" => Calm(s, x)
      BY <1>1, <1>2, CalmIf DEF Present
  <1>4. m \in Messages /\ m.k # "Batch"
      BY DEF Messages
  <1>5. Calm(s, s)
      BY <1>2, CalmIf DEF Frame
  <1>6. SendPotatoRequestIfNeeded(s) = IF s.have_potato = "Absent" THEN Send(x, m) ELSE s
      BY DEF SendPotatoRequestIfNeeded, x
  <1> HIDE DEF m
  <1>7. s.have_potato = "Absent" =>
            Calm(x, Send(x, m)) /\ Send(x, m).ch = s.ch /\ Send(x, m).queue = s.queue
    <2> HAVE s.have_potato = "Absent"
    <2>1. SessionInv(x)
        BY <1>3 DEF Calm
    <2> QED
        BY <2>1, <1>1, <1>4, CalmSend
  <1> QED
      BY <1>3, <1>5, <1>6, <1>7, CalmTrans

LEMMA CalmActions ==
    ASSUME NEW s \in Sessions, SessionInv(s), NEW acts \in Seq(Own(s.ch))
    PROVE  Calm(s, DoGameActions(s, acts)) /\ DoGameActions(s, acts).ch = s.ch
  <1> DEFINE q == s.queue \o acts
  <1> DEFINE x == [s EXCEPT !.queue = q]
  <1>1. q \in Seq(Own(s.ch))
    <2>1. s.queue \in Seq(Own(s.ch))
        BY OwnQueue DEF SessionInv
    <2> QED
        BY <2>1, ConcatType, Zenon
  <1>2. DoGameActions(s, acts) = SendPotatoRequestIfNeeded(x)
      BY DEF DoGameActions
  <1> HIDE DEF q
  <1>3. Calm(s, x) /\ x.ch = s.ch
      BY <1>1, CalmQueue
  <1> HIDE DEF x
  <1>4. Calm(x, SendPotatoRequestIfNeeded(x)) /\ SendPotatoRequestIfNeeded(x).ch = x.ch
      BY <1>3, CalmRequest DEF Calm
  <1> QED
      BY <1>2, <1>3, <1>4, CalmTrans

LEMMA CalmAction ==
    ASSUME NEW s \in Sessions, SessionInv(s), NEW a \in Own(s.ch)
    PROVE  Calm(s, DoGameAction(s, a)) /\ DoGameAction(s, a).ch = s.ch
  <1>1. << a >> \in Seq(Own(s.ch))
      OBVIOUS
  <1> QED
      BY <1>1, CalmActions DEF DoGameAction

LEMMA EvenStep ==
    ASSUME NEW n \in Nat, NEW j \in Nat
    PROVE  (n + 2 * j) % 2 = n % 2
    OBVIOUS

LEMMA CalmNonce ==
    ASSUME NEW s \in Sessions, SessionInv(s), NEW j \in Nat
    PROVE  LET r == [s EXCEPT !.ch.my_nonce = @ + 2 * j]
           IN  Calm(s, r) /\ \A id : IsOurNonceParity(r.ch, id) <=> IsOurNonceParity(s.ch, id)
  <1> DEFINE n == s.ch.my_nonce + 2 * j
  <1> DEFINE c == [s.ch EXCEPT !.my_nonce = n]
  <1> DEFINE r == [s EXCEPT !.ch = c]
  <1>1. s.ch \in Channels
      BY SessionFields
  <1>2. n \in Nat /\ n % 2 = s.ch.my_nonce % 2
      BY <1>1, ChannelFields, EvenStep
  <1>3. [s EXCEPT !.ch.my_nonce = @ + 2 * j] = r
      OBVIOUS
  <1> HIDE DEF n
  <1>4. /\ c \in Channels /\ c.me = s.ch.me /\ c.sn = s.ch.sn /\ c.sent = s.ch.sent
        /\ c.received = s.ch.received /\ c.known = s.ch.known /\ c.my_nonce = n
        /\ c.live = s.ch.live /\ c.bal = s.ch.bal /\ c.alloc = s.ch.alloc
        /\ c.proposed = s.ch.proposed /\ c.have_potato = s.ch.have_potato
      BY <1>1, <1>2 DEF Channels
  <1> HIDE DEF c
  <1>5. /\ r \in Sessions /\ r.ch = c /\ r.queue = s.queue /\ Frame(s, r)
        /\ r.have_potato = s.have_potato /\ r.torn = s.torn /\ r.err = s.err
        /\ r.out = s.out
      BY <1>4 DEF Sessions, Frame
  <1> HIDE DEF r
  <1>6. \A id : IsOurNonceParity(c, id) <=> IsOurNonceParity(s.ch, id)
      BY <1>2, <1>4 DEF IsOurNonceParity
  <1>7. ChannelInv(c)
      BY <1>4 DEF SessionInv, ChannelInv, RecordInv, LedgerInv
  <1>8. QueueInv(r)
      BY <1>5, <1>6 DEF SessionInv, QueueInv, OwnGroup
  <1>9. Untouched(s.ch) => Untouched(c)
      BY <1>4, <1>6 DEF Untouched
  <1>10. PlayInv(r)
      BY <1>4, <1>5, <1>9 DEF SessionInv, PlayInv, FlagsInv, HeldInv, Frame, Present
  <1>11. Calm(s, r)
      BY <1>4, <1>5, <1>7, <1>8, <1>10 DEF Calm, SessionInv, Steady, Present
  <1> QED
      BY <1>3, <1>5, <1>6, <1>11

\* propose_games
LEMMA CalmPropose ==
    ASSUME NEW s \in Sessions, SessionInv(s), NEW t \in GameTypes
    PROVE  Calm(s, ProposeGames(s, t))
  <1> DEFINE s1 == QueueWithout(s, "CleanShutdown")
  <1> DEFINE n == s.ch.my_nonce
  <1> DEFINE ids == [i \in DOMAIN Factory[t] |-> n + 2 * (i - 1)]
  <1> DEFINE a == [k |-> "ProposeGroup", t |-> t, ids |-> ids]
  <1> DEFINE x == [s1 EXCEPT !.ch.my_nonce = @ + 2]
  <1> DEFINE y == [s1 EXCEPT !.ch.my_nonce = @ + 2 * Len(ids)]
  <1>1. Calm(s, s1) /\ s1.ch = s.ch
      BY CalmWithout
  <1>2. n \in Nat
      BY SessionFields, ChannelFields
  <1>3. ProposeGames(s, t) = IF PendingPeerProposal(s.ch) THEN Tell(x, {n})
                             ELSE DoGameAction(y, a)
      BY DEF ProposeGames
  <1>4. Len(Factory[t]) \in Nat \ {0} /\ DOMAIN Factory[t] = 1..Len(Factory[t])
      BY FactoryAssumption
  <1> HIDE DEF n, s1
  <1>5. /\ ids \in Seq(Nat) /\ Len(ids) = Len(Factory[t]) /\ DOMAIN ids = 1..Len(Factory[t])
        /\ \A i \in 1..Len(Factory[t]) : ids[i] = n + 2 * (i - 1)
      BY <1>2, <1>4
  <1> HIDE DEF ids
  <1>6. s1 \in Sessions /\ SessionInv(s1)
      BY <1>1 DEF Calm
  <1>7. Calm(s1, x)
    <2>1. LET r == [s1 EXCEPT !.ch.my_nonce = @ + 2 * 1] IN Calm(s1, r)
        BY <1>6, CalmNonce
    <2>2. 2 * 1 = 2
        OBVIOUS
    <2> QED
        BY <2>1, <2>2
  <1>8. Calm(s, Tell(x, {n}))
    <2>1. {n} \in SUBSET Nat /\ x \in Sessions /\ SessionInv(x)
        BY <1>2, <1>7 DEF Calm
    <2> HIDE DEF x
    <2>2. Calm(x, Tell(x, {n}))
        BY <2>1, CalmTell
    <2> QED
        BY <2>2, <1>1, <1>7, CalmTrans DEF x
  <1>9. Calm(s1, y) /\ \A id : IsOurNonceParity(y.ch, id) <=> IsOurNonceParity(s1.ch, id)
    <2>1. Len(ids) \in Nat
        BY <1>4, <1>5
    <2> QED
        BY <2>1, <1>6, CalmNonce
  <1> HIDE DEF y
  <1>10. a \in Own(y.ch)
    <2>1. a \in ProposeGroups
        BY <1>5 DEF ProposeGroups
    <2>2. a \in QueueActions
        BY <2>1 DEF QueueActions
    <2>3. ASSUME NEW i \in DOMAIN a.ids PROVE IsOurNonceParity(y.ch, a.ids[i])
      <3>1. a.ids[i] = n + 2 * (i - 1) /\ i - 1 \in Nat
          BY <1>4, <1>5
      <3>2. a.ids[i] % 2 = n % 2
          BY <3>1, <1>2, EvenStep
      <3>3. IsOurNonceParity(s1.ch, a.ids[i])
          BY <3>2, <1>1 DEF IsOurNonceParity, n
      <3> QED
          BY <3>3, <1>9
    <2> QED
        BY <2>2, <2>3 DEF Own, OwnGroup
  <1> HIDE DEF a
  <1>11. Calm(y, DoGameAction(y, a))
      BY <1>9, <1>10, CalmAction DEF Calm
  <1> QED
      BY <1>1, <1>3, <1>8, <1>9, <1>11, CalmTrans

LEMMA GroupType ==
    ASSUME NEW ch \in Channels, NEW id
    PROVE  GroupMemberIds(ch, id) \in Seq(Nat)
  <1> DEFINE g == Group(ch, id)
  <1>1. g \in Seq(Games)
      BY ChannelFields, AmongType DEF Group
  <1>2. GroupMemberIds(ch, id) = [i \in DOMAIN g |-> g[i].id]
      BY DEF GroupMemberIds
  <1> HIDE DEF g
  <1>3. \A i \in 1..Len(g) : g[i].id \in Nat
      BY <1>1, GameFields
  <1> QED
      BY <1>1, <1>2, <1>3

\* accept_proposal, cancel_proposal
LEMMA CalmAnswer ==
    ASSUME NEW s \in Sessions, SessionInv(s), NEW id
    PROVE  Calm(s, AcceptProposal(s, id)) /\ Calm(s, CancelProposal(s, id))
           /\ AcceptProposal(s, id).ch = s.ch
  <1> DEFINE ids == GroupMemberIds(s.ch, id)
  <1> DEFINE yes == [i \in DOMAIN ids |-> [k |-> "AcceptProposal", id |-> ids[i]]]
  <1> DEFINE short == [i \in DOMAIN ids |->
                          [k |-> "CancelProposal", id |-> ids[i], silent |-> TRUE]]
  <1> DEFINE no == [i \in DOMAIN ids |->
                       [k |-> "CancelProposal", id |-> ids[i], silent |-> FALSE]]
  <1>1. ids \in Seq(Nat)
      BY SessionFields, GroupType
  <1>2. /\ AcceptProposal(s, id) =
              IF Covers(s.ch.bal, GroupStakes(s, id)) THEN DoGameActions(s, yes)
              ELSE DoGameActions(Tell(s, ToSet(ids)), short)
        /\ CancelProposal(s, id) = DoGameActions(s, no)
      BY DEF AcceptProposal, CancelProposal
  <1> HIDE DEF ids
  <1>3. \A x \in Nat, b \in BOOLEAN :
            /\ [k |-> "AcceptProposal", id |-> x] \in Own(s.ch)
            /\ [k |-> "CancelProposal", id |-> x, silent |-> b] \in Own(s.ch)
      BY DEF Own, OwnGroup, QueueActions
  <1>4. Len(ids) \in Nat /\ DOMAIN ids = 1..Len(ids) /\ \A i \in 1..Len(ids) : ids[i] \in Nat
      BY <1>1
  <1>5. yes \in Seq(Own(s.ch)) /\ short \in Seq(Own(s.ch)) /\ no \in Seq(Own(s.ch))
    <2>1. \A i \in 1..Len(ids) :
              /\ [k |-> "AcceptProposal", id |-> ids[i]] \in Own(s.ch)
              /\ [k |-> "CancelProposal", id |-> ids[i], silent |-> TRUE] \in Own(s.ch)
              /\ [k |-> "CancelProposal", id |-> ids[i], silent |-> FALSE] \in Own(s.ch)
        BY <1>3, <1>4
    <2> DEFINE A(i) == [k |-> "AcceptProposal", id |-> ids[i]]
    <2> DEFINE B(i) == [k |-> "CancelProposal", id |-> ids[i], silent |-> TRUE]
    <2> DEFINE C(i) == [k |-> "CancelProposal", id |-> ids[i], silent |-> FALSE]
    <2>2. \A i \in 1..Len(ids) : A(i) \in Own(s.ch) /\ B(i) \in Own(s.ch) /\ C(i) \in Own(s.ch)
        BY <2>1
    <2>3. /\ yes = [i \in 1..Len(ids) |-> A(i)] /\ short = [i \in 1..Len(ids) |-> B(i)]
          /\ no = [i \in 1..Len(ids) |-> C(i)]
        BY <1>4
    <2> HIDE DEF A, B, C, yes, short, no
    <2> QED
        BY <1>4, <2>2, <2>3
  <1>6. ToSet(ids) \in SUBSET Nat
      BY <1>4 DEF ToSet
  <1> DEFINE x == Tell(s, ToSet(ids))
  <1> HIDE DEF yes, short, no
  <1>7. Calm(s, x) /\ x.ch = s.ch
      BY <1>6, CalmTell
  <1> HIDE DEF x
  <1>8. Calm(s, DoGameActions(s, yes)) /\ Calm(s, DoGameActions(s, no))
        /\ DoGameActions(s, yes).ch = s.ch
      BY <1>5, CalmActions
  <1>9. Calm(x, DoGameActions(x, short)) /\ DoGameActions(x, short).ch = x.ch
    <2>1. x \in Sessions /\ SessionInv(x) /\ short \in Seq(Own(x.ch))
        BY <1>5, <1>7 DEF Calm
    <2> QED
        BY <2>1, CalmActions
  <1> QED
      BY <1>2, <1>7, <1>8, <1>9, CalmTrans DEF x

\* make_move
LEMMA CalmMove ==
    ASSUME NEW s \in Sessions, SessionInv(s), NEW id \in Nat, NEW mv \in Moves
    PROVE  Calm(s, MakeMove(s, id, mv))
  <1>1. [k |-> IF mv.legal THEN "Move" ELSE "Cheat", id |-> id, mv |-> mv] \in Own(s.ch)
      BY DEF Own, OwnGroup, QueueActions
  <1> QED
      BY <1>1, CalmAction DEF MakeMove

\* accept_settlement, shut_down
LEMMA CalmClose ==
    ASSUME NEW s \in Sessions, SessionInv(s), NEW id \in Nat
    PROVE  Calm(s, AcceptSettlement(s, id)) /\ Calm(s, ShutDown(s))
  <1>1. /\ [k |-> "AcceptSettlement", id |-> id] \in Own(s.ch)
        /\ [k |-> "CleanShutdown"] \in Own(s.ch)
      BY DEF Own, OwnGroup, QueueActions
  <1> QED
      BY <1>1, CalmAction DEF AcceptSettlement, ShutDown

-----------------------------------------------------------------------------
(***************************************************************************)
(* Inside a session: flushing.                                             *)
(***************************************************************************)

\* Whether a step ended in an error changes nothing else.
LEMMA ErrorNoted ==
    ASSUME NEW r \in Sessions, SessionInv(r), NEW a \in BOOLEAN, NEW b \in BOOLEAN
    PROVE  LET e == [r EXCEPT !.err = a, !.blame = b]
           IN  /\ e \in Sessions /\ SessionInv(e) /\ Frame(r, e) /\ e.ch = r.ch
               /\ e.have_potato = r.have_potato /\ e.out = r.out /\ e.err = a
               /\ e.queue = r.queue /\ e.expected = r.expected /\ e.blame = b
               /\ e.torn = r.torn
  <1> DEFINE e == [r EXCEPT !.err = a, !.blame = b]
  <1>1. /\ e \in Sessions /\ Frame(r, e) /\ e.ch = r.ch
        /\ e.have_potato = r.have_potato /\ e.out = r.out /\ e.err = a
        /\ e.queue = r.queue /\ e.torn = r.torn /\ e.expected = r.expected /\ e.blame = b
      BY DEF Sessions, Frame
  <1> HIDE DEF e
  <1>2. SessionInv(e)
      BY <1>1 DEF SessionInv, QueueInv, PlayInv, FlagsInv, HeldInv, Present, Frame
  <1> QED
      BY <1>1, <1>2 DEF e

\* flush_pending_actions
LEMMA FlushKinds ==
    ASSUME NEW s \in Sessions, SessionInv(s), s.phase = "OffChain", s.err = FALSE
    PROVE  LET r == Flush(s) IN Idle(s, r) \/ (Present(s) /\ Sent(s, r))
  <1>1. CASE s.have_potato = "Present" /\ s.queue # << >>
    <2> DEFINE x == DrainQueueIntoBatch(s)
    <2> DEFINE e == [x EXCEPT !.err = FALSE, !.blame = FALSE]
    <2>1. Present(s)
        BY <1>1 DEF Present
    <2>2. Idle(s, x) \/ Sent(s, x)
        BY <2>1, DrainedQueue
    <2>3. Flush(s) = e
        BY <1>1 DEF Flush
    <2> HIDE DEF x
    <2>4. x \in Sessions /\ SessionInv(x)
        BY <2>2 DEF Idle, Sent
    <2>5. /\ e \in Sessions /\ SessionInv(e) /\ Frame(x, e) /\ e.ch = x.ch
          /\ e.have_potato = x.have_potato /\ e.out = x.out /\ e.err = FALSE
        BY <2>4, ErrorNoted
    <2> HIDE DEF e
    <2>6. Idle(s, x) => Idle(s, e)
        BY <2>5 DEF Idle, Frame
    <2>7. Sent(s, x) => Sent(s, e)
        BY <2>5 DEF Sent, Frame
    <2> QED
        BY <2>1, <2>2, <2>3, <2>6, <2>7
  <1>2. CASE ~(s.have_potato = "Present" /\ s.queue # << >>)
    <2>1. Flush(s) = s
        BY <1>2 DEF Flush
    <2> QED
        BY <2>1 DEF Idle, Frame, Steady
  <1> QED
      BY <1>1, <1>2

LEMMA SentSends ==
    ASSUME NEW s, NEW x, NEW r, s.tx = {}, s.phase = "OffChain", NoBatch(s.out),
           Calm(s, x), Present(x), Sent(x, r)
    PROVE  Sends(s, r)
  <1>1. Sound(s, r) /\ SpendsKept(s, r) /\ Present(s) /\ ~Present(r) /\ r.phase = "OffChain"
      BY DEF Calm, Sent, Frame, Sound, SpendsKept, Present
  <1>2. Gives(s.ch, r.ch)
      BY DEF Calm, Sent, Steady, Gives
  <1>3. x.out \in Seq(Messages) /\ NoBatch(x.out)
      BY SessionFields DEF Calm
  <1>4. OneBatch(r.out, r.ch.sent)
    <2>1. PICK m \in Batches : m.sig = r.ch.sent /\ r.out = Append(x.out, m)
        BY DEF Sent
    <2>2. m \in Messages
        BY DEF Messages
    <2> QED
        BY <2>1, <2>2, <1>3, AppendedBatch
  <1> QED
      BY <1>1, <1>2, <1>4 DEF Sends

-----------------------------------------------------------------------------
(***************************************************************************)
(* Inside a session: applying the actions of a batch.                      *)
(***************************************************************************)

\* Session s has applied some actions, and is now x.
Applying(s, x) ==
    /\ x \in Sessions /\ Keeps(s.ch, x.ch) /\ x.queue \in Seq(Own(s.ch))
    /\ Frame(s, x) /\ x.have_potato = s.have_potato
    /\ NoBatch(s.out) => NoBatch(x.out)

LEMMA BatchActionFields ==
    ASSUME NEW a \in BatchActions
    PROVE  /\ a.k \in {"Move", "AcceptSettlement", "AcceptProposal", "CancelProposal",
                       "ProposeGroup"}
           /\ a.k = "Move" => a.id \in Nat /\ a.mv \in Moves
           /\ a.k \in {"AcceptSettlement", "AcceptProposal", "CancelProposal"} => a.id \in Nat
           /\ a.k = "ProposeGroup" => a \in ProposeGroups
    BY DEF BatchActions, ProposeGroups

\* What the steps of an application may change.
LEMMA ApplyingIf ==
    ASSUME NEW s, NEW x, Applying(s, x), NEW r \in Sessions, Keeps(x.ch, r.ch),
           r.queue \in Seq(Own(s.ch)), Frame(x, r), r.have_potato = x.have_potato,
           NoBatch(x.out) => NoBatch(r.out)
    PROVE  Applying(s, r)
  <1>1. Keeps(s.ch, r.ch)
      BY KeepsTrans DEF Applying
  <1> QED
      BY <1>1 DEF Applying, Frame

LEMMA ApplyingChannel ==
    ASSUME NEW s, NEW x, Applying(s, x)
    PROVE  x \in Sessions /\ x.ch \in Channels /\ LedgerInv(x.ch) /\ Keeps(x.ch, x.ch)
           /\ x.queue \in Seq(Own(s.ch)) /\ Own(x.ch) = Own(s.ch)
  <1>1. Own(x.ch) = Own(s.ch)
      BY OwnSame DEF Applying, Keeps, Control
  <1> QED
      BY <1>1 DEF Applying, Keeps, Control

LEMMA ApplyingTell ==
    ASSUME NEW s, NEW x, Applying(s, x), NEW ids \in SUBSET Nat
    PROVE  Applying(s, Tell(x, ids)) /\ Tell(x, ids).ch = x.ch
  <1> DEFINE tl == x.told \cup ids
  <1> DEFINE dp == x.dup \/ ids \cap x.told # {}
  <1> DEFINE r == [x EXCEPT !.dup = dp, !.told = tl]
  <1>1. x \in Sessions /\ Keeps(x.ch, x.ch) /\ x.queue \in Seq(Own(s.ch))
      BY ApplyingChannel
  <1>2. tl \in SUBSET Nat
      BY <1>1, SessionFields
  <1>3. dp \in BOOLEAN
      BY <1>1, SessionFields
  <1>4. Tell(x, ids) = r
      BY DEF Tell
  <1> HIDE DEF tl, dp
  <1>5. /\ r \in Sessions /\ r.ch = x.ch /\ r.queue = x.queue /\ Frame(x, r)
        /\ r.have_potato = x.have_potato /\ r.out = x.out
      BY <1>1, <1>2, <1>3 DEF Sessions, Frame
  <1> HIDE DEF r
  <1> QED
      BY <1>1, <1>4, <1>5, ApplyingIf

LEMMA ApplyingSettled ==
    ASSUME NEW s, NEW x, Applying(s, x), NEW id \in Nat, NEW amt \in Nat, NEW pot \in Nat
    PROVE  Applying(s, TellSettled(x, id, amt, pot)) /\ TellSettled(x, id, amt, pot).ch = x.ch
  <1> DEFINE st == x.settled \cup {[id |-> id, amt |-> amt, pot |-> pot]}
  <1> DEFINE dp == x.dup \/ \E e \in x.settled : e.id = id
  <1> DEFINE r == [x EXCEPT !.dup = dp, !.settled = st]
  <1>1. x \in Sessions /\ Keeps(x.ch, x.ch) /\ x.queue \in Seq(Own(s.ch))
      BY ApplyingChannel
  <1>2. st \in SUBSET [id : Nat, amt : Nat, pot : Nat]
      BY <1>1, SessionFields
  <1>3. dp \in BOOLEAN
      BY <1>1, SessionFields
  <1>4. TellSettled(x, id, amt, pot) = r
      BY DEF TellSettled
  <1> HIDE DEF st, dp
  <1>5. /\ r \in Sessions /\ r.ch = x.ch /\ r.queue = x.queue /\ Frame(x, r)
        /\ r.have_potato = x.have_potato /\ r.out = x.out
      BY <1>1, <1>2, <1>3 DEF Sessions, Frame
  <1> HIDE DEF r
  <1> QED
      BY <1>1, <1>4, <1>5, ApplyingIf

LEMMA ApplyingQueue ==
    ASSUME NEW s, NEW x, Applying(s, x), NEW q \in Seq(Own(s.ch))
    PROVE  Applying(s, [x EXCEPT !.queue = q]) /\ [x EXCEPT !.queue = q].ch = x.ch
  <1> DEFINE r == [x EXCEPT !.queue = q]
  <1>1. x \in Sessions /\ Keeps(x.ch, x.ch)
      BY ApplyingChannel
  <1>2. q \in Seq(QueueActions)
    <2>1. \A i \in DOMAIN q : q[i] \in QueueActions
        BY DEF Own
    <2> QED
        BY <2>1, SeqNarrows
  <1>3. /\ r \in Sessions /\ r.ch = x.ch /\ r.queue = q /\ Frame(x, r)
        /\ r.have_potato = x.have_potato /\ r.out = x.out
      BY <1>1, <1>2 DEF Sessions, Frame
  <1> HIDE DEF r
  <1>4. Applying(s, r)
      BY <1>1, <1>3, ApplyingIf
  <1> QED
      BY <1>3, <1>4 DEF r

LEMMA ApplyingWithout ==
    ASSUME NEW s, NEW x, Applying(s, x), NEW kind
    PROVE  Applying(s, QueueWithout(x, kind)) /\ QueueWithout(x, kind).ch = x.ch
  <1> DEFINE q == Among(x.queue, {a \in ToSet(x.queue) : a.k # kind})
  <1>1. x.queue \in Seq(Own(s.ch))
      BY ApplyingChannel
  <1>2. q \in Seq(Own(s.ch))
      BY <1>1, AmongType
  <1>3. QueueWithout(x, kind) = [x EXCEPT !.queue = q]
      BY DEF QueueWithout
  <1> HIDE DEF q
  <1>4. Applying(s, [x EXCEPT !.queue = q]) /\ [x EXCEPT !.queue = q].ch = x.ch
      BY <1>2, ApplyingQueue, Zenon
  <1> QED
      BY <1>3, <1>4, Zenon

LEMMA ApplyingFail ==
    ASSUME NEW s, NEW x, Applying(s, x), NEW b \in BOOLEAN
    PROVE  Applying(s, Fail(x, b))
  <1> DEFINE r == [x EXCEPT !.err = TRUE, !.blame = b]
  <1>1. x \in Sessions /\ Keeps(x.ch, x.ch) /\ x.queue \in Seq(Own(s.ch))
      BY ApplyingChannel
  <1>2. /\ r \in Sessions /\ r.ch = x.ch /\ r.queue = x.queue /\ Frame(x, r)
        /\ r.have_potato = x.have_potato /\ r.out = x.out
      BY <1>1 DEF Sessions, Frame
  <1>3. Fail(x, b) = r
      BY DEF Fail
  <1> HIDE DEF r
  <1> QED
      BY <1>1, <1>2, <1>3, ApplyingIf

LEMMA ApplyingTo ==
    ASSUME NEW s, NEW x, Applying(s, x), NEW c, Keeps(x.ch, c)
    PROVE  Applying(s, [x EXCEPT !.ch = c]) /\ [x EXCEPT !.ch = c].ch = c
  <1> DEFINE r == [x EXCEPT !.ch = c]
  <1>1. x \in Sessions /\ x.queue \in Seq(Own(s.ch)) /\ c \in Channels
      BY ApplyingChannel DEF Keeps
  <1>2. /\ r \in Sessions /\ r.ch = c /\ r.queue = x.queue /\ Frame(x, r)
        /\ r.have_potato = x.have_potato /\ r.out = x.out
      BY <1>1 DEF Sessions, Frame
  <1> HIDE DEF r
  <1>3. Applying(s, r)
      BY <1>1, <1>2, ApplyingIf
  <1> QED
      BY <1>2, <1>3 DEF r

LEMMA ApplyingSend ==
    ASSUME NEW s, NEW x, Applying(s, x), NEW id \in Nat
    PROVE  LET r == Send(x, [k |-> "Message", id |-> id]) IN Applying(s, r) /\ r.ch = x.ch
  <1> DEFINE m == [k |-> "Message", id |-> id]
  <1> DEFINE o == Append(x.out, m)
  <1> DEFINE r == [x EXCEPT !.out = o]
  <1>1. x \in Sessions /\ Keeps(x.ch, x.ch) /\ x.queue \in Seq(Own(s.ch))
      BY ApplyingChannel
  <1>2. x.out \in Seq(Messages)
      BY <1>1, SessionFields
  <1>3. m \in Messages /\ m.k # "Batch"
      BY DEF Messages
  <1>4. Send(x, m) = r
      BY DEF Send
  <1> HIDE DEF m
  <1>5. o \in Seq(Messages) /\ (NoBatch(x.out) => NoBatch(o))
      BY <1>2, <1>3, AppendType, AppendedBatch
  <1> HIDE DEF o
  <1>6. /\ r \in Sessions /\ r.ch = x.ch /\ r.queue = x.queue /\ Frame(x, r)
        /\ r.have_potato = x.have_potato /\ r.out = o
      BY <1>1, <1>5 DEF Sessions, Frame
  <1> HIDE DEF r
  <1>7. Applying(s, r)
      BY <1>1, <1>5, <1>6, ApplyingIf
  <1> QED
      BY <1>4, <1>6, <1>7 DEF m

\* Each action of a batch, applied.
LEMMA ApplyingProposal ==
    ASSUME NEW s, NEW x, Applying(s, x), NEW a \in ProposeGroups
    PROVE  Applying(s, ApplyProposeGroup(x, a))
  <1> DEFINE ids == QueuedProposals(x)
  <1> DEFINE y == QueueWithout(Tell(x, ids), "ProposeGroup")
  <1> DEFINE games == Members(a.t, a.ids, Other(x.ch.me))
  <1> DEFINE c == ApplyReceivedProposals(x.ch, games)
  <1>1. x \in Sessions /\ x.ch \in Channels /\ LedgerInv(x.ch) /\ x.queue \in Seq(QueueActions)
      BY ApplyingChannel, SessionFields
  <1>2. ids \in SUBSET Nat
    <2> SUFFICES ASSUME NEW i \in DOMAIN x.queue, x.queue[i].k = "ProposeGroup"
                 PROVE  x.queue[i].ids[1] \in Nat
        BY DEF QueuedProposals
    <2>1. x.queue[i] \in QueueActions
        BY <1>1
    <2> DEFINE b == x.queue[i]
    <2>2. b \in ProposeGroups
        BY <2>1, ActionFields
    <2> HIDE DEF b
    <2>3. b.ids \in Seq(Nat)
        BY <2>2 DEF ProposeGroups
    <2>4. Len(b.ids) # 0
        BY <2>2, <1>1, ChannelFields, MembersType
    <2>5. b.ids[1] \in Nat
        BY <2>3, <2>4
    <2> QED
        BY <2>5 DEF b
  <1> HIDE DEF ids
  <1>3. Applying(s, Tell(x, ids)) /\ Tell(x, ids).ch = x.ch
      BY <1>2, ApplyingTell
  <1>4. Applying(s, y) /\ y.ch = x.ch
    <2> DEFINE z == Tell(x, ids)
    <2>1. Applying(s, z) /\ z.ch = x.ch
        BY <1>3
    <2> HIDE DEF z
    <2>2. Applying(s, QueueWithout(z, "ProposeGroup")) /\ QueueWithout(z, "ProposeGroup").ch = z.ch
        BY <2>1, ApplyingWithout, Zenon
    <2> QED
        BY <2>1, <2>2 DEF z
  <1>5. games \in Seq(Games) /\ games # << >>
    <2>1. Other(x.ch.me) \in Party
        BY <1>1, ChannelFields, OtherParty
    <2> DEFINE p == Other(x.ch.me)
    <2> HIDE DEF p
    <2>2. p \in Party
        BY <2>1 DEF p
    <2>3. /\ Members(a.t, a.ids, p) \in Seq(Games)
          /\ Len(Members(a.t, a.ids, p)) = Len(a.ids) /\ Len(a.ids) # 0
        BY <2>2, MembersType
    <2> QED
        BY <2>3 DEF p
  <1>6. ApplyProposeGroup(x, a) =
            IF a.t \notin GameTypesOf[x.ch.me] THEN y
            ELSE IF CanApplyProposals(x.ch, games)
            THEN [y EXCEPT !.ch = ApplyReceivedProposals(y.ch, games)] ELSE Fail(y, FALSE)
      BY DEF ApplyProposeGroup, ids
  <1> HIDE DEF y, games
  <1>7. Keeps(x.ch, c)
      BY <1>1, <1>5, ProposeKeeps
  <1>8. ApplyReceivedProposals(y.ch, games) = c
      BY <1>4
  <1> HIDE DEF c
  <1>9. Applying(s, [y EXCEPT !.ch = c])
      BY <1>4, <1>7, ApplyingTo
  <1>10. Applying(s, Fail(y, FALSE))
      BY <1>4, ApplyingFail
  <1> QED
      BY <1>4, <1>6, <1>8, <1>9, <1>10

\* A proposal is resolved, and the channel is now c.
LEMMA ApplyingResolved ==
    ASSUME NEW s, NEW x, Applying(s, x), NEW id \in Nat, NEW c, Keeps(x.ch, c)
    PROVE  Applying(s, [Tell(x, {id}) EXCEPT !.ch = c])
  <1> DEFINE z == Tell(x, {id})
  <1>1. {id} \in SUBSET Nat
      OBVIOUS
  <1>2. Applying(s, z) /\ z.ch = x.ch
      BY <1>1, ApplyingTell
  <1> HIDE DEF z
  <1>3. Applying(s, [z EXCEPT !.ch = c])
      BY <1>2, ApplyingTo
  <1> QED
      BY <1>3 DEF z

LEMMA ApplyingAccepted ==
    ASSUME NEW s, NEW x, Applying(s, x), NEW a, a.id \in Nat
    PROVE  Applying(s, ApplyAcceptProposal(x, a))
  <1> DEFINE z == Tell(x, {a.id})
  <1> DEFINE c == AcceptProposalInner(x.ch, a.id)
  <1>1. x \in Sessions /\ x.ch \in Channels /\ LedgerInv(x.ch)
      BY ApplyingChannel
  <1>2. CASE CanApplyAccept(x.ch, a.id)
    <2>1. Keeps(x.ch, c)
        BY <1>1, <1>2, AcceptKeeps DEF CanApplyAccept, CanAccept, IsProposed
    <2>2. z.ch = x.ch
        BY ApplyingTell
    <2>3. ApplyAcceptProposal(x, a) = [z EXCEPT !.ch = AcceptProposalInner(z.ch, a.id)]
        BY <1>2 DEF ApplyAcceptProposal
    <2> HIDE DEF z
    <2>4. ApplyAcceptProposal(x, a) = [z EXCEPT !.ch = c]
        BY <2>2, <2>3
    <2> HIDE DEF c
    <2>5. Applying(s, [Tell(x, {a.id}) EXCEPT !.ch = c])
        BY <2>1, ApplyingResolved, Zenon
    <2> QED
        BY <2>4, <2>5 DEF z
  <1>3. CASE ~CanApplyAccept(x.ch, a.id)
      BY <1>3, ApplyingFail DEF ApplyAcceptProposal
  <1> QED
      BY <1>2, <1>3

LEMMA ApplyingCancelled ==
    ASSUME NEW s, NEW x, Applying(s, x), NEW a, a.id \in Nat
    PROVE  Applying(s, ApplyCancelProposal(x, a))
  <1> DEFINE z == Tell(x, {a.id})
  <1> DEFINE c == RemoveProposal(x.ch, a.id)
  <1>1. x \in Sessions /\ x.ch \in Channels /\ LedgerInv(x.ch)
      BY ApplyingChannel
  <1>2. CASE IsProposed(x.ch, a.id)
    <2>1. Keeps(x.ch, c)
        BY <1>1, <1>2, RemoveKeeps DEF IsProposed
    <2>2. z.ch = x.ch
        BY ApplyingTell
    <2>3. ApplyCancelProposal(x, a) = [z EXCEPT !.ch = RemoveProposal(z.ch, a.id)]
        BY <1>2 DEF ApplyCancelProposal
    <2> HIDE DEF z
    <2>4. ApplyCancelProposal(x, a) = [z EXCEPT !.ch = c]
        BY <2>2, <2>3
    <2> HIDE DEF c
    <2>5. Applying(s, [Tell(x, {a.id}) EXCEPT !.ch = c])
        BY <2>1, ApplyingResolved, Zenon
    <2> QED
        BY <2>4, <2>5 DEF z
  <1>3. CASE ~IsProposed(x.ch, a.id)
      BY <1>3, ApplyingFail DEF ApplyCancelProposal
  <1> QED
      BY <1>2, <1>3

LEMMA ApplyingMove ==
    ASSUME NEW s, NEW x, Applying(s, x), NEW a, a.id \in Nat, a.mv \in Moves
    PROVE  Applying(s, ApplyMove(x, a))
  <1> DEFINE c == ApplyReceivedMove(x.ch, a.id, a.mv)
  <1> DEFINE y == [x EXCEPT !.ch = c]
  <1> DEFINE m == [k |-> "Message", id |-> a.id]
  <1> DEFINE z == IF a.mv.note THEN Send(y, m) ELSE y
  <1> DEFINE e == [k |-> "AcceptSettlement", id |-> a.id]
  <1> DEFINE q == Append(z.queue, e)
  <1>1. x \in Sessions /\ x.ch \in Channels /\ LedgerInv(x.ch)
      BY ApplyingChannel
  <1>2. CASE CanApplyMove(x.ch, a.id, a.mv)
    <2>1. Keeps(x.ch, c)
        BY <1>1, <1>2, MoveKeeps DEF CanApplyMove
    <2>2. ApplyMove(x, a) = IF IsGameFinished(y.ch, a.id) THEN [z EXCEPT !.queue = q] ELSE z
        BY <1>2 DEF ApplyMove
    <2> HIDE DEF c
    <2>3. Applying(s, y)
        BY <2>1, ApplyingTo
    <2> HIDE DEF y
    <2>4. Applying(s, Send(y, m))
        BY <2>3, ApplyingSend
    <2> HIDE DEF m
    <2>5. Applying(s, z)
        BY <2>3, <2>4
    <2> HIDE DEF z
    <2>6. e \in Own(s.ch)
        BY DEF Own, OwnGroup, QueueActions
    <2>7. z.queue \in Seq(Own(s.ch))
        BY <2>5, ApplyingChannel
    <2> HIDE DEF e
    <2>8. q \in Seq(Own(s.ch))
        BY <2>6, <2>7, AppendType
    <2> HIDE DEF q
    <2>9. Applying(s, [z EXCEPT !.queue = q])
        BY <2>5, <2>8, ApplyingQueue, Zenon
    <2> QED
        BY <2>2, <2>5, <2>9
  <1>3. CASE ~CanApplyMove(x.ch, a.id, a.mv)
      BY <1>3, ApplyingFail DEF ApplyMove
  <1> QED
      BY <1>2, <1>3

LEMMA ApplyingSettlement ==
    ASSUME NEW s, NEW x, Applying(s, x), NEW a, a.id \in Nat
    PROVE  Applying(s, ApplyAcceptSettlement(x, a))
  <1> DEFINE g == Find(x.ch.live, a.id)
  <1> DEFINE mine == CurrentShare(g, x.ch.me)
  <1> DEFINE whole == Amount(g)
  <1> DEFINE z == TellSettled(x, a.id, mine, whole)
  <1> DEFINE c == Settle(x.ch, a.id)
  <1>1. x \in Sessions /\ x.ch \in Channels /\ LedgerInv(x.ch)
      BY ApplyingChannel
  <1>2. CASE CanApplySettlement(x.ch, a.id)
    <2>1. a.id \in Ids(x.ch.live) /\ x.ch.live \in Seq(Games) /\ x.ch.me \in Party
        BY <1>1, <1>2, ChannelFields DEF CanApplySettlement
    <2>2. g \in Games
        BY <2>1, IndexType
    <2>3. Keeps(x.ch, c)
        BY <1>1, <2>1, SettleKeeps
    <2>4. ApplyAcceptSettlement(x, a) = [z EXCEPT !.ch = Settle(z.ch, a.id)]
        BY <1>2 DEF ApplyAcceptSettlement
    <2> HIDE DEF g
    <2>5. mine \in Nat
        BY <2>1, <2>2, SharesType
    <2>6. whole \in Nat
        BY <2>2 DEF Amount, Games, Party
    <2> HIDE DEF mine, whole
    <2>7. Applying(s, z) /\ z.ch = x.ch
      <3>1. \A n, u, v \in Nat : Applying(s, TellSettled(x, n, u, v))
          BY ApplyingSettled, Zenon
      <3>2. \A n, u, v \in Nat : TellSettled(x, n, u, v).ch = x.ch
          BY <1>1 DEF TellSettled, Sessions
      <3> QED
          BY <2>5, <2>6, <3>1, <3>2, Zenon
    <2> HIDE DEF z
    <2>8. ApplyAcceptSettlement(x, a) = [z EXCEPT !.ch = c]
        BY <2>4, <2>7
    <2> HIDE DEF c
    <2>9. Applying(s, [z EXCEPT !.ch = c])
        BY <2>3, <2>7, ApplyingTo
    <2> QED
        BY <2>8, <2>9
  <1>3. CASE ~CanApplySettlement(x.ch, a.id)
      BY <1>3, ApplyingFail DEF ApplyAcceptSettlement
  <1> QED
      BY <1>2, <1>3

LEMMA ApplyingAction ==
    ASSUME NEW s, NEW x, Applying(s, x), NEW a \in BatchActions
    PROVE  Applying(s, ApplyAction(x, a))
  <1>1. /\ a.k \in {"Move", "AcceptSettlement", "AcceptProposal", "CancelProposal",
                    "ProposeGroup"}
        /\ a.k = "Move" => a.id \in Nat /\ a.mv \in Moves
        /\ a.k \in {"AcceptSettlement", "AcceptProposal", "CancelProposal"} => a.id \in Nat
        /\ a.k = "ProposeGroup" => a \in ProposeGroups
      BY BatchActionFields
  <1>2. CASE x.err
      BY <1>2 DEF ApplyAction
  <1>3. CASE ~x.err /\ a.k = "ProposeGroup"
      BY <1>1, <1>3, ApplyingProposal DEF ApplyAction
  <1>4. CASE ~x.err /\ a.k = "AcceptProposal"
      BY <1>1, <1>4, ApplyingAccepted DEF ApplyAction
  <1>5. CASE ~x.err /\ a.k = "CancelProposal"
      BY <1>1, <1>5, ApplyingCancelled DEF ApplyAction
  <1>6. CASE ~x.err /\ a.k = "Move"
      BY <1>1, <1>6, ApplyingMove DEF ApplyAction
  <1>7. CASE ~x.err /\ a.k = "AcceptSettlement"
      BY <1>1, <1>7, ApplyingSettlement DEF ApplyAction
  <1> QED
      BY <1>1, <1>2, <1>3, <1>4, <1>5, <1>6, <1>7

ApplyRun(f, b, q) ==
    f = [i \in 0..Len(q) |-> IF i = 0 THEN b ELSE ApplyAction(f[i - 1], q[i])]

LEMMA ApplyRunExists ==
    ASSUME NEW s, Applying(s, s), NEW q \in Seq(BatchActions)
    PROVE  \E f : ApplyRun(f, s, q)
  <1> DEFINE n == Len(q)
  <1> DEFINE S == {x \in Sessions : Applying(s, x)}
  <1> DEFINE F == [y \in S \X (1..n) |-> ApplyAction(y[1], q[y[2]])]
  <1>1. n \in Nat /\ \A i \in 1..n : q[i] \in BatchActions
      OBVIOUS
  <1>2. s \in S
      BY DEF Applying
  <1>3. F \in [S \X (1..n) -> S]
    <2> SUFFICES ASSUME NEW y \in S \X (1..n) PROVE ApplyAction(y[1], q[y[2]]) \in S
        BY Zenon
    <2>1. y[1] \in S /\ y[2] \in 1..n
        OBVIOUS
    <2>2. Applying(s, y[1]) /\ q[y[2]] \in BatchActions
        BY <2>1, <1>1
    <2>3. Applying(s, ApplyAction(y[1], q[y[2]]))
        BY <2>2, ApplyingAction, Zenon
    <2> QED
        BY <2>3 DEF Applying
  <1>4. \A x \in S, i \in 1..n : F[<<x, i>>] = ApplyAction(x, q[i])
    <2> SUFFICES ASSUME NEW x \in S, NEW i \in 1..n PROVE F[<<x, i>>] = ApplyAction(x, q[i])
        BY Zenon
    <2>1. <<x, i>> \in S \X (1..n) /\ <<x, i>>[1] = x /\ <<x, i>>[2] = i
        OBVIOUS
    <2> QED
        BY <2>1, Zenon
  <1> HIDE DEF F, S, n
  <1>5. Steps(n, S, s, F)
      BY <1>1, <1>2, <1>3, Zenon DEF Steps
  <1>6. PICK f : Folds(f, n, S, s, F)
      BY <1>5, FoldExists, Zenon
  <1>7. \A i \in 0..n : f[i] = IF i = 0 THEN s ELSE ApplyAction(f[i - 1], q[i])
    <2> SUFFICES ASSUME NEW i \in 0..n
                 PROVE  f[i] = IF i = 0 THEN s ELSE ApplyAction(f[i - 1], q[i])
        BY Zenon
    <2>1. CASE i = 0
        BY <2>1, <1>6, Zenon DEF Folds
    <2>2. CASE i # 0
      <3>1. i \in 1..n /\ i - 1 \in 0..n
          BY <2>2, <1>1
      <3>2. f[i] = F[<<f[i - 1], i>>] /\ f[i - 1] \in S
          BY <3>1, <1>6, Zenon DEF Folds
      <3> QED
          BY <3>1, <3>2, <2>2, <1>4, Zenon
    <2> QED
        BY <2>1, <2>2
  <1>8. f = [i \in 0..n |-> f[i]]
      BY <1>6 DEF Folds
  <1>9. f = [i \in 0..n |-> IF i = 0 THEN s ELSE ApplyAction(f[i - 1], q[i])]
      BY <1>7, <1>8
  <1> QED
      BY <1>9 DEF ApplyRun, n

\* The actions of a batch, applied.
LEMMA ApplyingAll ==
    ASSUME NEW s, Applying(s, s), NEW q \in Seq(BatchActions)
    PROVE  Applying(s, Applied(s, q))
  <1> DEFINE g == CHOOSE g : ApplyRun(g, s, q)
  <1>1. ApplyRun(g, s, q)
      BY ApplyRunExists, Zenon
  <1>2. Applied(s, q) = g[Len(q)]
      BY DEF Applied, ApplyRun
  <1> HIDE DEF g
  <1> DEFINE n == Len(q)
  <1>3. n \in Nat /\ \A i \in 1..n : q[i] \in BatchActions
      OBVIOUS
  <1>4. \A i \in 0..n : g[i] = IF i = 0 THEN s ELSE ApplyAction(g[i - 1], q[i])
      BY <1>1 DEF ApplyRun
  <1> DEFINE S == {x \in Sessions : Applying(s, x)}
  <1>5. g[0] \in S
    <2>1. g[0] = s
        BY <1>3, <1>4
    <2> QED
        BY <2>1 DEF Applying
  <1>6. ASSUME NEW i \in 1..n, g[i - 1] \in S PROVE g[i] \in S
    <2>1. g[i] = ApplyAction(g[i - 1], q[i])
        BY <1>3, <1>4
    <2>2. Applying(s, g[i - 1]) /\ q[i] \in BatchActions
        BY <1>3, <1>6
    <2>3. Applying(s, ApplyAction(g[i - 1], q[i]))
        BY <2>2, ApplyingAction, Zenon
    <2> QED
        BY <2>1, <2>3 DEF Applying
  <1>7. g[n] \in S
    <2> HIDE DEF S, n
    <2> QED
        BY <1>3, <1>5, <1>6, RunStays
  <1> QED
      BY <1>2, <1>7

-----------------------------------------------------------------------------
(***************************************************************************)
(* Inside a session: what becomes of a batch.                              *)
(***************************************************************************)

\* drain_cached_accept_settlements, with its notifications.
LEMMA CachedSettled ==
    ASSUME NEW t \in Sessions, LedgerInv(t.ch)
    PROVE  LET z == SettleCached(t)
           IN  /\ z \in Sessions /\ Keeps(t.ch, z.ch) /\ z.ch.live = t.ch.live
               /\ z.ch.bal = t.ch.bal /\ z.ch.proposed = t.ch.proposed
               /\ Frame(t, z) /\ z.queue = t.queue /\ z.have_potato = t.have_potato
               /\ z.out = t.out /\ z.err = t.err /\ z.torn = t.torn
  <1> DEFINE cached == CachedSettlements(t.ch)
  <1> DEFINE again == \/ \E e \in cached, f \in t.settled : e.id = f.id
                      \/ \E i, j \in DOMAIN t.ch.redo :
                            /\ i # j /\ {t.ch.redo[i], t.ch.redo[j]} \subseteq cached
                            /\ t.ch.redo[i].id = t.ch.redo[j].id
  <1> DEFINE dp == t.dup \/ again
  <1> DEFINE new == {[id |-> e.id, amt |-> e.amt, pot |-> e.pot] : e \in cached}
  <1> DEFINE st == t.settled \cup new
  <1> DEFINE c == DrainCachedSettlements(t.ch)
  <1> DEFINE z == [t EXCEPT !.ch = c, !.dup = dp, !.settled = st]
  <1>1. /\ t.ch \in Channels /\ t.dup \in BOOLEAN
        /\ t.settled \in SUBSET [id : Nat, amt : Nat, pot : Nat] /\ t.ch.redo \in Seq(Redos)
      BY SessionFields, ChannelFields
  <1>2. dp \in BOOLEAN
    <2>1. again \in BOOLEAN
        BY Zenon
    <2> HIDE DEF again
    <2> QED
        BY <2>1, <1>1
  <1>3. new \in SUBSET [id : Nat, amt : Nat, pot : Nat]
    <2> SUFFICES ASSUME NEW e \in cached
                 PROVE  [id |-> e.id, amt |-> e.amt, pot |-> e.pot] \in [id : Nat, amt : Nat, pot : Nat]
        BY Zenon
    <2>1. e \in Redos /\ e.k = "CachedAcceptSettlement"
        BY <1>1 DEF CachedSettlements, ToSet
    <2>2. e.id \in Nat /\ e.amt \in Nat /\ e.pot \in Nat
        BY <2>1 DEF Redos
    <2> QED
        BY <2>2
  <1>4. st \in SUBSET [id : Nat, amt : Nat, pot : Nat]
    <2> HIDE DEF new
    <2> QED
        BY <1>1, <1>3
  <1>5. SettleCached(t) = z
      BY DEF SettleCached
  <1>6. Keeps(t.ch, c) /\ c.live = t.ch.live /\ c.bal = t.ch.bal /\ c.proposed = t.ch.proposed
      BY <1>1, DrainCachedKeeps
  <1> HIDE DEF dp, st, c
  <1>7. /\ z \in Sessions /\ z.ch = c /\ Frame(t, z) /\ z.queue = t.queue
        /\ z.have_potato = t.have_potato /\ z.out = t.out /\ z.err = t.err /\ z.torn = t.torn
      BY <1>2, <1>4, <1>6 DEF Sessions, Frame, Keeps
  <1> HIDE DEF z
  <1> QED
      BY <1>5, <1>6, <1>7

\* The batch is read and its state taken, and perhaps answered.
Took(s, r, sig) == (Receives(s, r, sig) \/ Answers(s, r, sig)) /\ r.err = FALSE

\* The batch is refused, before or after its state was taken.
Refused(s, r, sig) ==
    /\ r.err = TRUE /\ r.spend \in {s.spend, Unroll(sig)} /\ r.spend \in Spends
    /\ r.have_potato \in {"Absent", "Requested", "Present"}

\* The batch closes the channel.
Closed(s, r) ==
    /\ Sound(s, r) /\ Steady(s.ch, r.ch) /\ NoBatch(r.out) /\ r.phase # "OffChain"
    /\ SpendsKept(s, r) /\ r.err = FALSE /\ r.phase # "Failed"

\* Session s is off chain, waits for the potato and starts a step.
Waiting(s) ==
    /\ s \in Sessions /\ SessionInv(s) /\ s.phase = "OffChain" /\ ~Present(s)
    /\ s.tx = {} /\ NoBatch(s.out) /\ s.err = FALSE

\* The state is verified, and the potato is here.
LEMMA StateTaken ==
    ASSUME NEW s, Waiting(s), NEW x, Applying(s, x), x.err = FALSE, NEW sig,
           CanVerify(x.ch, sig)
    PROVE  LET t == [x EXCEPT !.ch = ReceiveSignedState(x.ch)]
               z == [t EXCEPT !.have_potato = "Present", !.spend = Unroll(t.ch.received)]
           IN  Receives(s, z, sig) /\ z.err = FALSE
  <1> DEFINE c == ReceiveSignedState(x.ch)
  <1> DEFINE t == [x EXCEPT !.ch = c]
  <1> DEFINE y == [t EXCEPT !.have_potato = "Present", !.spend = Unroll(t.ch.received)]
  <1> DEFINE z == [x EXCEPT !.ch = c, !.have_potato = "Present", !.spend = Unroll(sig)]
  <1>1. x \in Sessions /\ x.ch \in Channels /\ Keeps(s.ch, x.ch) /\ x.queue \in Seq(Own(s.ch))
        /\ Frame(s, x) /\ NoBatch(x.out)
      BY ApplyingChannel DEF Applying, Waiting
  <1>2. ChannelInv(x.ch) /\ Steady(s.ch, x.ch) /\ x.ch.my_nonce = s.ch.my_nonce
    <2>1. RecordInv(s.ch)
        BY DEF Waiting, SessionInv, ChannelInv
    <2> QED
        BY <2>1, <1>1, KeepsChannel
  <1>3. /\ sig \in States /\ sig.sn = x.ch.sn + 1 /\ sig.bal = x.ch.bal
        /\ sig.games = x.ch.live /\ sig = Commitment(x.ch, x.ch.sn + 1)
      BY <1>1, CommitmentType DEF CanVerify
  <1>4. c \in Channels /\ ChannelInv(c) /\ Got(x.ch, c) /\ c.live = x.ch.live /\ c.bal = x.ch.bal
      BY <1>1, <1>2, GotState
  <1> HIDE DEF c
  <1>5. Gets(s.ch, c, sig) /\ c.have_potato = TRUE /\ c.my_nonce = s.ch.my_nonce
      BY <1>2, <1>3, <1>4 DEF Got, Gets, Steady
  <1>6. Unroll(sig) \in Spends
      BY <1>3 DEF Unroll, Spends
  <1>7. y = z
    <2>1. t.ch = c
        BY <1>1 DEF Sessions
    <2>2. c.received = sig
        BY <1>5 DEF Gets
    <2> QED
        BY <2>1, <2>2
  <1>8. /\ z \in Sessions /\ z.ch = c /\ z.have_potato = "Present" /\ z.spend = Unroll(sig)
        /\ z.queue = x.queue /\ z.out = x.out /\ z.tx = x.tx /\ z.phase = x.phase
        /\ z.accused = x.accused /\ z.err = x.err
      BY <1>1, <1>4, <1>6 DEF Sessions
  <1> HIDE DEF z
  <1>9. QueueInv(z)
    <2>1. Own(c) = Own(s.ch)
        BY <1>5, OwnSame
    <2> QED
        BY <2>1, <1>1, <1>8, OwnQueue
  <1>10. FlagsInv(z) /\ HeldInv(z)
      BY <1>3, <1>4, <1>5, <1>8 DEF FlagsInv, HeldInv, Present, Gets
  <1>11. SessionInv(z)
      BY <1>4, <1>8, <1>9, <1>10 DEF SessionInv, PlayInv
  <1>12. Receives(s, z, sig)
      BY <1>1, <1>5, <1>8, <1>11 DEF Receives, Sound, Frame, Waiting, Present
  <1>13. Receives(s, y, sig) /\ y.err = FALSE
    <2> HIDE DEF y
    <2> QED
        BY <1>7, <1>8, <1>12
  <1> QED
      BY <1>13 DEF c

LEMMA ReceivedSettled ==
    ASSUME NEW s, NEW t, NEW sig, Receives(s, t, sig), t.err = FALSE
    PROVE  Receives(s, SettleCached(t), sig) /\ SettleCached(t).err = FALSE
  <1> DEFINE z == SettleCached(t)
  <1>1. /\ t \in Sessions /\ SessionInv(t) /\ t.phase = "OffChain" /\ Present(t)
        /\ Gets(s.ch, t.ch, sig) /\ NoBatch(t.out) /\ t.tx = {} /\ t.spend = Unroll(sig)
      BY DEF Receives, Sound
  <1>2. ChannelInv(t.ch) /\ LedgerInv(t.ch) /\ RecordInv(t.ch) /\ QueueInv(t)
        /\ FlagsInv(t) /\ HeldInv(t)
      BY <1>1, PlayerFields
  <1>3. /\ z \in Sessions /\ Keeps(t.ch, z.ch) /\ z.ch.live = t.ch.live
        /\ z.ch.bal = t.ch.bal /\ z.ch.proposed = t.ch.proposed
        /\ Frame(t, z) /\ z.queue = t.queue /\ z.have_potato = t.have_potato
        /\ z.out = t.out /\ z.err = t.err /\ z.torn = t.torn
      BY <1>1, <1>2, CachedSettled
  <1> HIDE DEF z
  <1>4. /\ ChannelInv(z.ch) /\ Steady(t.ch, z.ch) /\ z.ch.have_potato = t.ch.have_potato
        /\ z.ch.my_nonce = t.ch.my_nonce
      BY <1>2, <1>3, KeepsChannel
  <1>5. QueueInv(z)
    <2>1. Own(z.ch) = Own(t.ch)
        BY <1>4, OwnSame
    <2> QED
        BY <2>1, <1>1, <1>2, <1>3, OwnQueue
  <1>6. Untouched(t.ch) => Untouched(z.ch)
      BY <1>3, <1>4 DEF Untouched, IsOurNonceParity
  <1>7. FlagsInv(z)
      BY <1>2, <1>3, <1>4, <1>6 DEF FlagsInv, Present
  <1>8. HeldInv(z)
      BY <1>2, <1>3, <1>4 DEF HeldInv, Present, Steady
  <1>9. SessionInv(z)
      BY <1>4, <1>5, <1>7, <1>8 DEF SessionInv, PlayInv
  <1>10. Gets(s.ch, z.ch, sig)
      BY <1>1, <1>4 DEF Gets, Steady
  <1>11. Receives(s, z, sig)
      BY <1>1, <1>3, <1>9, <1>10 DEF Receives, Sound, Frame, Present
  <1> QED
      BY <1>3, <1>11 DEF z

\* A session that has taken the state does what concerns only itself.
LEMMA ReceivedCalm ==
    ASSUME NEW s, NEW t, NEW r, NEW sig, Receives(s, t, sig), Calm(t, r)
    PROVE  Receives(s, r, sig) /\ r.err = t.err
  <1>1. Gets(s.ch, r.ch, sig)
      BY DEF Receives, Calm, Gets, Steady
  <1> QED
      BY <1>1 DEF Receives, Calm, Sound, Frame

LEMMA ReceivedClosing ==
    ASSUME NEW s, NEW t, NEW sig, Receives(s, t, sig), t.err = FALSE, NEW b
    PROVE  LET r == CloseIfPeerSpent(t, b) IN Receives(s, r, sig) /\ r.err = FALSE
  <1> DEFINE e == [k |-> "CleanShutdown"]
  <1> DEFINE q == Append(t.queue, e)
  <1> DEFINE r == [t EXCEPT !.queue = q]
  <1>1. t \in Sessions /\ SessionInv(t) /\ t.phase = "OffChain"
      BY DEF Receives, Sound
  <1>2. t.queue \in Seq(Own(t.ch))
      BY <1>1, OwnQueue DEF SessionInv
  <1>3. e \in Own(t.ch)
      BY DEF Own, OwnGroup, QueueActions
  <1>4. CloseIfPeerSpent(t, b) = r \/ CloseIfPeerSpent(t, b) = t
      BY DEF CloseIfPeerSpent
  <1> HIDE DEF e
  <1>5. q \in Seq(Own(t.ch))
      BY <1>2, <1>3, AppendType
  <1> HIDE DEF q
  <1>6. Calm(t, r)
      BY <1>1, <1>5, CalmQueue
  <1> HIDE DEF r
  <1>7. Receives(s, r, sig) /\ r.err = FALSE
      BY <1>6, ReceivedCalm
  <1> QED
      BY <1>4, <1>7

LEMMA ReceivedIdle ==
    ASSUME NEW s, NEW t, NEW r, NEW sig, Receives(s, t, sig), Idle(t, r)
    PROVE  Receives(s, r, sig)
  <1>1. Gets(s.ch, r.ch, sig)
      BY DEF Receives, Idle, Gets, Steady
  <1> QED
      BY <1>1 DEF Receives, Idle, Sound, Frame, Present

LEMMA ReceivedSent ==
    ASSUME NEW s, s \in Sessions, NEW t, NEW r, NEW sig, Receives(s, t, sig), Sent(t, r)
    PROVE  Answers(s, r, sig)
  <1>1. /\ t \in Sessions /\ t.out \in Seq(Messages) /\ NoBatch(t.out)
      BY SessionFields DEF Receives, Sound
  <1>2. OneBatch(r.out, r.ch.sent)
    <2>1. PICK m \in Batches : m.sig = r.ch.sent /\ r.out = Append(t.out, m)
        BY DEF Sent
    <2>2. m \in Messages
        BY DEF Messages
    <2> QED
        BY <2>1, <2>2, <1>1, AppendedBatch
  <1>3. s.ch.sn \in Nat
      BY SessionFields, ChannelFields
  <1>4. Swaps(s.ch, r.ch, sig)
    <2>1. /\ t.ch.me = s.ch.me /\ t.ch.sn = s.ch.sn + 1 /\ sig.sn = t.ch.sn
          /\ t.ch.received = sig /\ t.ch.known = s.ch.known \cup {sig}
        BY DEF Receives, Gets
    <2>2. /\ r.ch.me = t.ch.me /\ r.ch.sn = t.ch.sn + 1 /\ r.ch.sent.sn = r.ch.sn
          /\ r.ch.received = t.ch.received /\ r.ch.known = t.ch.known \cup {r.ch.sent}
        BY DEF Sent, Gives
    <2>3. r.ch.sn = s.ch.sn + 2
        BY <1>3, <2>1, <2>2
    <2>4. r.ch.known = s.ch.known \cup {sig, r.ch.sent}
        BY <2>1, <2>2
    <2> QED
        BY <2>1, <2>2, <2>3, <2>4 DEF Swaps
  <1> QED
      BY <1>2, <1>4 DEF Receives, Sent, Answers, Sound, Frame, Present

\* The empty potato.
LEMMA EmptyPotato ==
    ASSUME NEW t \in Sessions, SessionInv(t)
    PROVE  Sent(t, SendEmptyPotato([t EXCEPT !.peer_wants = FALSE]))
  <1> DEFINE y == [t EXCEPT !.peer_wants = FALSE]
  <1>1. /\ y \in Sessions /\ y.ch = t.ch /\ y.queue = t.queue /\ Frame(t, y)
        /\ y.out = t.out /\ y.err = t.err
      BY DEF Sessions, Frame
  <1> DEFINE r == SendEmptyPotato(y)
  <1> HIDE DEF y
  <1>2. ChannelInv(y.ch) /\ QueueInv(y)
      BY <1>1 DEF SessionInv, QueueInv
  <1>3. << >> \in Seq(BatchActions) /\ NoSpend \in Shutdowns
      BY DEF Shutdowns
  <1>4. Sent(y, r)
      BY <1>1, <1>2, <1>3, SentBatch DEF SendEmptyPotato
  <1> HIDE DEF r
  <1>5. Sent(t, r)
      BY <1>1, <1>4 DEF Sent, Frame
  <1> QED
      BY <1>5 DEF r, y

LEMMA PotatoReturned ==
    ASSUME NEW s, Waiting(s), NEW t, NEW sig, Receives(s, t, sig), t.err = FALSE,
           NEW d, Idle(t, d) \/ Sent(t, d), NEW b
    PROVE  LET r == ReturnPotato(d, b) IN Took(s, r, sig) \/ Refused(s, r, sig)
  <1>1. d \in Sessions /\ SessionInv(d) /\ d.err \in BOOLEAN /\ d.blame \in BOOLEAN
    <2>1. d \in Sessions /\ SessionInv(d)
        BY DEF Idle, Sent
    <2> QED
        BY <2>1, SessionFields
  <1>2. (Idle(t, d) => Receives(s, d, sig)) /\ (Sent(t, d) => Answers(s, d, sig))
      BY ReceivedIdle, ReceivedSent DEF Waiting
  <1>3. CASE d.err
    <2> DEFINE bl == ~d.blame
    <2> DEFINE r == [d EXCEPT !.err = bl, !.blame = FALSE]
    <2>1. Idle(t, d) /\ Receives(s, d, sig)
        BY <1>2, <1>3 DEF Sent
    <2>2. ReturnPotato(d, b) = r
        BY <1>3 DEF ReturnPotato
    <2>3. bl \in BOOLEAN
        OBVIOUS
    <2> HIDE DEF bl
    <2>4. /\ r \in Sessions /\ SessionInv(r) /\ Frame(d, r) /\ r.ch = d.ch
          /\ r.have_potato = d.have_potato /\ r.out = d.out /\ r.err = bl
      <3>1. /\ r \in Sessions /\ Frame(d, r) /\ r.ch = d.ch /\ r.queue = d.queue
            /\ r.have_potato = d.have_potato /\ r.out = d.out /\ r.err = bl /\ r.torn = d.torn
          BY <1>1, <2>3 DEF Sessions, Frame
      <3> HIDE DEF r
      <3>2. SessionInv(r)
          BY <3>1, <1>1 DEF SessionInv, QueueInv, PlayInv, FlagsInv, HeldInv, Present, Frame
      <3> QED
          BY <3>1, <3>2
    <2> HIDE DEF r
    <2>5. Receives(s, r, sig)
        BY <2>1, <2>4 DEF Receives, Sound, Frame, Present
    <2>6. CASE bl = FALSE
        BY <2>2, <2>4, <2>5, <2>6 DEF Took
    <2>7. CASE bl = TRUE
        BY <2>2, <2>4, <2>5, <2>7, SessionFields DEF Refused, Receives
    <2> QED
        BY <2>3, <2>6, <2>7
  <1>4. CASE d.err = FALSE /\ d.have_potato = "Present" /\ (d.peer_wants \/ b)
    <2> DEFINE r == SendEmptyPotato([d EXCEPT !.peer_wants = FALSE])
    <2>1. Idle(t, d) /\ Receives(s, d, sig)
        BY <1>2, <1>4 DEF Sent
    <2>2. ReturnPotato(d, b) = r
        BY <1>4 DEF ReturnPotato
    <2>3. Sent(d, r)
        BY <1>1, EmptyPotato
    <2> HIDE DEF r
    <2>4. Answers(s, r, sig) /\ r.err = FALSE
      <3>1. Answers(s, r, sig)
          BY <2>1, <2>3, ReceivedSent DEF Waiting
      <3> QED
          BY <3>1, <2>3, <1>4 DEF Sent
    <2> QED
        BY <2>2, <2>4 DEF Took
  <1>5. CASE d.err = FALSE /\ ~(d.have_potato = "Present" /\ (d.peer_wants \/ b))
    <2>1. ReturnPotato(d, b) = d
        BY <1>5 DEF ReturnPotato
    <2> QED
        BY <2>1, <1>2, <1>5 DEF Took
  <1> QED
      BY <1>1, <1>3, <1>4, <1>5

\* update_channel_coin_after_receive
LEMMA CoinUpdated ==
    ASSUME NEW s, Waiting(s), NEW x, Applying(s, x), x.err = FALSE, NEW sig,
           CanVerify(x.ch, sig), NEW b
    PROVE  LET r == UpdateChannelCoinAfterReceive([x EXCEPT !.ch = ReceiveSignedState(@)], b)
           IN  Took(s, r, sig) \/ Refused(s, r, sig)
  <1> DEFINE t == [x EXCEPT !.ch = ReceiveSignedState(x.ch)]
  <1> DEFINE y == [t EXCEPT !.have_potato = "Present", !.spend = Unroll(t.ch.received)]
  <1>1. Receives(s, y, sig) /\ y.err = FALSE
      BY StateTaken
  <1> DEFINE z == SettleCached(y)
  <1> DEFINE w == CloseIfPeerSpent(z, b)
  <1> DEFINE d == DrainQueueIntoBatch(w)
  <1>2. UpdateChannelCoinAfterReceive(t, b) = ReturnPotato(d, b)
      BY DEF UpdateChannelCoinAfterReceive
  <1>3. ReturnPotato(d, b) =
            UpdateChannelCoinAfterReceive([x EXCEPT !.ch = ReceiveSignedState(@)], b)
      BY <1>2
  <1> HIDE DEF y
  <1>4. Receives(s, z, sig) /\ z.err = FALSE
      BY <1>1, ReceivedSettled
  <1> HIDE DEF z
  <1>5. Receives(s, w, sig) /\ w.err = FALSE
      BY <1>4, ReceivedClosing
  <1> HIDE DEF w
  <1>6. w \in Sessions /\ SessionInv(w) /\ w.phase = "OffChain" /\ Present(w)
      BY <1>5 DEF Receives, Sound
  <1>7. Idle(w, d) \/ Sent(w, d)
      BY <1>6, DrainedQueue
  <1> HIDE DEF d
  <1>8. LET r == ReturnPotato(d, b) IN Took(s, r, sig) \/ Refused(s, r, sig)
      BY <1>5, <1>7, PotatoReturned
  <1> QED
      BY <1>3, <1>8

\* An error while the batch is applied.
LEMMA ApplyingRefused ==
    ASSUME NEW s, NEW x, Applying(s, x), NEW sig
    PROVE  (x.err = TRUE => Refused(s, x, sig)) /\ Refused(s, Fail(x, FALSE), sig)
  <1>1. \A y : Applying(s, y) /\ y.err = TRUE => Refused(s, y, sig)
    <2> SUFFICES ASSUME NEW y, Applying(s, y), y.err = TRUE PROVE Refused(s, y, sig)
        BY Zenon
    <2> QED
        BY SessionFields DEF Applying, Frame, Refused
  <1>2. Applying(s, Fail(x, FALSE))
      BY ApplyingFail
  <1>3. Fail(x, FALSE).err = TRUE
    <2>1. x \in Sessions
        BY DEF Applying
    <2> QED
        BY <2>1 DEF Fail, Sessions
  <1> QED
      BY <1>1, <1>2, <1>3, Zenon

\* What is open ends with the off-chain phase.
Unopened(t) == [Tell(t, Ids(t.ch.proposed)) EXCEPT !.ch = CancelAllProposals(@)]

LEMMA UnopenedFields ==
    ASSUME NEW t \in Sessions, LedgerInv(t.ch)
    PROVE  LET y == Unopened(t)
           IN  /\ y \in Sessions /\ Keeps(t.ch, y.ch) /\ Frame(t, y) /\ y.queue = t.queue
               /\ y.have_potato = t.have_potato /\ y.out = t.out /\ y.err = t.err
               /\ y.expected = t.expected /\ y.ch = CancelAllProposals(t.ch)
  <1> DEFINE ids == Ids(t.ch.proposed)
  <1> DEFINE c == CancelAllProposals(t.ch)
  <1> DEFINE dp == t.dup \/ ids \cap t.told # {}
  <1> DEFINE tl == t.told \cup ids
  <1> DEFINE y == [t EXCEPT !.dup = dp, !.told = tl, !.ch = c]
  <1>1. t.ch \in Channels /\ t.dup \in BOOLEAN /\ t.told \in SUBSET Nat
      BY SessionFields
  <1>2. ids \in SUBSET Nat
      BY <1>1, ChannelFields, IdsType
  <1>3. Keeps(t.ch, c)
      BY <1>1, CancelAllKeeps
  <1>4. c \in Channels
      BY <1>3 DEF Keeps
  <1>5. dp \in BOOLEAN
      BY <1>1
  <1>6. tl \in SUBSET Nat
      BY <1>1, <1>2
  <1>7. Unopened(t) = y
    <2>1. Tell(t, ids) = [t EXCEPT !.dup = dp, !.told = tl]
        BY DEF Tell
    <2>2. [t EXCEPT !.dup = dp, !.told = tl].ch = t.ch
        BY DEF Sessions
    <2> QED
        BY <2>1, <2>2 DEF Unopened
  <1> HIDE DEF c, dp, tl
  <1>8. /\ y \in Sessions /\ y.ch = c /\ Frame(t, y) /\ y.queue = t.queue
        /\ y.have_potato = t.have_potato /\ y.out = t.out /\ y.err = t.err
        /\ y.expected = t.expected
      BY <1>4, <1>5, <1>6 DEF Sessions, Frame
  <1> HIDE DEF y
  <1> QED
      BY <1>3, <1>7, <1>8 DEF c

\* A session off chain no more has nothing to keep but its records.
LEMMA LeftSession ==
    ASSUME NEW s, s \in Sessions, RecordInv(s.ch), NEW r \in Sessions, Keeps(s.ch, r.ch),
           r.queue \in Seq(Own(s.ch)), r.phase # "OffChain"
    PROVE  SessionInv(r) /\ Steady(s.ch, r.ch)
  <1>1. ChannelInv(r.ch) /\ Steady(s.ch, r.ch) /\ r.ch.my_nonce = s.ch.my_nonce
      BY KeepsChannel
  <1>2. QueueInv(r)
      BY <1>1, OwnSame, OwnQueue
  <1> QED
      BY <1>1, <1>2 DEF SessionInv, PlayInv

LEMMA ShutdownAccepted ==
    ASSUME NEW s, Waiting(s), NEW x, Applying(s, x), x.err = FALSE, NEW clean \in Shutdowns,
           NEW sig
    PROVE  LET r == AcceptCleanShutdown(x, clean) IN Closed(s, r) \/ Refused(s, r, sig)
  <1>1. x \in Sessions /\ x.ch \in Channels /\ LedgerInv(x.ch) /\ Keeps(s.ch, x.ch)
        /\ x.queue \in Seq(Own(s.ch)) /\ Frame(s, x) /\ NoBatch(x.out)
      BY ApplyingChannel DEF Applying, Waiting
  <1>2. CASE HasActiveGames(x.ch) \/ clean # CleanSpend(x.ch.bal)
      BY <1>2, ApplyingRefused DEF AcceptCleanShutdown
  <1>3. CASE ~(HasActiveGames(x.ch) \/ clean # CleanSpend(x.ch.bal))
    <2> DEFINE y == Unopened(x)
    <2> DEFINE z == SettleCached(y)
    <2> DEFINE t == [z EXCEPT !.expected = clean, !.have_potato = "Present"]
    <2> DEFINE m == [k |-> "CleanShutdownComplete", clean |-> clean]
    <2> DEFINE u == [t EXCEPT !.phase = "AwaitTerminal"]
    <2> DEFINE v == [t EXCEPT !.phase = "CleanShutdown", !.tx = {clean}]
    <2>1. AcceptCleanShutdown(x, clean) = IF HasZeroPayout(x.ch) THEN u ELSE Send(v, m)
        BY <1>3 DEF AcceptCleanShutdown, Unopened, ForCleanShutdown
    <2>2. /\ y \in Sessions /\ Keeps(x.ch, y.ch) /\ Frame(x, y) /\ y.queue = x.queue
          /\ y.have_potato = x.have_potato /\ y.out = x.out /\ y.err = x.err
        BY <1>1, UnopenedFields
    <2>3. LedgerInv(y.ch)
        BY <2>2 DEF Keeps
    <2> HIDE DEF y
    <2>4. /\ z \in Sessions /\ Keeps(y.ch, z.ch) /\ Frame(y, z) /\ z.queue = y.queue
          /\ z.out = y.out /\ z.err = y.err
        BY <2>2, <2>3, CachedSettled
    <2> HIDE DEF z
    <2>5. /\ Keeps(s.ch, z.ch) /\ Frame(s, z) /\ z.queue \in Seq(Own(s.ch))
          /\ NoBatch(z.out) /\ z.err = FALSE /\ z.out \in Seq(Messages)
      <3>1. Keeps(s.ch, y.ch)
          BY <1>1, <2>2, KeepsTrans
      <3>2. Keeps(s.ch, z.ch)
          BY <3>1, <2>4, KeepsTrans
      <3> QED
          BY <3>2, <1>1, <2>2, <2>4, SessionFields DEF Frame
    <2>6. /\ t \in Sessions /\ t.ch = z.ch /\ Frame(z, t) /\ t.queue = z.queue
          /\ t.out = z.out /\ t.err = z.err
        BY <2>4 DEF Sessions, Frame
    <2> HIDE DEF t
    <2>7. m \in Messages /\ m.k # "Batch"
        BY DEF Messages
    <2> DEFINE o == Append(t.out, m)
    <2> DEFINE w == [t EXCEPT !.phase = "CleanShutdown", !.tx = {clean}, !.out = o]
    <2>8. Send(v, m) = w
      <3>1. v.out = t.out
          BY <2>6 DEF Sessions
      <3> QED
          BY <3>1 DEF Send
    <2> HIDE DEF m
    <2>9. o \in Seq(Messages) /\ NoBatch(o)
        BY <2>5, <2>6, <2>7, AppendType, AppendedBatch
    <2> HIDE DEF o
    <2>10. clean.k = "Clean"
        BY <1>3 DEF CleanSpend
    <2>11. /\ u \in Sessions /\ u.ch = t.ch /\ u.queue = t.queue /\ u.phase = "AwaitTerminal"
           /\ u.out = t.out /\ u.err = t.err /\ u.tx = t.tx /\ u.spend = t.spend
           /\ u.accused = t.accused
        BY <2>6 DEF Sessions, Phases
    <2>12. /\ w \in Sessions /\ w.ch = t.ch /\ w.queue = t.queue /\ w.phase = "CleanShutdown"
           /\ w.out = o /\ w.err = t.err /\ w.tx = {clean} /\ w.spend = t.spend
           /\ w.accused = t.accused
      <3>1. {clean} \in SUBSET Spends
          BY DEF Spends
      <3> QED
          BY <3>1, <2>6, <2>9 DEF Sessions, Phases
    <2> HIDE DEF u, v, w
    <2>13. s \in Sessions /\ RecordInv(s.ch) /\ s.tx = {}
        BY DEF Waiting, SessionInv, ChannelInv
    <2>14. Closed(s, u)
      <3>1. SessionInv(u) /\ Steady(s.ch, u.ch)
          BY <2>5, <2>6, <2>11, <2>13, LeftSession
      <3> QED
          BY <3>1, <2>5, <2>6, <2>11, <2>13 DEF Closed, Sound, SpendsKept, Frame
    <2>15. Closed(s, w)
      <3>1. SessionInv(w) /\ Steady(s.ch, w.ch)
          BY <2>5, <2>6, <2>12, <2>13, LeftSession
      <3> QED
          BY <3>1, <2>5, <2>6, <2>9, <2>10, <2>12, <2>13 DEF Closed, Sound, SpendsKept, Frame
    <2> QED
        BY <2>1, <2>8, <2>14, <2>15
  <1> QED
      BY <1>2, <1>3

\* process_received_batch
LEMMA BatchProcessed ==
    ASSUME NEW s, Waiting(s), NEW m \in Batches
    PROVE  LET r == ProcessReceivedBatch(s, m)
           IN  Took(s, r, m.sig) \/ Refused(s, r, m.sig) \/ Closed(s, r)
  <1>1. s \in Sessions /\ SessionInv(s) /\ s.phase = "OffChain"
      BY DEF Waiting
  <1>2. m.actions \in Seq(BatchActions) /\ m.clean \in Shutdowns
      BY DEF Batches
  <1>3. Applying(s, s)
    <2>1. s.queue \in Seq(Own(s.ch)) /\ s.ch \in Channels /\ LedgerInv(s.ch)
        BY <1>1, OwnQueue, SessionFields DEF SessionInv, ChannelInv
    <2> QED
        BY <2>1, <1>1 DEF Applying, Keeps, Control, Frame
  <1> DEFINE y == IF WholeGroups(s.ch, m.actions) THEN Applied(s, m.actions) ELSE Fail(s, FALSE)
  <1> DEFINE x == IF HasAction(m.actions, {"ProposeGroup", "AcceptProposal"})
                  THEN QueueWithout(y, "CleanShutdown") ELSE y
  <1> DEFINE b == HasAction(m.actions, {"AcceptSettlement"})
  <1>4. ProcessReceivedBatch(s, m) = ConcludeBatch(x, m)
      BY DEF ProcessReceivedBatch
  <1>5. Applying(s, y)
    <2>1. Applying(s, Applied(s, m.actions))
        BY <1>2, <1>3, ApplyingAll
    <2>2. Applying(s, Fail(s, FALSE))
        BY <1>3, ApplyingFail
    <2> QED
        BY <2>1, <2>2
  <1> HIDE DEF y
  <1>6. Applying(s, x)
    <2>1. Applying(s, QueueWithout(y, "CleanShutdown"))
        BY <1>5, ApplyingWithout
    <2> QED
        BY <2>1, <1>5
  <1> HIDE DEF x
  <1>7. x.err \in BOOLEAN
      BY <1>6, SessionFields DEF Applying
  <1>8. CASE x.err = TRUE
    <2>1. ConcludeBatch(x, m) = x
        BY <1>8 DEF ConcludeBatch
    <2> QED
        BY <2>1, <1>4, <1>6, <1>8, ApplyingRefused
  <1>9. CASE x.err = FALSE /\ m.clean # NoSpend
    <2>1. ConcludeBatch(x, m) = AcceptCleanShutdown(x, m.clean)
        BY <1>9 DEF ConcludeBatch
    <2> QED
        BY <2>1, <1>2, <1>4, <1>6, <1>9, ShutdownAccepted
  <1>10. CASE x.err = FALSE /\ m.clean = NoSpend /\ ~CanVerify(x.ch, m.sig)
    <2>1. ConcludeBatch(x, m) = Fail(x, FALSE)
        BY <1>10 DEF ConcludeBatch
    <2> QED
        BY <2>1, <1>4, <1>6, ApplyingRefused
  <1>11. CASE x.err = FALSE /\ m.clean = NoSpend /\ CanVerify(x.ch, m.sig)
    <2> DEFINE r == UpdateChannelCoinAfterReceive([x EXCEPT !.ch = ReceiveSignedState(@)], b)
    <2>1. ConcludeBatch(x, m) = r
        BY <1>11 DEF ConcludeBatch
    <2>2. Took(s, r, m.sig) \/ Refused(s, r, m.sig)
        BY <1>6, <1>11, CoinUpdated
    <2> HIDE DEF r
    <2> QED
        BY <2>1, <2>2, <1>4
  <1> QED
      BY <1>7, <1>8, <1>9, <1>10, <1>11

-----------------------------------------------------------------------------
(***************************************************************************)
(* Inside a session: leaving the off-chain phase.                          *)
(***************************************************************************)

\* Session t leaves, or had left, and is now r.
Left(t, r) ==
    /\ r \in Sessions /\ SessionInv(r) /\ Steady(t.ch, r.ch)
    /\ r.have_potato = t.have_potato /\ r.out = t.out /\ r.accused = t.accused
    /\ SpendsKept(t, r) /\ r.phase # "OffChain"
    /\ r.phase = "Failed" => t.phase = "Failed"

\* What a session needs to leave.
Leaving(t) ==
    t \in Sessions /\ ChannelInv(t.ch) /\ QueueInv(t) /\ t.tx = {}

LEMMA LeavingFields ==
    ASSUME NEW t, Leaving(t)
    PROVE  /\ t \in Sessions /\ t.ch \in Channels /\ LedgerInv(t.ch) /\ RecordInv(t.ch)
           /\ t.queue \in Seq(Own(t.ch)) /\ Keeps(t.ch, t.ch) /\ t.spend \in Spends
  <1>1. t \in Sessions /\ t.ch \in Channels /\ t.spend \in Spends
      BY SessionFields DEF Leaving
  <1>2. LedgerInv(t.ch) /\ RecordInv(t.ch)
      BY DEF Leaving, ChannelInv
  <1>3. t.queue \in Seq(Own(t.ch))
      BY <1>1, OwnQueue DEF Leaving
  <1> QED
      BY <1>1, <1>2, <1>3 DEF Keeps, Control

LEMMA LeftIf ==
    ASSUME NEW t, Leaving(t), NEW r \in Sessions, Keeps(t.ch, r.ch), r.queue = t.queue,
           r.have_potato = t.have_potato, r.out = t.out, r.accused = t.accused,
           SpendsKept(t, r), r.phase # "OffChain", r.phase = "Failed" => t.phase = "Failed"
    PROVE  Left(t, r)
  <1>1. SessionInv(r) /\ Steady(t.ch, r.ch)
      BY LeavingFields, LeftSession
  <1> QED
      BY <1>1 DEF Left

\* abandon
LEMMA AbandonedLeft ==
    ASSUME NEW t, Leaving(t)
    PROVE  Left(t, [t EXCEPT !.phase = "Abandoned"])
  <1> DEFINE r == [t EXCEPT !.phase = "Abandoned"]
  <1>1. t \in Sessions /\ Keeps(t.ch, t.ch) /\ t.tx = {}
      BY LeavingFields DEF Leaving
  <1>2. /\ r \in Sessions /\ r.ch = t.ch /\ r.queue = t.queue /\ r.out = t.out
        /\ r.have_potato = t.have_potato /\ r.accused = t.accused /\ r.phase = "Abandoned"
        /\ r.tx = t.tx /\ r.spend = t.spend
      BY <1>1 DEF Sessions, Phases
  <1> HIDE DEF r
  <1>3. SpendsKept(t, r)
      BY <1>1, <1>2 DEF SpendsKept
  <1>4. Left(t, r)
      BY <1>1, <1>2, <1>3, LeftIf
  <1> QED
      BY <1>4 DEF r

\* go_on_chain
LEMMA WentOnChain ==
    ASSUME NEW t, Leaving(t)
    PROVE  Left(t, GoOnChain(t))
  <1>1. t \in Sessions /\ LedgerInv(t.ch) /\ Keeps(t.ch, t.ch) /\ t.tx = {} /\ t.spend \in Spends
      BY LeavingFields DEF Leaving
  <1>2. NoSpend \in Spends /\ NoSpend.k # "Unroll" /\ NoSpend \in Shutdowns
      BY DEF Spends, Shutdowns, NoSpend
  <1>3. CASE HasZeroPayout(t.ch)
    <2>1. GoOnChain(t) = [t EXCEPT !.phase = "Abandoned"]
        BY <1>3 DEF GoOnChain
    <2> QED
        BY <2>1, AbandonedLeft
  <1>4. CASE ~HasZeroPayout(t.ch) /\ t.phase = "OffChain"
    <2> DEFINE y == Unopened(t)
    <2> DEFINE sp == {y.spend}
    <2> DEFINE r == [y EXCEPT !.tx = sp, !.spend = NoSpend, !.expected = NoSpend,
                              !.phase = "ChannelSpend"]
    <2>1. GoOnChain(t) = r
        BY <1>4 DEF GoOnChain, ForChannelSpend, Unopened
    <2>2. /\ y \in Sessions /\ Keeps(t.ch, y.ch) /\ Frame(t, y) /\ y.queue = t.queue
          /\ y.have_potato = t.have_potato /\ y.out = t.out
        BY <1>1, UnopenedFields
    <2> HIDE DEF y
    <2>3. sp \in SUBSET Spends /\ sp = {t.spend}
        BY <1>1, <2>2 DEF Frame
    <2> HIDE DEF sp
    <2>4. /\ r \in Sessions /\ r.ch = y.ch /\ r.queue = y.queue /\ r.out = y.out
          /\ r.have_potato = y.have_potato /\ r.accused = y.accused
          /\ r.phase = "ChannelSpend" /\ r.tx = sp /\ r.spend = NoSpend
        BY <1>2, <2>2, <2>3 DEF Sessions, Phases
    <2> HIDE DEF r
    <2>5. SpendsKept(t, r)
        BY <1>2, <2>3, <2>4 DEF SpendsKept
    <2>6. r.accused = t.accused
        BY <2>2, <2>4 DEF Frame
    <2>7. Left(t, r)
        BY <2>2, <2>4, <2>5, <2>6, LeftIf
    <2> QED
        BY <2>1, <2>7
  <1>5. CASE ~HasZeroPayout(t.ch) /\ t.phase # "OffChain"
    <2> DEFINE sp == {t.spend} \ {NoSpend}
    <2> DEFINE r == [t EXCEPT !.tx = sp, !.spend = NoSpend]
    <2>1. GoOnChain(t) = r
        BY <1>5 DEF GoOnChain, Impatience
    <2>2. sp \in SUBSET Spends /\ sp \subseteq {t.spend}
        BY <1>1
    <2> HIDE DEF sp
    <2>3. /\ r \in Sessions /\ r.ch = t.ch /\ r.queue = t.queue /\ r.out = t.out
          /\ r.have_potato = t.have_potato /\ r.accused = t.accused
          /\ r.phase = t.phase /\ r.tx = sp /\ r.spend = NoSpend
        BY <1>1, <1>2, <2>2 DEF Sessions
    <2> HIDE DEF r
    <2>4. SpendsKept(t, r)
        BY <1>2, <2>2, <2>3 DEF SpendsKept
    <2>5. Left(t, r)
        BY <1>1, <1>5, <2>3, <2>4, LeftIf
    <2> QED
        BY <2>1, <2>5
  <1> QED
      BY <1>3, <1>4, <1>5

\* An error sends the session on chain, and is blamed on the peer.
LEMMA ErrorLeaves ==
    ASSUME NEW e, Leaving(e), e.err = TRUE
    PROVE  LET r == HandlePeerError(e)
           IN  /\ r \in Sessions /\ SessionInv(r) /\ Steady(e.ch, r.ch)
               /\ r.have_potato = e.have_potato /\ r.out = e.out /\ r.accused = TRUE
               /\ SpendsKept(e, r) /\ r.phase # "OffChain"
               /\ r.phase = "Failed" => e.phase = "Failed"
  <1> DEFINE t == [e EXCEPT !.accused = TRUE, !.err = FALSE]
  <1> DEFINE r == GoOnChain(t)
  <1>1. e \in Sessions /\ ChannelInv(e.ch) /\ QueueInv(e) /\ e.tx = {}
      BY DEF Leaving
  <1>2. HandlePeerError(e) = r
      BY DEF HandlePeerError
  <1>3. /\ t \in Sessions /\ t.ch = e.ch /\ t.queue = e.queue /\ t.out = e.out /\ t.tx = e.tx
        /\ t.have_potato = e.have_potato /\ t.accused = TRUE /\ t.phase = e.phase
        /\ t.spend = e.spend
      BY <1>1 DEF Sessions
  <1> HIDE DEF t
  <1>4. Leaving(t)
      BY <1>1, <1>3 DEF Leaving, QueueInv
  <1>5. Left(t, r)
      BY <1>4, WentOnChain
  <1> HIDE DEF r
  <1> QED
      BY <1>2, <1>3, <1>5 DEF Left, SpendsKept

-----------------------------------------------------------------------------
(***************************************************************************)
(* Inside a session: the messages.                                         *)
(***************************************************************************)

\* Session s is off chain and starts a step.
Playing(s) ==
    /\ s \in Sessions /\ SessionInv(s) /\ s.phase = "OffChain" /\ s.tx = {}
    /\ NoBatch(s.out) /\ s.err = FALSE

LEMMA PlayingLeaving ==
    ASSUME NEW s, Playing(s)
    PROVE  Leaving(s)
    BY DEF Playing, Leaving, SessionInv

\* What a message other than a batch does.
Handled(s, x) ==
    \/ x.phase \notin {"OffChain", "Failed"} /\ Rests(s, x)
    \/ x.phase = "OffChain" /\ x.err = FALSE /\ (Rests(s, x) \/ Sends(s, x))

LEMMA LeftRests ==
    ASSUME NEW s, Playing(s), NEW x, Left(s, x)
    PROVE  Handled(s, x)
  <1>1. (Present(x) <=> Present(s)) /\ x.phase # "Failed"
      BY DEF Left, Present, Playing
  <1> QED
      BY <1>1 DEF Left, Rests, Handled, Sound, Playing

LEMMA CalmRests ==
    ASSUME NEW s, Playing(s), NEW x, Calm(s, x)
    PROVE  Handled(s, x)
  <1>1. Rests(s, x)
      BY DEF Calm, Rests, Sound, SpendsKept, Frame, Playing
  <1> QED
      BY <1>1 DEF Handled, Calm, Frame, Playing

\* A message that cannot be processed.
LEMMA FailedMessage ==
    ASSUME NEW s, Playing(s)
    PROVE  LET x == HandlePeerError(Fail(s, FALSE))
           IN  Handled(s, x) /\ \A sig : Quits(s, x, sig)
  <1> DEFINE e == Fail(s, FALSE)
  <1> DEFINE x == HandlePeerError(e)
  <1>1. s \in Sessions /\ ChannelInv(s.ch) /\ QueueInv(s)
      BY DEF Playing, SessionInv
  <1>2. /\ e \in Sessions /\ e.ch = s.ch /\ e.queue = s.queue /\ e.out = s.out /\ e.tx = s.tx
        /\ e.have_potato = s.have_potato /\ e.err = TRUE /\ e.phase = s.phase
        /\ e.spend = s.spend
      BY <1>1 DEF Fail, Sessions
  <1> HIDE DEF e
  <1>3. Leaving(e)
      BY <1>1, <1>2 DEF Leaving, QueueInv, Playing
  <1>4. /\ x \in Sessions /\ SessionInv(x) /\ Steady(e.ch, x.ch)
        /\ x.have_potato = e.have_potato /\ x.out = e.out /\ x.accused = TRUE
        /\ SpendsKept(e, x) /\ x.phase # "OffChain"
        /\ x.phase = "Failed" => e.phase = "Failed"
      BY <1>2, <1>3, ErrorLeaves
  <1> HIDE DEF x
  <1>5. /\ Sound(s, x) /\ Steady(s.ch, x.ch) /\ SpendsKept(s, x) /\ NoBatch(x.out)
        /\ x.phase # "OffChain" /\ x.phase # "Failed"
      BY <1>2, <1>4 DEF Sound, SpendsKept, Playing
  <1>6. Present(x) <=> Present(s)
      BY <1>2, <1>4 DEF Present
  <1>7. Handled(s, x)
      BY <1>5, <1>6 DEF Handled, Rests
  <1>8. \A sig : Quits(s, x, sig)
      BY <1>5 DEF Quits, SpendsKept
  <1> QED
      BY <1>7, <1>8 DEF x, e

LEMMA ShutdownFields ==
    ASSUME NEW c \in Shutdowns
    PROVE  c.k # "Unroll" /\ {c} \in SUBSET Spends
    BY DEF Shutdowns, Spends, NoSpend

\* The peer's co-signed shutdown.
LEMMA ShutdownCompleted ==
    ASSUME NEW s, Playing(s), NEW m, m.clean \in Shutdowns
    PROVE  LET x == PassOnShutdownComplete(s, m) IN Handled(s, x) /\ x.err = FALSE
  <1>1. s \in Sessions /\ SessionInv(s) /\ s.phase = "OffChain" /\ s.tx = {} /\ Leaving(s)
        /\ Keeps(s.ch, s.ch) /\ s.err = FALSE
      BY PlayingLeaving, LeavingFields DEF Playing
  <1>2. m.clean.k # "Unroll" /\ {m.clean} \in SUBSET Spends
      BY ShutdownFields
  <1>3. CASE HasZeroPayout(s.ch)
    <2> DEFINE x == [s EXCEPT !.phase = "Abandoned"]
    <2>1. PassOnShutdownComplete(s, m) = x
        BY <1>3 DEF PassOnShutdownComplete
    <2>2. Left(s, x)
        BY <1>1, AbandonedLeft
    <2>3. x.err = FALSE
        BY <1>1 DEF Sessions
    <2> HIDE DEF x
    <2> QED
        BY <2>1, <2>2, <2>3, LeftRests
  <1>4. CASE ~HasZeroPayout(s.ch) /\ s.expected = NoSpend
    <2> DEFINE x == [s EXCEPT !.tx = {m.clean}]
    <2>1. PassOnShutdownComplete(s, m) = x
        BY <1>4 DEF PassOnShutdownComplete
    <2>2. /\ x \in Sessions /\ x.ch = s.ch /\ x.queue = s.queue /\ x.out = s.out
          /\ x.tx = {m.clean} /\ x.have_potato = s.have_potato /\ x.err = FALSE
          /\ x.phase = s.phase /\ x.spend = s.spend /\ x.torn = s.torn /\ x.accused = s.accused
        BY <1>1, <1>2 DEF Sessions
    <2> HIDE DEF x
    <2>3. SessionInv(x)
        BY <1>1, <2>2 DEF SessionInv, QueueInv, PlayInv, FlagsInv, HeldInv, Present
    <2>4. Rests(s, x)
        BY <1>1, <1>2, <2>2, <2>3 DEF Rests, Sound, Steady, SpendsKept, Present, Playing
    <2> QED
        BY <1>1, <2>1, <2>2, <2>4 DEF Handled
  <1>5. CASE ~HasZeroPayout(s.ch) /\ s.expected # NoSpend
    <2> DEFINE x == [s EXCEPT !.phase = "CleanShutdown", !.tx = {m.clean}]
    <2>1. PassOnShutdownComplete(s, m) = x
        BY <1>5 DEF PassOnShutdownComplete, ForCleanShutdown
    <2>2. /\ x \in Sessions /\ x.ch = s.ch /\ x.queue = s.queue /\ x.out = s.out
          /\ x.tx = {m.clean} /\ x.have_potato = s.have_potato /\ x.err = FALSE
          /\ x.phase = "CleanShutdown" /\ x.spend = s.spend /\ x.accused = s.accused
        BY <1>1, <1>2 DEF Sessions, Phases
    <2> HIDE DEF x
    <2>3. SpendsKept(s, x)
        BY <1>2, <2>2 DEF SpendsKept
    <2>4. Left(s, x)
        BY <1>1, <2>2, <2>3, LeftIf
    <2> QED
        BY <2>1, <2>2, <2>4, LeftRests
  <1> QED
      BY <1>3, <1>4, <1>5

\* A request for the potato.
LEMMA PotatoRequested ==
    ASSUME NEW s, Playing(s)
    PROVE  LET x == ProcessRequestPotato(s) IN Handled(s, x) /\ x.err = FALSE
  <1>1. s \in Sessions /\ SessionInv(s) /\ s.phase = "OffChain" /\ s.tx = {} /\ s.err = FALSE
        /\ NoBatch(s.out)
      BY DEF Playing
  <1>2. CASE Present(s)
    <2> DEFINE x == SendEmptyPotato([s EXCEPT !.peer_wants = FALSE])
    <2>1. ProcessRequestPotato(s) = x
        BY <1>2 DEF ProcessRequestPotato, Present
    <2>2. Sent(s, x)
        BY <1>1, EmptyPotato
    <2> HIDE DEF x
    <2>3. Calm(s, s)
        BY <1>1 DEF Calm, Frame, Steady
    <2>4. Sends(s, x)
        BY <1>1, <1>2, <2>2, <2>3, SentSends
    <2> QED
        BY <1>1, <2>1, <2>2, <2>4 DEF Sent, Handled, Frame
  <1>3. CASE ~Present(s)
    <2> DEFINE x == [s EXCEPT !.peer_wants = TRUE]
    <2>1. ProcessRequestPotato(s) = x
        BY <1>3 DEF ProcessRequestPotato, Present
    <2>2. /\ x \in Sessions /\ x.ch = s.ch /\ x.queue = s.queue /\ x.out = s.out
          /\ x.have_potato = s.have_potato /\ x.err = s.err /\ x.torn = s.torn /\ Frame(s, x)
        BY <1>1 DEF Sessions, Frame
    <2> HIDE DEF x
    <2>3. Calm(s, x)
      <3>1. s.queue \in Seq(Own(s.ch))
          BY <1>1, OwnQueue DEF SessionInv
      <3> QED
          BY <3>1, <1>1, <2>2, CalmIf DEF Present
    <2> QED
        BY <1>1, <2>1, <2>2, <2>3, CalmRests
  <1> QED
      BY <1>2, <1>3

\* Which message it is.
LEMMA MessageFields ==
    ASSUME NEW m \in Messages
    PROVE  /\ m.k \in {"Batch", "RequestPotato", "Message", "CleanShutdownComplete"}
           /\ m.k = "Batch" => m \in Batches
           /\ m.k = "CleanShutdownComplete" => m.clean \in Shutdowns
    BY DEF Messages, Batches

\* process_queued_message, for a message other than a batch.
LEMMA MessageReceived ==
    ASSUME NEW s, Playing(s), NEW m \in Messages, m.k # "Batch"
    PROVE  Handled(s, ReceivedMessage(s, m))
  <1>1. /\ m.k \in {"RequestPotato", "Message", "CleanShutdownComplete"}
        /\ m.k = "CleanShutdownComplete" => m.clean \in Shutdowns
      BY MessageFields
  <1> DEFINE p == ProcessMessage(s, m)
  <1>2. ReceivedMessage(s, m) = HandlePeerError(p)
      BY DEF ReceivedMessage
  <1>3. \/ p = s \/ p = Fail(s, FALSE) \/ p = ProcessRequestPotato(s)
        \/ m.k = "CleanShutdownComplete" /\ p = PassOnShutdownComplete(s, m)
    <2>1. CASE s.expected # NoSpend
        BY <1>1, <2>1 DEF ProcessMessage
    <2>2. CASE s.expected = NoSpend
        BY <1>1, <2>2 DEF ProcessMessage, PassOnMessage
    <2> QED
        BY <2>1, <2>2
  <1> HIDE DEF p
  <1>4. CASE p = Fail(s, FALSE)
      BY <1>2, <1>4, FailedMessage
  <1>5. ASSUME Handled(s, p), p.err = FALSE PROVE Handled(s, ReceivedMessage(s, m))
      BY <1>2, <1>5 DEF HandlePeerError
  <1>6. CASE p = s
    <2>1. Calm(s, s)
        BY DEF Playing, Calm, Frame, Steady
    <2>2. Handled(s, s) /\ s.err = FALSE
        BY <2>1, CalmRests DEF Playing
    <2> QED
        BY <1>5, <1>6, <2>2
  <1>7. CASE p = ProcessRequestPotato(s)
      BY <1>5, <1>7, PotatoRequested
  <1>8. CASE m.k = "CleanShutdownComplete" /\ p = PassOnShutdownComplete(s, m)
      BY <1>1, <1>5, <1>8, ShutdownCompleted
  <1> QED
      BY <1>3, <1>4, <1>6, <1>7, <1>8

\* A batch, in the off-chain phase.
Batched(s, x, sig) ==
    \/ x.phase \notin {"OffChain", "Failed"} /\ Quits(s, x, sig)
    \/ x.phase = "OffChain" /\ Took(s, x, sig)

\* A batch that is refused: the session goes on chain with what it has.
LEMMA RefusedLeaves ==
    ASSUME NEW s, Playing(s), NEW r, NEW sig, Refused(s, r, sig)
    PROVE  Batched(s, HandlePeerError(RollBack(s, r)), sig)
  <1> DEFINE e == [s EXCEPT !.have_potato = r.have_potato, !.spend = r.spend, !.err = TRUE]
  <1> DEFINE x == HandlePeerError(e)
  <1>1. s \in Sessions /\ ChannelInv(s.ch) /\ QueueInv(s)
      BY DEF Playing, SessionInv
  <1>2. RollBack(s, r) = e
      BY DEF RollBack, Refused
  <1>3. /\ e \in Sessions /\ e.ch = s.ch /\ e.queue = s.queue /\ e.out = s.out /\ e.tx = s.tx
        /\ e.err = TRUE /\ e.phase = s.phase /\ e.spend = r.spend
      BY <1>1 DEF Refused, Sessions
  <1> HIDE DEF e
  <1>4. Leaving(e)
      BY <1>1, <1>3 DEF Leaving, QueueInv, Playing
  <1>5. /\ x \in Sessions /\ SessionInv(x) /\ Steady(e.ch, x.ch) /\ x.out = e.out
        /\ x.accused = TRUE /\ SpendsKept(e, x) /\ x.phase # "OffChain"
        /\ x.phase = "Failed" => e.phase = "Failed"
      BY <1>3, <1>4, ErrorLeaves
  <1> HIDE DEF x
  <1>6. /\ Sound(s, x) /\ Steady(s.ch, x.ch) /\ NoBatch(x.out) /\ x.phase # "OffChain"
        /\ x.phase # "Failed"
      BY <1>3, <1>5 DEF Sound, Playing
  <1>7. \A y \in x.tx \cup {x.spend} :
            y.k = "Unroll" => y = s.spend \/ (y = Unroll(sig) /\ x.accused)
      BY <1>3, <1>5 DEF SpendsKept, Refused
  <1>8. Batched(s, x, sig)
      BY <1>6, <1>7 DEF Batched, Quits
  <1> QED
      BY <1>2, <1>8 DEF x

LEMMA BatchReceived ==
    ASSUME NEW s, Playing(s), NEW m \in Batches
    PROVE  Batched(s, ReceivedMessage(s, m), m.sig)
  <1> DEFINE p == ProcessMessage(s, m)
  <1>1. m.k = "Batch"
      BY DEF Batches
  <1>2. ReceivedMessage(s, m) = HandlePeerError(p)
      BY DEF ReceivedMessage
  <1>3. CASE s.expected # NoSpend \/ Present(s)
    <2>1. p = Fail(s, FALSE)
        BY <1>1, <1>3 DEF ProcessMessage, Present
    <2> DEFINE x == HandlePeerError(Fail(s, FALSE))
    <2>2. Handled(s, x) /\ Quits(s, x, m.sig)
        BY FailedMessage
    <2>3. ReceivedMessage(s, m) = x
        BY <1>2, <2>1
    <2> HIDE DEF x
    <2>4. x.phase \notin {"OffChain", "Failed"}
        BY <2>2 DEF Handled, Quits
    <2> QED
        BY <2>2, <2>3, <2>4 DEF Batched
  <1>4. CASE ~(s.expected # NoSpend \/ Present(s))
    <2> DEFINE r == ProcessReceivedBatch(s, m)
    <2>1. p = RollBack(s, r)
        BY <1>1, <1>4 DEF ProcessMessage, Present, PassOnBatch
    <2>2. Waiting(s)
        BY <1>4 DEF Waiting, Playing
    <2>3. Took(s, r, m.sig) \/ Refused(s, r, m.sig) \/ Closed(s, r)
        BY <2>2, BatchProcessed
    <2> HIDE DEF r, p
    <2>4. CASE Refused(s, r, m.sig)
        BY <1>2, <2>1, <2>4, RefusedLeaves
    <2>5. r.err = FALSE => ReceivedMessage(s, m) = r
        BY <1>2, <2>1 DEF RollBack, HandlePeerError
    <2>6. CASE Took(s, r, m.sig)
        BY <2>5, <2>6 DEF Took, Batched, Receives, Answers
    <2>7. CASE Closed(s, r)
        BY <2>5, <2>7 DEF Closed, Batched, Quits, SpendsKept
    <2> QED
        BY <2>3, <2>4, <2>6, <2>7
  <1> QED
      BY <1>3, <1>4

\* The flush that follows.
LEMMA FlushedRests ==
    ASSUME NEW s, Playing(s), NEW x, Rests(s, x), x.phase = "OffChain", x.err = FALSE
    PROVE  LET r == Flush(x) IN (Rests(s, r) \/ Sends(s, r)) /\ r.phase = "OffChain"
  <1> DEFINE r == Flush(x)
  <1>1. x \in Sessions /\ SessionInv(x) /\ NoBatch(x.out) /\ (Present(x) <=> Present(s))
        /\ Steady(s.ch, x.ch) /\ SpendsKept(s, x) /\ x.out \in Seq(Messages)
        /\ (s.accused => x.accused)
      BY SessionFields DEF Rests, Sound
  <1>2. Idle(x, r) \/ (Present(x) /\ Sent(x, r))
      BY <1>1, FlushKinds
  <1> HIDE DEF r
  <1>3. CASE Idle(x, r)
    <2>1. Steady(s.ch, r.ch) /\ (Present(r) <=> Present(s)) /\ Frame(x, r) /\ r.out = x.out
          /\ r \in Sessions /\ SessionInv(r)
        BY <1>1, <1>3 DEF Idle, Steady, Present
    <2> QED
        BY <1>1, <2>1 DEF Rests, Sound, SpendsKept, Frame, Playing, r
  <1>4. CASE Present(x) /\ Sent(x, r)
    <2>1. /\ Gives(x.ch, r.ch) /\ ~Present(r) /\ Frame(x, r) /\ r \in Sessions /\ SessionInv(r)
        BY <1>4 DEF Sent, Present
    <2>2. Gives(s.ch, r.ch)
        BY <1>1, <2>1 DEF Gives, Steady
    <2>3. OneBatch(r.out, r.ch.sent)
      <3>1. PICK m \in Batches : m.sig = r.ch.sent /\ r.out = Append(x.out, m)
          BY <1>4 DEF Sent
      <3>2. m \in Messages
          BY DEF Messages
      <3> QED
          BY <3>1, <3>2, <1>1, AppendedBatch
    <2>4. Sends(s, r)
        BY <1>1, <1>4, <2>1, <2>2, <2>3 DEF Sends, Sound, SpendsKept, Frame, Playing
    <2> QED
        BY <2>1, <2>4 DEF Frame, r
  <1> QED
      BY <1>2, <1>3, <1>4

LEMMA FlushedAbsent ==
    ASSUME NEW x, ~Present(x)
    PROVE  Flush(x) = x
    BY DEF Flush, Present

LEMMA FlushedTook ==
    ASSUME NEW s, Playing(s), NEW x, NEW sig, Took(s, x, sig)
    PROVE  LET r == Flush(x) IN Receives(s, r, sig) \/ Answers(s, r, sig)
  <1> DEFINE r == Flush(x)
  <1>1. CASE Answers(s, x, sig)
    <2>1. r = x
        BY <1>1, FlushedAbsent DEF Answers
    <2> HIDE DEF r
    <2> QED
        BY <1>1, <2>1 DEF r
  <1>2. CASE Receives(s, x, sig)
    <2>1. x \in Sessions /\ SessionInv(x) /\ x.phase = "OffChain" /\ x.err = FALSE
        BY <1>2 DEF Receives, Sound, Took
    <2>2. Idle(x, r) \/ Sent(x, r)
        BY <2>1, FlushKinds
    <2> HIDE DEF r
    <2>3. Receives(s, r, sig) \/ Answers(s, r, sig)
        BY <1>2, <2>2, ReceivedIdle, ReceivedSent DEF Playing
    <2> QED
        BY <2>3 DEF r
  <1> QED
      BY <1>1, <1>2 DEF Took

\* A session between two steps.
Ready(s) ==
    /\ s \in Sessions /\ SessionInv(s) /\ s.tx = {} /\ s.out = << >> /\ s.err = FALSE

LEMMA ReadyPlaying ==
    ASSUME NEW s, Ready(s)
    PROVE  /\ s.phase = "OffChain" => Playing(s)
           /\ Leaving(s) /\ NoBatch(s.out)
  <1>1. NoBatch(s.out)
      BY DEF Ready, NoBatch, BatchesIn
  <1> QED
      BY <1>1 DEF Ready, Playing, Leaving, SessionInv

\* deliver_message
LEMMA Delivered ==
    ASSUME NEW s, Ready(s), NEW m \in Messages
    PROVE  LET r == DeliverMessage(s, m)
           IN  /\ m.k # "Batch" => Rests(s, r) \/ Sends(s, r)
               /\ m.k = "Batch" =>
                     \/ Rests(s, r) /\ s.phase # "OffChain"
                     \/ Receives(s, r, m.sig) \/ Answers(s, r, m.sig) \/ Quits(s, r, m.sig)
               /\ r.phase = "Failed" => s.phase = "Failed"
  <1> DEFINE r == DeliverMessage(s, m)
  <1>1. s \in Sessions /\ SessionInv(s) /\ s.tx = {} /\ NoBatch(s.out)
      BY ReadyPlaying DEF Ready
  <1>2. CASE s.phase = "OffChain"
    <2> DEFINE x == ReceivedMessage(s, m)
    <2>1. r = FlushOffChain(x)
        BY <1>2 DEF DeliverMessage
    <2>2. Playing(s)
        BY <1>2, ReadyPlaying
    <2>3. m.k # "Batch" => Handled(s, x)
        BY <2>2, MessageReceived
    <2>4. m.k = "Batch" => Batched(s, x, m.sig)
        BY <2>2, BatchReceived, MessageFields
    <2> HIDE DEF x, r
    <2>5. CASE x.phase # "OffChain"
      <3>1. r = x
          BY <2>1, <2>5 DEF FlushOffChain
      <3> QED
          BY <1>2, <2>3, <2>4, <2>5, <3>1 DEF Handled, Batched, r
    <2>6. CASE x.phase = "OffChain"
      <3>1. r = Flush(x)
          BY <2>1, <2>6 DEF FlushOffChain
      <3>2. CASE m.k = "Batch"
        <4>1. Took(s, x, m.sig)
            BY <2>4, <2>6, <3>2 DEF Batched
        <4>2. Receives(s, r, m.sig) \/ Answers(s, r, m.sig)
            BY <2>2, <3>1, <4>1, FlushedTook
        <4>3. r.phase = "OffChain"
            BY <4>2 DEF Receives, Answers
        <4> QED
            BY <3>2, <4>2, <4>3 DEF r
      <3>3. CASE m.k # "Batch" /\ Rests(s, x)
        <4>1. (Rests(s, r) \/ Sends(s, r)) /\ r.phase = "OffChain"
            BY <2>2, <2>3, <2>6, <3>1, <3>3, FlushedRests DEF Handled
        <4> QED
            BY <3>3, <4>1 DEF r
      <3>4. CASE m.k # "Batch" /\ Sends(s, x)
        <4>1. r = x
            BY <3>1, <3>4, FlushedAbsent DEF Sends
        <4> QED
            BY <2>6, <3>4, <4>1 DEF r
      <3> QED
          BY <2>3, <2>6, <3>2, <3>3, <3>4 DEF Handled
    <2> QED
        BY <2>5, <2>6
  <1>3. CASE s.phase = "CleanShutdown" /\ m.k = "CleanShutdownComplete"
    <2> DEFINE x == [s EXCEPT !.tx = {m.clean}]
    <2>1. r = x
        BY <1>3 DEF DeliverMessage
    <2>2. m.clean.k # "Unroll" /\ {m.clean} \in SUBSET Spends
        BY <1>3, MessageFields, ShutdownFields
    <2>3. /\ x \in Sessions /\ x.ch = s.ch /\ x.queue = s.queue /\ x.out = s.out
          /\ x.tx = {m.clean} /\ x.have_potato = s.have_potato
          /\ x.phase = s.phase /\ x.spend = s.spend /\ x.accused = s.accused
        BY <1>1, <2>2 DEF Sessions
    <2> HIDE DEF x
    <2>4. SpendsKept(s, x)
        BY <2>2, <2>3 DEF SpendsKept
    <2>5. Left(s, x)
      <3>1. Leaving(s) /\ Keeps(s.ch, s.ch)
          BY ReadyPlaying, LeavingFields
      <3> QED
          BY <3>1, <1>3, <2>3, <2>4, LeftIf
    <2>6. Rests(s, x)
        BY <1>1, <1>3, <2>3, <2>5 DEF Rests, Left, Sound, Present
    <2> HIDE DEF r
    <2> QED
        BY <1>3, <2>1, <2>3, <2>6 DEF r
  <1>4. CASE s.phase # "OffChain" /\ ~(s.phase = "CleanShutdown" /\ m.k = "CleanShutdownComplete")
    <2>1. r = s
        BY <1>4 DEF DeliverMessage
    <2>2. Rests(s, s)
        BY <1>1, <1>4 DEF Rests, Sound, Steady, SpendsKept
    <2> HIDE DEF r
    <2> QED
        BY <1>4, <2>1, <2>2 DEF r
  <1> QED
      BY <1>2, <1>3, <1>4

\* An API call, or a poll, with the flush that follows it.
LEMMA FlushedCalm ==
    ASSUME NEW s, Playing(s), NEW x, Calm(s, x)
    PROVE  LET r == Flush(x) IN (Rests(s, r) \/ Sends(s, r)) /\ r.phase = "OffChain"
  <1>1. Rests(s, x)
      BY DEF Calm, Rests, Sound, SpendsKept, Frame, Playing
  <1>2. x.phase = "OffChain" /\ x.err = FALSE
      BY DEF Calm, Frame, Playing
  <1> QED
      BY <1>1, <1>2, FlushedRests

LEMMA LeavingRests ==
    ASSUME NEW s, Ready(s), NEW r \in Sessions, Keeps(s.ch, r.ch), r.queue = s.queue,
           r.have_potato = s.have_potato, NoBatch(r.out), r.accused = s.accused,
           SpendsKept(s, r), r.phase # "OffChain"
    PROVE  Rests(s, r)
  <1>1. SessionInv(r) /\ Steady(s.ch, r.ch)
      BY ReadyPlaying, LeavingFields, LeftSession
  <1> QED
      BY <1>1 DEF Rests, Sound, Present

\* check_channel_spent and handle_channel_coin_spent
LEMMA SpendObserved ==
    ASSUME NEW s, Ready(s), NEW spend
    PROVE  LET r == ChannelSpent(s, spend)
           IN  /\ Rests(s, r) /\ r.accused = s.accused
               /\ r.phase = "Failed" => (spend.k = "Unroll" => spend.c \notin s.ch.known)
  <1> DEFINE y == Unopened(s)
  <1> DEFINE z == SettleCached(s)
  <1>1. s \in Sessions /\ SessionInv(s) /\ s.tx = {} /\ NoBatch(s.out) /\ LedgerInv(s.ch)
        /\ Keeps(s.ch, s.ch) /\ s.expected \in Shutdowns
      BY ReadyPlaying, LeavingFields, SessionFields DEF Ready
  <1>2. /\ y \in Sessions /\ Keeps(s.ch, y.ch) /\ Frame(s, y) /\ y.queue = s.queue
        /\ y.have_potato = s.have_potato /\ y.out = s.out
      BY <1>1, UnopenedFields
  <1>3. /\ z \in Sessions /\ Keeps(s.ch, z.ch) /\ Frame(s, z) /\ z.queue = s.queue
        /\ z.have_potato = s.have_potato /\ z.out = s.out
      BY <1>1, CachedSettled
  <1>4. ASSUME NEW t \in Sessions, Keeps(s.ch, t.ch), Frame(s, t), t.queue = s.queue,
               t.have_potato = s.have_potato, t.out = s.out,
               NEW f \in Phases \ {"OffChain"}
        PROVE  LET r == [t EXCEPT !.phase = f]
               IN  Rests(s, r) /\ r.accused = s.accused /\ r.phase = f
    <2> DEFINE r == [t EXCEPT !.phase = f]
    <2>1. /\ r \in Sessions /\ r.ch = t.ch /\ r.queue = t.queue /\ r.out = t.out
          /\ r.have_potato = t.have_potato /\ r.accused = t.accused /\ r.phase = f
          /\ r.tx = t.tx /\ r.spend = t.spend
        BY DEF Sessions
    <2> HIDE DEF r
    <2>2. SpendsKept(s, r) /\ r.accused = s.accused
        BY <1>1, <1>4, <2>1 DEF SpendsKept, Frame
    <2>3. Rests(s, r)
        BY <1>1, <1>4, <2>1, <2>2, LeavingRests
    <2> QED
        BY <2>1, <2>2, <2>3 DEF r
  <1>5. CASE s.phase = "OffChain" /\ HasZeroPayout(s.ch) /\ s.expected = NoSpend
    <2> DEFINE r == [s EXCEPT !.phase = "Abandoned"]
    <2>1. ChannelSpent(s, spend) = r
        BY <1>5 DEF ChannelSpent
    <2>2. Rests(s, r) /\ r.accused = s.accused /\ r.phase = "Abandoned"
        BY <1>1, <1>4 DEF Phases, Frame
    <2> HIDE DEF r
    <2> QED
        BY <2>1, <2>2
  <1>6. CASE ~(s.phase = "OffChain" /\ HasZeroPayout(s.ch) /\ s.expected = NoSpend)
    <2>1. ChannelSpent(s, spend) = HandleChannelCoinSpent(s, spend)
        BY <1>6 DEF ChannelSpent
    <2>2. CASE s.expected # NoSpend /\ spend = s.expected
      <3> DEFINE r == [z EXCEPT !.phase = "Completed"]
      <3>1. ChannelSpent(s, spend) = r
          BY <2>1, <2>2 DEF HandleChannelCoinSpent, CompletedTerminal
      <3> HIDE DEF z
      <3>2. Rests(s, r) /\ r.accused = s.accused /\ r.phase = "Completed"
          BY <1>3, <1>4 DEF Phases
      <3> HIDE DEF r
      <3> QED
          BY <3>1, <3>2
    <2>3. CASE spend # s.expected /\ spend.k = "Unroll" /\ spend.c \in s.ch.known
      <3> DEFINE f == IF HasZeroPayout(s.ch) THEN "Abandoned" ELSE "Unrolling"
      <3> DEFINE r == [y EXCEPT !.phase = f]
      <3>1. ChannelSpent(s, spend) = r
          BY <2>1, <2>3 DEF HandleChannelCoinSpent, Unopened
      <3>2. f \in Phases \ {"OffChain"} /\ f # "Failed"
          BY DEF Phases
      <3> HIDE DEF y, f
      <3>3. Rests(s, r) /\ r.accused = s.accused /\ r.phase = f
          BY <1>2, <1>4, <3>2
      <3> HIDE DEF r
      <3> QED
          BY <3>1, <3>2, <3>3
    <2>4. CASE /\ ~(s.expected # NoSpend /\ spend = s.expected)
               /\ ~(spend # s.expected /\ spend.k = "Unroll" /\ spend.c \in s.ch.known)
      <3> DEFINE r == [y EXCEPT !.phase = "Failed"]
      <3>1. ChannelSpent(s, spend) = r
        <4>1. HandleChannelCoinSpent(s, spend) = FailureCleanup(s)
            BY <2>4 DEF HandleChannelCoinSpent
        <4> QED
            BY <2>1, <4>1 DEF FailureCleanup, Unopened
      <3> HIDE DEF y
      <3>2. Rests(s, r) /\ r.accused = s.accused /\ r.phase = "Failed"
          BY <1>2, <1>4 DEF Phases
      <3> HIDE DEF r
      <3>3. spend.k = "Unroll" => spend.c \notin s.ch.known
          BY <1>1, <2>4, ShutdownFields
      <3> QED
          BY <3>1, <3>2, <3>3
    <2> QED
        BY <2>2, <2>3, <2>4
  <1> QED
      BY <1>5, <1>6

\* complete_outbound_terminal_handoff
LEMMA HandedOff ==
    ASSUME NEW s, Ready(s), s.phase = "AwaitTerminal"
    PROVE  LET r == Send([s EXCEPT !.phase = "Abandoned"],
                         [k |-> "CleanShutdownComplete", clean |-> s.expected])
           IN  Rests(s, r) /\ r.phase = "Abandoned"
  <1> DEFINE m == [k |-> "CleanShutdownComplete", clean |-> s.expected]
  <1> DEFINE o == Append(s.out, m)
  <1> DEFINE r == [s EXCEPT !.phase = "Abandoned", !.out = o]
  <1>1. s \in Sessions /\ SessionInv(s) /\ s.tx = {} /\ NoBatch(s.out) /\ Keeps(s.ch, s.ch)
        /\ s.expected \in Shutdowns /\ s.out \in Seq(Messages)
      BY ReadyPlaying, LeavingFields, SessionFields DEF Ready
  <1>2. m \in Messages /\ m.k # "Batch"
      BY <1>1 DEF Messages
  <1>3. Send([s EXCEPT !.phase = "Abandoned"], m) = r
    <2>1. [s EXCEPT !.phase = "Abandoned"].out = s.out
        BY <1>1 DEF Sessions
    <2> HIDE DEF m
    <2> QED
        BY <2>1 DEF Send
  <1>4. o \in Seq(Messages) /\ NoBatch(o)
    <2> HIDE DEF m
    <2> QED
        BY <1>1, <1>2, AppendType, AppendedBatch
  <1> HIDE DEF o
  <1>5. /\ r \in Sessions /\ r.ch = s.ch /\ r.queue = s.queue /\ r.out = o
        /\ r.have_potato = s.have_potato /\ r.accused = s.accused /\ r.phase = "Abandoned"
        /\ r.tx = s.tx /\ r.spend = s.spend
      BY <1>1, <1>4 DEF Sessions, Phases
  <1> HIDE DEF r
  <1>6. SpendsKept(s, r)
      BY <1>1, <1>5 DEF SpendsKept
  <1>7. Rests(s, r)
      BY <1>1, <1>4, <1>5, <1>6, LeavingRests
  <1> QED
      BY <1>3, <1>5, <1>7

-----------------------------------------------------------------------------
(***************************************************************************)
(* The steps of the specification.                                         *)
(***************************************************************************)

LEMMA PeerReady ==
    ASSUME PotatoInv, NEW p \in Party
    PROVE  /\ Ready(peer[p]) /\ wire[p] \in Seq(Messages)
           /\ calls \in [Party -> Nat]
           /\ peer[p].phase = "OffChain" => Playing(peer[p])
           /\ peer[p] \in Sessions /\ SessionInv(peer[p])
           /\ Ids(peer[p].ch.live) \subseteq Nat /\ Ids(peer[p].ch.proposed) \subseteq Nat
  <1>1. Ready(peer[p]) /\ wire[p] \in Seq(Messages) /\ calls \in [Party -> Nat]
      BY DEF PotatoInv, TypeInv, Ready
  <1>2. peer[p].ch \in Channels
      BY <1>1, SessionFields DEF Ready
  <1>3. Ids(peer[p].ch.live) \subseteq Nat /\ Ids(peer[p].ch.proposed) \subseteq Nat
      BY <1>2, ChannelFields, IdsType
  <1> QED
      BY <1>1, <1>3, ReadyPlaying DEF Ready

\* A step that reads no message.
LEMMA StepInv ==
    ASSUME PotatoInv, NEW p \in Party, NEW r, Step(p, r), Emit(p, r), UNCHANGED chain,
           calls' \in [Party -> Nat], Rests(peer[p], r) \/ Sends(peer[p], r),
           FailsFairly(peer[p], r)
    PROVE  PotatoInv'
  <1>1. Leaves(p, r)
      BY DEF Leaves, Step, Emit, Outgoing
  <1>2. Kind(p, r)
      BY <1>1 DEF Kind
  <1> QED
      BY <1>2, KindInv

\* An API call.
LEMMA CallInv ==
    ASSUME PotatoInv, NEW p \in Party, NEW kind, NEW r, Call(p, kind, r),
           Rests(peer[p], r) \/ Sends(peer[p], r),
           r.phase = "Failed" => peer[p].phase = "Failed"
    PROVE  PotatoInv'
  <1>1. Step(p, r) /\ Emit(p, r) /\ UNCHANGED chain
      BY DEF Call
  <1>2. calls' \in [Party -> Nat]
      BY PeerReady DEF Call
  <1>3. FailsFairly(peer[p], r)
      BY DEF FailsFairly
  <1> QED
      BY <1>1, <1>2, <1>3, StepInv

\* A call that queues what it asks for.
LEMMA QueueingInv ==
    ASSUME PotatoInv, NEW p \in Party, NEW kind, NEW x, OffChain(p), Calm(peer[p], x),
           Call(p, kind, Flush(x))
    PROVE  PotatoInv'
  <1> DEFINE r == Flush(x)
  <1>1. Playing(peer[p])
      BY PeerReady DEF OffChain
  <1>2. (Rests(peer[p], r) \/ Sends(peer[p], r)) /\ r.phase = "OffChain"
      BY <1>1, FlushedCalm
  <1>3. Call(p, kind, r)
      OBVIOUS
  <1> HIDE DEF r
  <1> QED
      BY <1>2, <1>3, CallInv

LEMMA ProposeInv ==
    ASSUME PotatoInv, NEW p \in Party, Propose(p)
    PROVE  PotatoInv'
  <1>1. PICK t \in GameTypesOf[p] :
            OffChain(p) /\ Call(p, "Propose", Flush(ProposeGames(peer[p], t)))
      BY Zenon DEF Propose
  <1>2. t \in GameTypes
      BY GameTypesOfAssumption
  <1> DEFINE x == ProposeGames(peer[p], t)
  <1>3. Calm(peer[p], x)
      BY <1>2, PeerReady, CalmPropose
  <1> HIDE DEF x
  <1> QED
      BY <1>1, <1>3, QueueingInv DEF x

LEMMA AcceptInv ==
    ASSUME PotatoInv, NEW p \in Party, Accept(p)
    PROVE  PotatoInv'
  <1>1. PICK id \in PeerProposals(p) :
            OffChain(p) /\ Call(p, "Accept", Flush(AcceptProposal(peer[p], id)))
      BY Zenon DEF Accept
  <1> DEFINE x == AcceptProposal(peer[p], id)
  <1>2. Calm(peer[p], x)
      BY PeerReady, CalmAnswer
  <1> HIDE DEF x
  <1> QED
      BY <1>1, <1>2, QueueingInv DEF x

LEMMA AcceptAndMoveInv ==
    ASSUME PotatoInv, NEW p \in Party, AcceptAndMove(p)
    PROVE  PotatoInv'
  <1>1. PICK id \in Playable(p, PeerProposals(p)), mv \in Moves :
            /\ OffChain(p)
            /\ Call(p, "AcceptAndMove", Flush(MakeMove(AcceptProposal(peer[p], id), id, mv)))
      BY Zenon DEF AcceptAndMove
  <1>2. id \in Nat
      BY PeerReady DEF Playable, PeerProposals, Answerable
  <1> DEFINE y == AcceptProposal(peer[p], id)
  <1> DEFINE x == MakeMove(y, id, mv)
  <1>3. Calm(peer[p], y)
      BY PeerReady, CalmAnswer
  <1> HIDE DEF y
  <1>4. Calm(y, x)
    <2>1. y \in Sessions /\ SessionInv(y)
        BY <1>3 DEF Calm
    <2> QED
        BY <2>1, <1>2, CalmMove
  <1> HIDE DEF x
  <1>5. Calm(peer[p], x)
      BY <1>3, <1>4, CalmTrans
  <1> QED
      BY <1>1, <1>5, QueueingInv DEF x, y

LEMMA CancelInv ==
    ASSUME PotatoInv, NEW p \in Party, Cancel(p)
    PROVE  PotatoInv'
  <1>1. PICK id \in Answerable(p) :
            OffChain(p) /\ Call(p, "Cancel", Flush(CancelProposal(peer[p], id)))
      BY Zenon DEF Cancel
  <1> DEFINE x == CancelProposal(peer[p], id)
  <1>2. Calm(peer[p], x)
      BY PeerReady, CalmAnswer
  <1> HIDE DEF x
  <1> QED
      BY <1>1, <1>2, QueueingInv DEF x

LEMMA MoveInv ==
    ASSUME PotatoInv, NEW p \in Party, Move(p)
    PROVE  PotatoInv'
  <1>1. PICK id \in Playable(p, Ids(peer[p].ch.live)), mv \in Moves :
            OffChain(p) /\ Call(p, "Move", Flush(MakeMove(peer[p], id, mv)))
      BY Zenon DEF Move
  <1>2. id \in Nat
      BY PeerReady DEF Playable
  <1> DEFINE x == MakeMove(peer[p], id, mv)
  <1>3. Calm(peer[p], x)
      BY <1>2, PeerReady, CalmMove
  <1> HIDE DEF x
  <1> QED
      BY <1>1, <1>3, QueueingInv DEF x

LEMMA AcceptSettleInv ==
    ASSUME PotatoInv, NEW p \in Party, AcceptSettle(p)
    PROVE  PotatoInv'
  <1>1. PICK id \in Playable(p, Ids(peer[p].ch.live)) :
            OffChain(p) /\ Call(p, "Settle", Flush(AcceptSettlement(peer[p], id)))
      BY Zenon DEF AcceptSettle
  <1>2. id \in Nat
      BY PeerReady DEF Playable
  <1> DEFINE x == AcceptSettlement(peer[p], id)
  <1>3. Calm(peer[p], x)
      BY <1>2, PeerReady, CalmClose
  <1> HIDE DEF x
  <1> QED
      BY <1>1, <1>3, QueueingInv DEF x

LEMMA ShutInv ==
    ASSUME PotatoInv, NEW p \in Party, Shut(p)
    PROVE  PotatoInv'
  <1>1. OffChain(p) /\ Call(p, "ShutDown", Flush(ShutDown(peer[p])))
      BY DEF Shut
  <1> DEFINE x == ShutDown(peer[p])
  <1>2. Calm(peer[p], x)
    <2>1. 0 \in Nat
        OBVIOUS
    <2> QED
        BY <2>1, PeerReady, CalmClose
  <1> HIDE DEF x
  <1> QED
      BY <1>1, <1>2, QueueingInv DEF x

\* What a session that leaves looks like to the other.
LEMMA LeftSilently ==
    ASSUME NEW s, Ready(s), NEW r, Left(s, r)
    PROVE  Rests(s, r) /\ (r.phase = "Failed" => s.phase = "Failed")
  <1>1. NoBatch(r.out) /\ (Present(r) <=> Present(s))
      BY ReadyPlaying DEF Left, Present
  <1> QED
      BY <1>1 DEF Left, Rests, Sound

LEMMA UserGoOnChainInv ==
    ASSUME PotatoInv, NEW p \in Party, UserGoOnChain(p)
    PROVE  PotatoInv'
  <1> DEFINE r == GoOnChain(peer[p])
  <1>1. Call(p, "GoOnChain", r)
      BY DEF UserGoOnChain
  <1>2. Left(peer[p], r)
      BY PeerReady, ReadyPlaying, WentOnChain
  <1> HIDE DEF r
  <1>3. Rests(peer[p], r) /\ (r.phase = "Failed" => peer[p].phase = "Failed")
      BY <1>2, PeerReady, LeftSilently
  <1> QED
      BY <1>1, <1>3, CallInv

LEMMA AbandonInv ==
    ASSUME PotatoInv, NEW p \in Party, Abandon(p)
    PROVE  PotatoInv'
  <1> DEFINE r == [peer[p] EXCEPT !.phase = "Abandoned"]
  <1>1. Call(p, "Abandon", r)
      BY DEF Abandon
  <1>2. Left(peer[p], r)
      BY PeerReady, ReadyPlaying, AbandonedLeft
  <1> HIDE DEF r
  <1>3. Rests(peer[p], r) /\ (r.phase = "Failed" => peer[p].phase = "Failed")
      BY <1>2, PeerReady, LeftSilently
  <1> QED
      BY <1>1, <1>3, CallInv

LEMMA DeliverInv ==
    ASSUME PotatoInv, NEW p \in Party, Deliver(p)
    PROVE  PotatoInv'
  <1> DEFINE m == Head(wire[p])
  <1> DEFINE r == DeliverMessage(peer[p], m)
  <1>1. wire[p] # << >> /\ Consume(p, r) /\ UNCHANGED <<chain, calls>>
      BY DEF Deliver
  <1>2. m \in Messages
      BY <1>1, PeerReady
  <1> HIDE DEF m
  <1>3. /\ m.k # "Batch" => Rests(peer[p], r) \/ Sends(peer[p], r)
        /\ m.k = "Batch" =>
              \/ Rests(peer[p], r) /\ peer[p].phase # "OffChain"
              \/ Receives(peer[p], r, m.sig) \/ Answers(peer[p], r, m.sig)
              \/ Quits(peer[p], r, m.sig)
        /\ r.phase = "Failed" => peer[p].phase = "Failed"
      BY <1>2, PeerReady, Delivered
  <1> HIDE DEF r
  <1>4. Reads(p, r)
      BY <1>1 DEF Reads, Consume, Step, Outgoing
  <1>5. Kind(p, r)
      BY <1>3, <1>4 DEF Kind, m
  <1>6. FailsFairly(peer[p], r)
      BY <1>3 DEF FailsFairly
  <1>7. calls' \in [Party -> Nat]
      BY <1>1, PeerReady
  <1> QED
      BY <1>1, <1>5, <1>6, <1>7, KindInv

LEMMA PollInv ==
    ASSUME PotatoInv, NEW p \in Party, Poll(p)
    PROVE  PotatoInv'
  <1> DEFINE r == Flush(peer[p])
  <1>1. Step(p, r) /\ Emit(p, r) /\ UNCHANGED chain /\ calls' = calls
        /\ peer[p].phase = "OffChain"
      BY DEF Poll, StepAndEmit, CanPoll, OffChain
  <1>2. Playing(peer[p]) /\ Calm(peer[p], peer[p])
      BY <1>1, PeerReady DEF Calm, Frame, Steady
  <1>3. (Rests(peer[p], r) \/ Sends(peer[p], r)) /\ r.phase = "OffChain"
      BY <1>2, FlushedCalm
  <1> HIDE DEF r
  <1>4. FailsFairly(peer[p], r) /\ calls' \in [Party -> Nat]
      BY <1>1, <1>3, PeerReady DEF FailsFairly
  <1> QED
      BY <1>1, <1>3, <1>4, StepInv

LEMMA CompleteHandoffInv ==
    ASSUME PotatoInv, NEW p \in Party, CompleteHandoff(p)
    PROVE  PotatoInv'
  <1> DEFINE r == Send([peer[p] EXCEPT !.phase = "Abandoned"],
                       [k |-> "CleanShutdownComplete", clean |-> peer[p].expected])
  <1>1. Step(p, r) /\ Emit(p, r) /\ UNCHANGED chain /\ calls' = calls
        /\ peer[p].phase = "AwaitTerminal"
      BY DEF CompleteHandoff, StepAndEmit
  <1>2. Rests(peer[p], r) /\ r.phase = "Abandoned"
      BY <1>1, PeerReady, HandedOff
  <1> HIDE DEF r
  <1>3. FailsFairly(peer[p], r) /\ calls' \in [Party -> Nat]
      BY <1>1, <1>2, PeerReady DEF FailsFairly
  <1> QED
      BY <1>1, <1>2, <1>3, StepInv

LEMMA ObserveInv ==
    ASSUME PotatoInv, NEW p \in Party, Observe(p)
    PROVE  PotatoInv'
  <1> DEFINE q == Other(p)
  <1> DEFINE r == ChannelSpent(peer[p], chain)
  <1>1. Step(p, r) /\ Emit(p, r) /\ UNCHANGED chain /\ calls' = calls /\ chain # NoSpend
      BY DEF Observe, StepAndEmit, CanObserve
  <1>2. /\ Rests(peer[p], r) /\ r.accused = peer[p].accused
        /\ r.phase = "Failed" => (chain.k = "Unroll" => chain.c \notin peer[p].ch.known)
      BY PeerReady, SpendObserved
  <1> HIDE DEF r
  <1>3. q \in Party /\ Other(q) = p /\ \A x \in Party : x = p \/ x = q
      BY OtherParty
  <1>4. chain \in published[p] \cup published[q]
    <2>1. chain \in published["alice"] \cup published["bob"]
        BY <1>1 DEF PotatoInv, TypeInv
    <2> QED
        BY <2>1, <1>3 DEF Party
  <1>5. chain.k = "Unroll" => chain.c \in peer[p].ch.known \/ peer[p].accused
    <2>1. SpendInv(p) /\ SpendInv(q)
        BY <1>3 DEF PotatoInv
    <2> QED
        BY <2>1, <1>3, <1>4 DEF SpendInv, Recorded
  <1>6. FailsFairly(peer[p], r)
      BY <1>1, <1>2, <1>5 DEF FailsFairly
  <1>7. calls' \in [Party -> Nat]
      BY <1>1, PeerReady
  <1> QED
      BY <1>1, <1>2, <1>6, <1>7, StepInv

\* What only concerns the players and their streams, and not the chain.
LEMMA ChainApart ==
    ASSUME PotatoInv, peer' = peer, wire' = wire, published' = published, calls' = calls,
           TypeInv', FailedInv', RecognisedUnlessAccused'
    PROVE  PotatoInv'
  <1>1. (\A p \in Party : SessionInv(peer[p]))'
      BY DEF PotatoInv
  <1>2. AtMostOne'
      BY DEF PotatoInv, AtMostOne, BatchTo, BatchAt, Holds
  <1>3. AtLeastOne'
      BY DEF PotatoInv, AtLeastOne, BothOffChain, OffChain, Holds, BatchTo, BatchAt
  <1>4. ASSUME NEW p \in Party PROVE BatchInv(p)' /\ HolderInv(p)' /\ SpendInv(p)'
    <2>1. BatchInv(p) /\ HolderInv(p) /\ SpendInv(p)
        BY DEF PotatoInv
    <2>2. BatchInv(p)'
        BY <2>1 DEF BatchInv, BatchAt, OffChain
    <2>3. HolderInv(p)'
        BY <2>1 DEF HolderInv, Holds, OffChain
    <2>4. SpendInv(p)'
        BY <2>1 DEF SpendInv, Recorded
    <2> QED
        BY <2>2, <2>3, <2>4
  <1>5. KnownStatesAgree'
      BY DEF PotatoInv, KnownStatesAgree
  <1> QED
      BY <1>1, <1>2, <1>3, <1>4, <1>5 DEF PotatoInv

LEMMA MineInv ==
    ASSUME PotatoInv, Mine
    PROVE  PotatoInv'
  <1>1. /\ chain = NoSpend /\ chain' \in published["alice"] \cup published["bob"]
        /\ peer' = peer /\ wire' = wire /\ published' = published /\ calls' = calls
      BY DEF Mine
  <1>2. TypeInv'
      BY <1>1 DEF PotatoInv, TypeInv
  <1>3. \A p \in Party : peer'[p].phase # "Failed"
      BY <1>1 DEF PotatoInv, FailedInv
  <1> QED
      BY <1>1, <1>2, <1>3, ChainApart DEF FailedInv, RecognisedUnlessAccused

LEMMA StillInv ==
    ASSUME PotatoInv, UNCHANGED vars
    PROVE  PotatoInv'
  <1>1. /\ peer' = peer /\ wire' = wire /\ published' = published /\ calls' = calls
        /\ chain' = chain
      BY DEF vars
  <1>2. TypeInv'
      BY <1>1 DEF PotatoInv, TypeInv
  <1>3. FailedInv' /\ RecognisedUnlessAccused'
      BY <1>1 DEF PotatoInv, FailedInv, RecognisedUnlessAccused
  <1> QED
      BY <1>1, <1>2, <1>3, ChainApart

\* The channel and the session a handshake leaves behind.
LEMMA NewChannel ==
    ASSUME NEW p \in Party
    PROVE  LET c == NewChannelState(p)
           IN  /\ c \in Channels /\ ChannelInv(c) /\ c.me = p /\ c.sn = 0
               /\ c.sent = [sn |-> 0, bal |-> Deposit, games |-> << >>]
               /\ c.received = c.sent /\ c.known = {c.sent} /\ c.live = << >>
               /\ c.proposed = << >> /\ c.bal = Deposit
  <1> DEFINE start == [sn |-> 0, bal |-> Deposit, games |-> << >>]
  <1> DEFINE zero == [q \in Party |-> 0]
  <1> DEFINE c == NewChannelState(p)
  <1>1. << >> \in Seq(Games) /\ << >> \in Seq(Redos) /\ Deposit \in [Party -> Nat]
        /\ zero \in [Party -> Nat]
      BY DepositAssumption
  <1>2. start \in States
      BY <1>1 DEF States
  <1>3. /\ c.me = p /\ c.bal = Deposit /\ c.alloc = zero /\ c.have_potato = (p = "bob")
        /\ c.redo = << >> /\ c.sn = 0 /\ c.my_nonce = (IF p = "bob" THEN 0 ELSE 1)
        /\ c.their_nonce = (IF p = "bob" THEN 1 ELSE 0) /\ c.sent = start
        /\ c.received = start /\ c.known = {start} /\ c.live = << >> /\ c.pending = {}
        /\ c.proposed = << >>
      BY DEF NewChannelState
  <1>4. c \in Channels
    <2>1. {start} \in SUBSET States /\ {} \in SUBSET Nat
        BY <1>2
    <2>2. (p = "bob") \in BOOLEAN /\ (IF p = "bob" THEN 0 ELSE 1) \in Nat
          /\ (IF p = "bob" THEN 1 ELSE 0) \in Nat
        OBVIOUS
    <2> HIDE DEF start, zero
    <2> QED
        BY <1>1, <1>2, <2>1, <2>2 DEF NewChannelState, Channels, start, zero
  <1>5. RecordInv(c)
    <2>1. start.sn = 0
        OBVIOUS
    <2> HIDE DEF c, start
    <2> QED
        BY <1>3, <2>1 DEF RecordInv
  <1>6. LedgerInv(c)
    <2>1. Total(<< >>) = zero
        BY TotalEmpty DEF Zero
    <2>2. zero["alice"] = 0 /\ zero["bob"] = 0 /\ Deposit["alice"] \in Nat /\ Deposit["bob"] \in Nat
        BY <1>1 DEF Party
    <2> HIDE DEF c, zero
    <2> QED
        BY <1>3, <2>1, <2>2 DEF LedgerInv, Pool
  <1> HIDE DEF c
  <1> QED
      BY <1>3, <1>4, <1>5, <1>6 DEF ChannelInv, c

LEMMA NewSession ==
    ASSUME NEW p \in Party
    PROVE  LET s == FromCompletedHandshake(p)
           IN  /\ s \in Sessions /\ SessionInv(s) /\ s.ch = NewChannelState(p)
               /\ s.spend = Unroll(NewChannelState(p).received)
               /\ s.phase = "OffChain" /\ s.out = << >> /\ s.tx = {} /\ s.err = FALSE
               /\ s.blame = FALSE /\ (Present(s) <=> p = "alice")
  <1> DEFINE c == NewChannelState(p)
  <1> DEFINE s == FromCompletedHandshake(p)
  <1> DEFINE hp == IF p = "alice" THEN "Present" ELSE "Absent"
  <1>1. /\ c \in Channels /\ ChannelInv(c) /\ c.live = << >> /\ c.proposed = << >>
        /\ c.sent = [sn |-> 0, bal |-> Deposit, games |-> << >>] /\ c.received = c.sent
        /\ c.bal = Deposit
      BY NewChannel
  <1>2. << >> \in Seq(QueueActions) /\ << >> \in Seq(Messages) /\ NoSpend \in Shutdowns
        /\ hp \in {"Absent", "Requested", "Present"} /\ "OffChain" \in Phases
      BY DEF Shutdowns, Phases
  <1>3. Unroll(c.received) \in Spends
      BY <1>1, ChannelFields DEF Unroll, Spends
  <1>4. s = [ch |-> c, queue |-> << >>, have_potato |-> hp, peer_wants |-> FALSE,
             spend |-> Unroll(c.received), expected |-> NoSpend, phase |-> "OffChain",
             out |-> << >>, tx |-> {}, err |-> FALSE, blame |-> FALSE, told |-> {},
             settled |-> {}, dup |-> FALSE, torn |-> FALSE, accused |-> FALSE]
      BY DEF FromCompletedHandshake
  <1> HIDE DEF c, s
  <1>5. hp = "Present" <=> p = "alice"
      OBVIOUS
  <1> HIDE DEF hp
  <1>6. s \in Sessions
      BY <1>1, <1>2, <1>3, <1>4 DEF Sessions
  <1>7. /\ s.ch = c /\ s.queue = << >> /\ s.have_potato = hp /\ s.spend = Unroll(c.received)
        /\ s.phase = "OffChain" /\ s.out = << >> /\ s.tx = {} /\ s.err = FALSE
        /\ s.blame = FALSE
      BY <1>4
  <1>8. QueueInv(s) /\ FlagsInv(s)
      BY <1>1, <1>7 DEF QueueInv, FlagsInv, Untouched
  <1>9. HeldInv(s)
      BY <1>1, <1>7 DEF HeldInv
  <1>10. SessionInv(s)
      BY <1>1, <1>7, <1>8, <1>9 DEF SessionInv, PlayInv
  <1> QED
      BY <1>5, <1>6, <1>7, <1>10 DEF c, s, Present

LEMMA InitInv == Init => PotatoInv
  <1> HAVE Init
  <1>1. \A p \in Party : peer[p] = FromCompletedHandshake(p)
      BY DEF Init
  <1>2. \A p \in Party : wire[p] = << >> /\ published[p] = {}
      BY DEF Init
  <1>3. chain = NoSpend /\ calls = [p \in Party |-> 0]
        /\ wire = [p \in Party |-> << >>] /\ published = [p \in Party |-> {}]
        /\ peer = [p \in Party |-> FromCompletedHandshake(p)]
      BY DEF Init
  <1>4. ASSUME NEW p \in Party
        PROVE  /\ peer[p] \in Sessions /\ SessionInv(peer[p]) /\ peer[p].ch.me = p
               /\ peer[p].ch.sn = 0 /\ peer[p].phase = "OffChain" /\ peer[p].out = << >>
               /\ peer[p].tx = {} /\ peer[p].err = FALSE /\ peer[p].blame = FALSE
               /\ (Holds(p) <=> p = "alice")
               /\ peer[p].ch.sent = [sn |-> 0, bal |-> Deposit, games |-> << >>]
               /\ peer[p].ch.received = [sn |-> 0, bal |-> Deposit, games |-> << >>]
               /\ peer[p].ch.known = {[sn |-> 0, bal |-> Deposit, games |-> << >>]}
               /\ peer[p].spend = Unroll(peer[p].ch.received)
    <2> DEFINE c == NewChannelState(p)
    <2> DEFINE s == FromCompletedHandshake(p)
    <2>1. /\ c.me = p /\ c.sn = 0
          /\ c.sent = [sn |-> 0, bal |-> Deposit, games |-> << >>]
          /\ c.received = c.sent /\ c.known = {c.sent}
        BY NewChannel
    <2>2. /\ s \in Sessions /\ SessionInv(s) /\ s.ch = c /\ s.spend = Unroll(c.received)
          /\ s.phase = "OffChain" /\ s.out = << >> /\ s.tx = {} /\ s.err = FALSE
          /\ s.blame = FALSE /\ (Present(s) <=> p = "alice")
        BY NewSession
    <2>3. peer[p] = s
        BY <1>1
    <2> HIDE DEF c, s
    <2> QED
        BY <2>1, <2>2, <2>3 DEF Holds
  <1>5. TypeInv
    <2>1. peer \in [Party -> Sessions]
        BY <1>1, <1>3, <1>4
    <2>2. wire \in [Party -> Seq(Messages)]
        BY <1>3
    <2>3. published \in [Party -> SUBSET Spends] /\ calls \in [Party -> Nat]
        BY <1>3
    <2> QED
        BY <2>1, <2>2, <2>3, <1>3, <1>4 DEF TypeInv
  <1>6. \A p \in Party : \A i : ~BatchAt(p, i)
      BY <1>2 DEF BatchAt
  <1>7. AtMostOne
      BY <1>4, <1>6, OtherParty DEF AtMostOne, BatchTo, Party, Other
  <1>8. AtLeastOne
      BY <1>4 DEF AtLeastOne, Party
  <1>9. ASSUME NEW p \in Party PROVE BatchInv(p) /\ HolderInv(p) /\ SpendInv(p)
    <2>1. Other(p) \in Party
        BY OtherParty
    <2>2. BatchInv(p)
        BY <1>6 DEF BatchInv
    <2>3. /\ peer[p].ch.sn = 0 /\ peer[Other(p)].ch.sn = 0
          /\ peer[Other(p)].ch.sent = peer[p].ch.received
          /\ peer[p].ch.received \in peer[p].ch.known
          /\ peer[p].ch.received \in peer[Other(p)].ch.known
          /\ peer[p].spend = Unroll(peer[p].ch.received)
      <3> DEFINE start == [sn |-> 0, bal |-> Deposit, games |-> << >>]
      <3>1. /\ peer[p].ch.sn = 0 /\ peer[p].ch.received = start /\ peer[p].ch.known = {start}
            /\ peer[p].spend = Unroll(peer[p].ch.received)
          BY <1>4
      <3>2. /\ peer[Other(p)].ch.sn = 0 /\ peer[Other(p)].ch.sent = start
            /\ peer[Other(p)].ch.known = {start}
          BY <2>1, <1>4
      <3> HIDE DEF start
      <3> QED
          BY <3>1, <3>2
    <2>4. HolderInv(p)
        BY <2>3 DEF HolderInv
    <2>5. SpendInv(p)
        BY <2>3, <1>2 DEF SpendInv, Recorded, Unroll
    <2> QED
        BY <2>2, <2>4, <2>5
  <1>10. KnownStatesAgree
      BY <1>4 DEF KnownStatesAgree, Party
  <1>11. FailedInv /\ RecognisedUnlessAccused
      BY <1>4 DEF FailedInv, RecognisedUnlessAccused
  <1> QED
      BY <1>4, <1>5, <1>7, <1>8, <1>9, <1>10, <1>11 DEF PotatoInv

LEMMA NextInv == PotatoInv /\ [Next]_vars => PotatoInv'
  <1> SUFFICES ASSUME PotatoInv, [Next]_vars PROVE PotatoInv'
      OBVIOUS
  <1>1. CASE UNCHANGED vars
      BY <1>1, StillInv
  <1>2. CASE Mine
      BY <1>2, MineInv
  <1>3. ASSUME NEW p \in Party,
               \/ Propose(p) \/ Accept(p) \/ AcceptAndMove(p) \/ Cancel(p)
               \/ Move(p) \/ AcceptSettle(p) \/ Shut(p)
               \/ UserGoOnChain(p) \/ Abandon(p)
               \/ Deliver(p) \/ Poll(p) \/ CompleteHandoff(p) \/ Observe(p)
        PROVE  PotatoInv'
      BY <1>3, ProposeInv, AcceptInv, AcceptAndMoveInv, CancelInv, MoveInv, AcceptSettleInv,
         ShutInv, UserGoOnChainInv, AbandonInv, DeliverInv, PollInv, CompleteHandoffInv,
         ObserveInv
  <1> QED
      BY <1>1, <1>2, <1>3 DEF Next

\* PotatoInv is an invariant of the channel.
THEOREM ChannelInvariant == Spec => []PotatoInv
    BY InitInv, NextInv, PTL DEF Spec

(***************************************************************************)
(* What follows from the invariant.                                        *)
(***************************************************************************)
LEMMA InvFacts ==
    ASSUME PotatoInv
    PROVE  /\ TypeInv /\ AtMostOne /\ AtLeastOne
           /\ \A p \in Party : SessionInv(peer[p]) /\ BatchInv(p) /\ HolderInv(p)
    BY DEF PotatoInv

\* A stream holds no batch or one.
LEMMA CountBatches ==
    ASSUME PotatoInv, NEW p \in Party
    PROVE  Cardinality(BatchesTo(p)) = IF BatchTo(p) THEN 1 ELSE 0
  <1>1. CASE ~BatchTo(p)
    <2>1. BatchesTo(p) = {}
        BY <1>1 DEF BatchesTo, BatchTo, BatchAt
    <2> QED
        BY <1>1, <2>1, FS_EmptySet
  <1>2. CASE BatchTo(p)
    <2>1. PICK i \in DOMAIN wire[p] : BatchAt(p, i)
        BY <1>2 DEF BatchTo
    <2>2. BatchesTo(p) = {i}
        BY <2>1, InvFacts DEF BatchesTo, BatchAt, AtMostOne
    <2> QED
        BY <1>2, <2>2, FS_Singleton
  <1> QED
      BY <1>1, <1>2

\* At most one player holds the potato.
LEMMA CountHolders ==
    ASSUME PotatoInv
    PROVE  Cardinality({p \in Party : Present(peer[p])}) =
               IF \E p \in Party : Holds(p) THEN 1 ELSE 0
  <1> DEFINE hs == {p \in Party : Present(peer[p])}
  <1>1. CASE ~\E p \in Party : Holds(p)
    <2>1. hs = {}
        BY <1>1 DEF Holds
    <2> QED
        BY <1>1, <2>1, FS_EmptySet
  <1>2. CASE \E p \in Party : Holds(p)
    <2>1. PICK p \in Party : Holds(p)
        BY <1>2
    <2>2. ~Holds(Other(p))
        BY <2>1, InvFacts DEF AtMostOne
    <2>3. hs = {p}
        BY <2>1, <2>2, OtherParty DEF Holds
    <2> QED
        BY <1>2, <2>3, FS_Singleton
  <1> QED
      BY <1>1, <1>2

LEMMA InvTypes ==
    ASSUME PotatoInv
    PROVE  TypeOK
  <1>1. TypeInv
      BY InvFacts
  <1>2. ASSUME NEW p \in Party
        PROVE  LET s == peer[p] IN
               /\ s.phase \in Phases
               /\ s.have_potato \in {"Absent", "Requested", "Present"}
               /\ s.ch.sn \in Nat /\ s.ch.have_potato \in BOOLEAN
               /\ s.ch.bal \in [Party -> Nat] /\ s.ch.alloc \in [Party -> Nat]
               /\ \A i \in DOMAIN s.ch.live : Shares(s.ch.live[i]) \in [Party -> Nat]
               /\ s.out = << >> /\ s.tx = {} /\ ~s.err /\ ~s.blame
    <2> DEFINE s == peer[p]
    <2>1. s \in Sessions /\ s.out = << >> /\ s.tx = {} /\ ~s.err /\ ~s.blame
        BY <1>1, <1>2 DEF TypeInv
    <2>2. s.ch \in Channels /\ s.phase \in Phases
          /\ s.have_potato \in {"Absent", "Requested", "Present"}
        BY <2>1 DEF Sessions
    <2>3. /\ s.ch.sn \in Nat /\ s.ch.have_potato \in BOOLEAN
          /\ s.ch.bal \in [Party -> Nat] /\ s.ch.alloc \in [Party -> Nat]
          /\ s.ch.live \in Seq(Games)
        BY <2>2 DEF Channels
    <2>4. ASSUME NEW i \in DOMAIN s.ch.live
          PROVE  Shares(s.ch.live[i]) \in [Party -> Nat]
      <3>1. s.ch.live[i] \in Games
          BY <2>3, <2>4
      <3> HIDE DEF s
      <3> QED
          BY <3>1, SharesType
    <2> QED
        BY <2>1, <2>2, <2>3, <2>4
  <1> QED
      BY <1>1, <1>2 DEF TypeOK, TypeInv

LEMMA InvUnique ==
    ASSUME PotatoInv
    PROVE  PotatoUnique
  <1> SUFFICES ASSUME BothOffChain
               PROVE  /\ Cardinality({p \in Party : peer[p].have_potato = "Present"})
                             + InFlight = 1
                      /\ \A p \in Party :
                            HasActiveGames(peer[p].ch) =>
                               (peer[p].have_potato = "Present" <=> peer[p].ch.have_potato)
      BY DEF PotatoUnique
  <1>1. Cardinality({p \in Party : peer[p].have_potato = "Present"}) =
            IF \E p \in Party : Holds(p) THEN 1 ELSE 0
      BY CountHolders DEF Present
  <1>2. InFlight = (IF BatchTo("alice") THEN 1 ELSE 0) + (IF BatchTo("bob") THEN 1 ELSE 0)
      BY CountBatches DEF InFlight, Party
  <1>3. /\ BatchTo("alice") => ~BatchTo("bob")
        /\ \A p \in Party : Holds(p) => ~BatchTo("alice") /\ ~BatchTo("bob")
        /\ (\E p \in Party : Holds(p)) \/ BatchTo("alice") \/ BatchTo("bob")
      BY InvFacts DEF AtMostOne, AtLeastOne, Party, Other
  <1>4. Cardinality({p \in Party : peer[p].have_potato = "Present"}) + InFlight = 1
    <2>1. CASE \E p \in Party : Holds(p)
        BY <1>1, <1>2, <1>3, <2>1
    <2>2. CASE ~\E p \in Party : Holds(p)
        BY <1>1, <1>2, <1>3, <2>2
    <2> QED
        BY <2>1, <2>2
  <1>5. ASSUME NEW p \in Party, HasActiveGames(peer[p].ch)
        PROVE  peer[p].have_potato = "Present" <=> peer[p].ch.have_potato
      BY <1>5, InvFacts
         DEF SessionInv, PlayInv, FlagsInv, Untouched, HasActiveGames, Present,
             BothOffChain, OffChain
  <1> QED
      BY <1>4, <1>5

LEMMA InvInStep ==
    ASSUME PotatoInv
    PROVE  StateNumbersInStep
  <1> SUFFICES ASSUME BothOffChain, NEW p \in Party
               PROVE  peer[Other(p)].ch.sn =
                          peer[p].ch.sn + Cardinality(BatchesTo(p))
                                        - Cardinality(BatchesTo(Other(p)))
      BY DEF StateNumbersInStep
  <1> DEFINE q == Other(p)
             m == peer[p].ch.sn
             n == peer[q].ch.sn
  <1>1. q \in Party /\ Other(q) = p /\ OffChain(p) /\ OffChain(q)
      BY OtherParty DEF BothOffChain
  <1>2. m \in Nat /\ n \in Nat
      BY <1>1, InvTypes DEF TypeOK
  <1>3. BatchTo(p) => n = m + 1 /\ ~BatchTo(q)
      BY <1>1, InvFacts DEF BatchTo, BatchInv, AtMostOne
  <1>4. BatchTo(q) => m = n + 1 /\ ~BatchTo(p)
      BY <1>1, InvFacts DEF BatchTo, BatchInv, AtMostOne
  <1>5. Holds(p) \/ Holds(q) => n = m
      BY <1>1, InvFacts DEF HolderInv
  <1>6. BatchTo(p) \/ BatchTo(q) \/ Holds(p) \/ Holds(q)
      BY <1>1, OtherParty, InvFacts DEF AtLeastOne
  <1>7. /\ Cardinality(BatchesTo(p)) = IF BatchTo(p) THEN 1 ELSE 0
        /\ Cardinality(BatchesTo(q)) = IF BatchTo(q) THEN 1 ELSE 0
      BY <1>1, CountBatches
  <1> HIDE DEF q, m, n
  <1>8. n = m + Cardinality(BatchesTo(p)) - Cardinality(BatchesTo(q))
    <2>1. CASE BatchTo(p)
        BY <2>1, <1>2, <1>3, <1>7
    <2>2. CASE BatchTo(q)
        BY <2>2, <1>2, <1>4, <1>7
    <2>3. CASE ~BatchTo(p) /\ ~BatchTo(q)
        BY <2>3, <1>2, <1>5, <1>6, <1>7
    <2> QED
        BY <2>1, <2>2, <2>3
  <1> QED
      BY <1>8 DEF q, m, n

LEMMA InvExchange == PotatoInv => ExchangeInv
    BY InvTypes, InvUnique, InvInStep DEF ExchangeInv

\* While both play off chain there is one potato, held or in flight, its
\* holder has the newest state, the flags agree while a game is live, and no
\* balance or share is negative, whatever is called and in whatever order.
THEOREM OnePotato == Spec => []ExchangeInv
    BY ChannelInvariant, InvExchange, PTL

\* With nothing in flight the ledger of the holder is that of the last state
\* it received, which is the last one its peer sent, and the peer's ledger is
\* that of this same state.
LEMMA InvMirror == PotatoInv => BalancesMirror
  <1> SUFFICES ASSUME PotatoInv, QuietAndWhole
               PROVE  /\ peer["alice"].ch.bal = peer["bob"].ch.bal
                      /\ peer["alice"].ch.live = peer["bob"].ch.live
                      /\ peer["alice"].ch.alloc = peer["bob"].ch.alloc
      BY DEF BalancesMirror
  <1>1. BothOffChain /\ InFlight = 0 /\ \A p \in Party : ~peer[p].torn
      BY DEF QuietAndWhole, Quiet
  <1>2. ~BatchTo("alice") /\ ~BatchTo("bob")
    <2>1. InFlight = (IF BatchTo("alice") THEN 1 ELSE 0) + (IF BatchTo("bob") THEN 1 ELSE 0)
        BY CountBatches DEF InFlight, Party
    <2> QED
        BY <2>1, <1>1
  <1>3. PICK p \in Party : Holds(p)
      BY <1>1, <1>2, InvFacts DEF AtLeastOne, Party
  <1> DEFINE q == Other(p)
  <1>4. q \in Party /\ OffChain(p) /\ OffChain(q) /\ ~Holds(q)
      BY <1>1, <1>3, OtherParty, InvFacts DEF BothOffChain, AtMostOne
  <1>5. peer[q].ch.sent = peer[p].ch.received
      BY <1>3, <1>4, InvFacts DEF HolderInv
  <1>6. HeldInv(peer[p]) /\ HeldInv(peer[q])
      BY <1>4, InvFacts DEF SessionInv, PlayInv, OffChain
  <1>7. peer[p].ch.bal = peer[q].ch.bal /\ peer[p].ch.live = peer[q].ch.live
      BY <1>1, <1>3, <1>4, <1>5, <1>6 DEF HeldInv, Holds
  <1>8. peer[p].ch.alloc = peer[q].ch.alloc
      BY <1>4, <1>7, InvFacts DEF SessionInv, ChannelInv, LedgerInv
  <1> QED
      BY <1>4, <1>7, <1>8 DEF Other, Party

\* With no batch in flight and no failed flush both players have the same
\* balances, live games and allocations.
THEOREM SameLedger == Spec => []BalancesMirror
    BY ChannelInvariant, InvMirror, PTL

LEMMA InvFunds == PotatoInv => FundsConserved
    BY DEF PotatoInv, SessionInv, ChannelInv, LedgerInv, FundsConserved

\* No operation makes or loses money: balances and live games always add up to
\* the deposits, for any list of games a factory may make.
THEOREM NoMoneyLost == Spec => []FundsConserved
    BY ChannelInvariant, InvFunds, PTL

LEMMA InvAgree == PotatoInv => KnownStatesAgree /\ RecognisedUnlessAccused
    BY DEF PotatoInv

\* A state number means one state to both players.
THEOREM OneStatePerNumber == Spec => []KnownStatesAgree
    BY ChannelInvariant, InvAgree, PTL

\* A player who accused nobody recognises every unroll that is confirmed.
THEOREM UnrollsKnown == Spec => []RecognisedUnlessAccused
    BY ChannelInvariant, InvAgree, PTL
=============================================================================
