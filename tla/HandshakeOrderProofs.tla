------------------------ MODULE HandshakeOrderProofs ------------------------
(***************************************************************************)
(* The order of the messages between honest parties: what a party has      *)
(* heard, keeps for later and is about to receive is always the part of    *)
(* the peer's messages that follows what it has taken up.  From this no    *)
(* message is taken for an error and none of the play is lost.             *)
(***************************************************************************)
EXTENDS HandshakeProofs

\* Two parties, each the other's peer.
LEMMA Peers ==
    /\ Peer("initiator") = "receiver" /\ Peer("receiver") = "initiator"
    /\ \A p \in Party : Peer(p) \in Party /\ Peer(p) # p /\ Peer(Peer(p)) = p
    /\ \A p, q \in Party : q # p => q = Peer(p)
    BY DEF Peer, Party

\* The three parts of what comes to a party are sequences of messages.
LEMMA StreamTypes ==
    FundingInv =>
        /\ \A p \in Party : /\ heard[p] \in Seq(Messages) /\ queue[p] \in Seq(Messages)
                            /\ net[p] \in Seq(Messages) /\ sent[p] \in Nat
                            /\ hs[p] \in Phases(p)
        /\ sent \in [Party -> 0..MaxPlay] /\ MaxPlay \in Nat
        /\ DOMAIN net = Party /\ DOMAIN queue = Party /\ DOMAIN heard = Party
        /\ DOMAIN hs = Party /\ DOMAIN sent = Party
  <1> SUFFICES ASSUME FundingInv
               PROVE  /\ \A p \in Party : /\ heard[p] \in Seq(Messages)
                                          /\ queue[p] \in Seq(Messages)
                                          /\ net[p] \in Seq(Messages) /\ sent[p] \in Nat
                                          /\ hs[p] \in Phases(p)
                      /\ sent \in [Party -> 0..MaxPlay] /\ MaxPlay \in Nat
                      /\ DOMAIN net = Party /\ DOMAIN queue = Party
                      /\ DOMAIN heard = Party /\ DOMAIN hs = Party /\ DOMAIN sent = Party
      OBVIOUS
  <1>1. DOMAIN hs = Party
      BY DEF FundingInv
  <1> QED
      BY <1>1, HandshakeAssumption DEF FundingInv, TypeOK

\* The same of the next state.
LEMMA StreamTypesNext ==
    FundingInv' =>
        /\ \A p \in Party : /\ heard'[p] \in Seq(Messages) /\ queue'[p] \in Seq(Messages)
                            /\ net'[p] \in Seq(Messages) /\ sent'[p] \in Nat
                            /\ hs'[p] \in Phases(p)
  <1> SUFFICES ASSUME FundingInv'
               PROVE  \A p \in Party : /\ heard'[p] \in Seq(Messages)
                                       /\ queue'[p] \in Seq(Messages)
                                       /\ net'[p] \in Seq(Messages) /\ sent'[p] \in Nat
                                       /\ hs'[p] \in Phases(p)
      OBVIOUS
  <1> QED
      BY HandshakeAssumption DEF FundingInv, TypeOK

\* The stream is a sequence of messages.
LEMMA ComingType ==
    ASSUME FundingInv, NEW p \in Party
    PROVE  Coming(p) \in Seq(Messages) /\ Len(Coming(p)) \in Nat
  <1>1. heard[p] \in Seq(Messages) /\ queue[p] \in Seq(Messages) /\ net[p] \in Seq(Messages)
      BY StreamTypes
  <1>2. heard[p] \o queue[p] \in Seq(Messages)
      BY <1>1, ConcatProperties
  <1>3. Coming(p) \in Seq(Messages)
      BY <1>1, <1>2, ConcatProperties DEF Coming
  <1> QED
      BY <1>3, LenProperties

-----------------------------------------------------------------------------
(***************************************************************************)
(* What a step does to the stream.                                         *)
(***************************************************************************)

\* A message that is put back for later stays in its place.
LEMMA PutBack ==
    ASSUME NEW h \in Seq(Messages), NEW q \in Seq(Messages), NEW n \in Seq(Messages),
           n # << >>
    PROVE  h \o Append(q, Head(n)) \o Tail(n) = h \o q \o n
  <1> DEFINE x == h \o Append(q, Head(n)) \o Tail(n)
             y == h \o q \o n
  <1>1. x \in Seq(Messages) /\ y \in Seq(Messages) /\ Len(x) = Len(y)
      OBVIOUS
  <1>2. ASSUME NEW i \in 1..Len(x) PROVE x[i] = y[i]
      OBVIOUS
  <1> HIDE DEF x, y
  <1>3. x = y
      BY <1>1, <1>2, SeqEqual
  <1> QED
      BY <1>3 DEF x, y

\* The message at the front is the first of the stream, and taking it leaves
\* the rest.
LEMMA TakeFirst ==
    ASSUME NEW q \in Seq(Messages), NEW n \in Seq(Messages),
           n # << >>
    PROVE  /\ << >> \o q \o n # << >>
           /\ Head(Append(q, Head(n))) = Head(<< >> \o q \o n)
           /\ << >> \o Tail(Append(q, Head(n))) \o Tail(n) = Tail(<< >> \o q \o n)
  <1> DEFINE x == << >> \o Tail(Append(q, Head(n))) \o Tail(n)
             y == Tail(<< >> \o q \o n)
  <1>1. x \in Seq(Messages) /\ y \in Seq(Messages) /\ Len(x) = Len(y)
      OBVIOUS
  <1>2. ASSUME NEW i \in 1..Len(x) PROVE x[i] = y[i]
      BY SMTT(40)
  <1>3. << >> \o q \o n # << >> /\ Head(Append(q, Head(n))) = Head(<< >> \o q \o n)
      OBVIOUS
  <1> HIDE DEF x, y
  <1>4. x = y
      BY <1>1, <1>2, SeqEqual
  <1> QED
      BY <1>3, <1>4 DEF x, y

\* A message that is sent comes last.
LEMMA AddLast ==
    ASSUME NEW h \in Seq(Messages), NEW q \in Seq(Messages), NEW n \in Seq(Messages),
           NEW m \in Messages
    PROVE  h \o q \o Append(n, m) = Append(h \o q \o n, m)
    OBVIOUS

\* What is taken up moves and stays in its place.
LEMMA MoveUp ==
    ASSUME NEW h \in Seq(Messages), NEW q \in Seq(Messages), NEW n \in Seq(Messages)
    PROVE  (h \o q) \o << >> \o n = h \o q \o n
    OBVIOUS

\* Messages of play are all taken up.
LEMMA PlayIsTaken ==
    ASSUME NEW q \in Seq(Messages), \A i \in 1..Len(q) : q[i].k = "Play"
    PROVE  /\ Pause(q) = Len(q) + 1
           /\ SubSeq(q, 1, Pause(q) - 1) = q
           /\ SubSeq(q, Pause(q) + 1, Len(q)) = << >>
  <1>1. Len(q) \in Nat
      OBVIOUS
  <1>2. \E i \in 1..(Len(q) + 1) :
            /\ \A j \in 1..(i - 1) : q[j].k = "Play"
            /\ i <= Len(q) => q[i].k # "Play"
      BY <1>1
  <1>3. Pause(q) \in 1..(Len(q) + 1) /\ (Pause(q) <= Len(q) => q[Pause(q)].k # "Play")
      BY <1>2 DEF Pause
  <1>4. Pause(q) = Len(q) + 1
      BY <1>1, <1>3
  <1>5. SubSeq(q, 1, Len(q)) = q
      BY SubSeqFull
  <1>6. SubSeq(q, Len(q) + 1 + 1, Len(q)) = << >>
      BY <1>1, SubSeqEmpty
  <1> QED
      BY <1>1, <1>4, <1>5, <1>6

-----------------------------------------------------------------------------
(***************************************************************************)
(* The stream of one party after a step.                                   *)
(***************************************************************************)

\* A message that is taken up was the first of the stream.
LEMMA ConsumeStream ==
    ASSUME FundingInv, NEW p \in Party, net[p] # << >>, heard[p] = << >>,
           heard'[p] = heard[p], queue'[p] = Tail(Arrived(p)), net'[p] = Tail(net[p])
    PROVE  /\ Coming(p) # << >> /\ Front(p) = Head(Coming(p))
           /\ Coming(p)' = Tail(Coming(p))
  <1>1. queue[p] \in Seq(Messages) /\ net[p] \in Seq(Messages)
      BY StreamTypes
  <1>2. /\ << >> \o queue[p] \o net[p] # << >>
        /\ Head(Append(queue[p], Head(net[p]))) = Head(<< >> \o queue[p] \o net[p])
        /\ << >> \o Tail(Append(queue[p], Head(net[p]))) \o Tail(net[p])
              = Tail(<< >> \o queue[p] \o net[p])
      BY <1>1, TakeFirst
  <1>3. Coming(p) = << >> \o queue[p] \o net[p]
      BY DEF Coming
  <1>4. Coming(p)' = << >> \o Tail(Append(queue[p], Head(net[p]))) \o Tail(net[p])
      BY DEF Coming, Arrived
  <1> QED
      BY <1>2, <1>3, <1>4 DEF Front, Arrived

\* A message that is put back leaves the stream alone.
LEMMA EarlyStream ==
    ASSUME FundingInv, NEW p \in Party, net[p] # << >>,
           heard'[p] = heard[p], queue'[p] = Arrived(p), net'[p] = Tail(net[p])
    PROVE  Coming(p)' = Coming(p)
  <1>1. heard[p] \in Seq(Messages) /\ queue[p] \in Seq(Messages) /\ net[p] \in Seq(Messages)
      BY StreamTypes
  <1>2. heard[p] \o Append(queue[p], Head(net[p])) \o Tail(net[p])
            = heard[p] \o queue[p] \o net[p]
    <2> DEFINE h == heard[p]
               q == queue[p]
               n == net[p]
    <2>1. h \in Seq(Messages) /\ q \in Seq(Messages) /\ n \in Seq(Messages) /\ n # << >>
        BY <1>1
    <2> HIDE DEF h, q, n
    <2>2. h \o Append(q, Head(n)) \o Tail(n) = h \o q \o n
        BY <2>1, PutBack
    <2> QED
        BY <2>2 DEF h, q, n
  <1> QED
      BY <1>2 DEF Coming, Arrived

\* A message that is sent is the last of the stream.
LEMMA SentStream ==
    ASSUME FundingInv, NEW p \in Party, NEW m \in Messages,
           heard'[p] = heard[p], queue'[p] = queue[p], net'[p] = Append(net[p], m)
    PROVE  Coming(p)' = Append(Coming(p), m)
  <1>1. heard[p] \in Seq(Messages) /\ queue[p] \in Seq(Messages) /\ net[p] \in Seq(Messages)
      BY StreamTypes
  <1>2. heard[p] \o queue[p] \o Append(net[p], m) = Append(heard[p] \o queue[p] \o net[p], m)
      BY <1>1, AddLast
  <1> QED
      BY <1>2 DEF Coming

\* What the states stand for, as numbers of messages.
LEMMA Counts ==
    /\ \A p, st : Takes(p, st) \in 0..3 /\ Sends(st) \in 0..3
    /\ \A st \in {"Finished", "Done"} :
          Sends(st) = 3 /\ Takes("initiator", st) = 2 /\ Takes("receiver", st) = 3
    /\ \A p \in Party :
          /\ Takes(p, "WaitingForStart") = 0 /\ Sends("WaitingForStart") = 0
          /\ Takes(p, "SentA") = 0 /\ Sends("SentA") = 1
          /\ Takes(p, "WaitingForLauncher") = 1 /\ Sends("WaitingForLauncher") = 1
          /\ Takes(p, "SentC") = 1 /\ Sends("SentC") = 2
          /\ Takes(p, "WaitingForOffer") = 2 /\ Sends("WaitingForOffer") = 2
          /\ Takes(p, "WaitingForA") = 0 /\ Sends("WaitingForA") = 0
          /\ Takes(p, "SentB") = 1 /\ Sends("SentB") = 1
          /\ Takes(p, "SentD") = 2 /\ Sends("SentD") = 2
    /\ Takes("receiver", "WaitingForCompletion") = 3 /\ Sends("WaitingForCompletion") = 2
    BY DEF Takes, Sends, Party

\* What InStep says of one party, whoever its peer is.
Steadfast(p) ==
    /\ hs[p].left => hs[p].gone
    /\ hs[p].st # "Done" => sent[p] = 0
    /\ hs[p].st = "WaitingForOffer" /\ ~hs[p].pending => hs[p].deadline # 0

\* What InStep says of a party and its peer when both are honest.
Heeds(p) ==
    /\ Taken(p) <= Made(Peer(p))
    /\ ~Deaf(p) => \E o \in {Taken(p), 3} : InOrder(p, o)

\* The same of a party whose host has not stopped.
Ordered(p) ==
    /\ Taken(p) <= Made(Peer(p))
    /\ ~hs[p].gone => \E o \in {Taken(p), 3} : InOrder(p, o)

\* InStep in two parts.
LEMMA TwoParts ==
    InStep <=> \A p \in Party : Steadfast(p) /\ (hostile = "nobody" => Heeds(p))
    BY DEF InStep, Steadfast, Heeds

\* The same of the next state.
LEMMA TwoPartsNext ==
    InStep' <=> \A p \in Party : Steadfast(p)' /\ (hostile' = "nobody" => Heeds(p)')
    BY DEF InStep, Steadfast, Heeds

\* While the host has not stopped the two are the same.
LEMMA Attends ==
    ASSUME InStep, NEW p \in Party, ~Stopped(p)
    PROVE  Steadfast(p) /\ (hostile = "nobody" => Ordered(p))
    BY TwoParts DEF Heeds, Ordered, Deaf

\* A party that listens has a host that has not stopped.
LEMMA ListeningAttends ==
    ASSUME InStep, NEW p \in Party, Listening(p)
    PROVE  ~hs[p].gone /\ Steadfast(p) /\ (hostile = "nobody" => Ordered(p))
  <1>1. ~Stopped(p) /\ ~hs[p].gone
      BY DEF Listening, Deaf
  <1> QED
      BY <1>1, Attends

\* Order of the next state is more than InStep asks for.
LEMMA OrderedHeeds == ASSUME NEW p \in Party, Ordered(p)' PROVE Heeds(p)'
    BY DEF Ordered, Heeds, Deaf

-----------------------------------------------------------------------------
(***************************************************************************)
(* One party steps, the other stays.                                       *)
(***************************************************************************)

\* What the step of p leaves alone of its peer q.
Stays(p, q) ==
    /\ hs'[q] = hs[q] /\ heard'[q] = heard[q] /\ queue'[q] = queue[q]
    /\ sent'[q] = sent[q]
    /\ hs[p].gone => hs'[p].gone

\* p sends nothing, and is where it was or has cut its peer off.
Silent(p, q) ==
    /\ net'[q] = net[q] /\ sent'[p] = sent[p]
    /\ \/ Made(p)' = Made(p)
       \/ hs'[p].gone /\ sent[p] = 0 /\ Made(p) <= Made(p)'

\* p sends the message that is due.
Speaks(p, q) ==
    /\ ~hs[p].gone /\ Made(p)' = Made(p) + 1
    /\ \E m \in Messages : Due(q, Made(p) + 1, m) /\ net'[q] = Append(net[q], m)

\* The order of q's stream is kept by a step of its peer.
LEMMA OtherKeeps ==
    ASSUME FundingInv, FundingInv', NEW p \in Party, NEW q \in Party, q = Peer(p),
           Heeds(q), Stays(p, q), Silent(p, q) \/ Speaks(p, q)
    PROVE  Heeds(q)'
  <1>1. /\ Peer(q) = p /\ Taken(q)' = Taken(q) /\ Taken(q) \in 0..3
        /\ Made(p) \in Nat /\ Made(p)' \in Nat /\ Deaf(q)' = Deaf(q)
        /\ Past(q)' = Past(q) /\ hs'[q].st = hs[q].st
    <2>1. Peer(q) = p
        BY Peers
    <2>2. Taken(q) \in 0..3
        BY Counts DEF Taken
    <2>3. Made(p) \in Nat
      <3>1. sent[p] \in Nat /\ Sends(hs[p].st) \in 0..3
          BY StreamTypes, Counts
      <3> QED
          BY <3>1 DEF Made
    <2>4. Made(p)' \in Nat
      <3>1. sent'[p] \in Nat /\ Sends(hs'[p].st) \in 0..3
          BY StreamTypesNext, Counts
      <3> QED
          BY <3>1 DEF Made
    <2> QED
        BY <2>1, <2>2, <2>3, <2>4 DEF Stays, Taken, Past, Deaf, Stopped
  <1>2. Taken(q)' <= Made(p)'
      BY <1>1 DEF Heeds, Silent, Speaks
  <1>3. ASSUME ~Deaf(q) PROVE (\E o \in {Taken(q), 3} : InOrder(q, o))'
    <2>1. PICK o \in {Taken(q), 3} : InOrder(q, o)
        BY <1>3 DEF Heeds
    <2>2. Coming(q) \in Seq(Messages) /\ Len(Coming(q)) \in Nat /\ o \in 0..3
        BY <1>1, ComingType
    <2>3. CASE Silent(p, q)
      <3>1. Coming(q)' = Coming(q)
          BY <2>3 DEF Silent, Stays, Coming
      <3>2. (\A i \in 1..Len(Coming(q)) : Due(q, o + i, Coming(q)[i]))'
          BY <2>1, <3>1 DEF InOrder, Due
      <3>3. /\ o + Len(Coming(q)) <= Made(p)'
            /\ o + Len(Coming(q)) = Made(p)' \/ (hs'[p].gone /\ sent'[p] = 0)
        <4>1. /\ o + Len(Coming(q)) <= Made(p)
              /\ o + Len(Coming(q)) = Made(p) \/ (hs[p].gone /\ sent[p] = 0)
            BY <1>1, <2>1 DEF InOrder
        <4>2. CASE Made(p)' = Made(p)
            BY <2>3, <4>1, <4>2 DEF Silent, Stays
        <4>3. CASE hs'[p].gone /\ sent[p] = 0 /\ Made(p) <= Made(p)'
            BY <1>1, <2>2, <2>3, <4>1, <4>3 DEF Silent
        <4> QED
            BY <2>3, <4>2, <4>3 DEF Silent
      <3>4. InOrder(q, o)'
          BY <1>1, <2>1, <3>1, <3>2, <3>3 DEF InOrder, Stays
      <3> QED
          BY <1>1, <3>4
    <2>4. CASE Speaks(p, q)
      <3>1. PICK m \in Messages : Due(q, Made(p) + 1, m) /\ net'[q] = Append(net[q], m)
          BY <2>4 DEF Speaks
      <3>2. Coming(q)' = Append(Coming(q), m)
          BY <3>1, SentStream DEF Stays
      <3>3. o + Len(Coming(q)) = Made(p)
          BY <1>1, <2>1, <2>4 DEF InOrder, Speaks
      <3>4. Len(Append(Coming(q), m)) = Len(Coming(q)) + 1
          BY <2>2
      <3>5. \A i \in 1..(Len(Coming(q)) + 1) : Due(q, o + i, Append(Coming(q), m)[i])
        <4>1. \A i \in 1..Len(Coming(q)) : Append(Coming(q), m)[i] = Coming(q)[i]
            BY <2>2
        <4>2. Append(Coming(q), m)[Len(Coming(q)) + 1] = m
            BY <2>2
        <4>3. \A i \in 1..Len(Coming(q)) : Due(q, o + i, Append(Coming(q), m)[i])
            BY <2>1, <4>1 DEF InOrder
        <4>4. Due(q, o + (Len(Coming(q)) + 1), Append(Coming(q), m)[Len(Coming(q)) + 1])
            BY <2>2, <3>1, <3>3, <4>2
        <4> QED
            BY <2>2, <4>3, <4>4
      <3>6. (\A i \in 1..Len(Coming(q)) : Due(q, o + i, Coming(q)[i]))'
          BY <3>2, <3>4, <3>5 DEF Due
      <3>7. InOrder(q, o)'
          BY <1>1, <2>1, <2>2, <2>4, <3>2, <3>3, <3>4, <3>6 DEF InOrder, Speaks, Stays
      <3> QED
          BY <1>1, <3>7
    <2> QED
        BY <2>3, <2>4
  <1> QED
      BY <1>1, <1>2, <1>3 DEF Heeds

\* What the peer has made does not change by a step of p.
LEMMA PeerCounts ==
    ASSUME FundingInv, NEW p \in Party, NEW q \in Party, q = Peer(p), Stays(p, q)
    PROVE  /\ Made(q)' = Made(q) /\ Made(q) \in Nat /\ Taken(p) \in 0..3
           /\ Taken(p)' \in 0..3
  <1>1. sent[q] \in Nat /\ Sends(hs[q].st) \in 0..3
      BY StreamTypes, Counts
  <1>2. Taken(p) \in 0..3 /\ Taken(p)' \in 0..3
      BY Counts DEF Taken
  <1> QED
      BY <1>1, <1>2 DEF Made, Stays

\* A party that cuts its peer off, or has done so, owes no order.
LEMMA GoneKeeps ==
    ASSUME FundingInv, NEW p \in Party, NEW q \in Party, q = Peer(p), Stays(p, q),
           Ordered(p), hs'[p].gone, Taken(p)' <= Taken(p)
    PROVE  Ordered(p)'
  <1>1. /\ Made(q)' = Made(q) /\ Made(q) \in Nat /\ Taken(p) \in 0..3
        /\ Taken(p)' \in 0..3
      BY PeerCounts
  <1>2. Taken(p)' <= Made(q)'
      BY <1>1 DEF Ordered
  <1> QED
      BY <1>2 DEF Ordered

\* A step of p that leaves its stream alone keeps its order, if the handshake
\* is over before and after the step or neither.
LEMMA StreamKept ==
    ASSUME FundingInv, NEW p \in Party, NEW q \in Party, q = Peer(p), Stays(p, q),
           Ordered(p), Taken(p)' = Taken(p), Past(p)' = Past(p),
           Coming(p)' = Coming(p), heard'[p] = heard[p], queue'[p] = queue[p],
           hs[p].st = "Done" => hs'[p].st = "Done"
    PROVE  Ordered(p)'
  <1>1. /\ Made(q)' = Made(q) /\ Made(q) \in Nat /\ Taken(p) \in 0..3
        /\ Taken(p)' \in 0..3
      BY PeerCounts
  <1>2. CASE hs'[p].gone
      BY <1>1, <1>2, GoneKeeps
  <1>3. CASE ~hs'[p].gone
    <2>1. PICK o \in {Taken(p), 3} : InOrder(p, o)
        BY <1>3 DEF Ordered, Stays
    <2>2. (\A i \in 1..Len(Coming(p)) : Due(p, o + i, Coming(p)[i]))'
        BY <2>1 DEF InOrder, Due
    <2>3. InOrder(p, o)'
        BY <1>1, <2>1, <2>2 DEF InOrder, Stays
    <2> QED
        BY <1>1, <2>3 DEF Ordered
  <1> QED
      BY <1>2, <1>3

\* A party that takes up the first message of its stream is one further on.
LEMMA ConsumeKeeps ==
    ASSUME FundingInv, NEW p \in Party, NEW q \in Party, q = Peer(p), Stays(p, q),
           NEW o \in 0..2, InOrder(p, o), Coming(p) # << >>,
           Coming(p)' = Tail(Coming(p)), heard'[p] = << >>,
           Taken(p)' <= o + 1, o + 1 \in {Taken(p)', 3}, Past(p)' \/ o + 1 = Taken(p)',
           Past(p)' => o + 1 = 3
    PROVE  Ordered(p)'
  <1>1. /\ Made(q)' = Made(q) /\ Made(q) \in Nat /\ Taken(p) \in 0..3
        /\ Taken(p)' \in 0..3
      BY PeerCounts
  <1>2. Coming(p) \in Seq(Messages) /\ Len(Coming(p)) \in Nat
      BY ComingType
  <1>3. /\ Len(Tail(Coming(p))) = Len(Coming(p)) - 1 /\ Len(Coming(p)) >= 1
        /\ \A i \in 1..(Len(Coming(p)) - 1) : Tail(Coming(p))[i] = Coming(p)[i + 1]
      BY <1>2
  <1>4. o + Len(Coming(p)) <= Made(q)
      BY DEF InOrder
  <1>5. Taken(p)' <= Made(q)'
      BY <1>1, <1>2, <1>3, <1>4
  <1>6. \A i \in 1..Len(Tail(Coming(p))) : Due(p, o + 1 + i, Tail(Coming(p))[i])
    <2> SUFFICES ASSUME NEW i \in 1..Len(Tail(Coming(p)))
                 PROVE  Due(p, o + 1 + i, Tail(Coming(p))[i])
        OBVIOUS
    <2>1. i + 1 \in 1..Len(Coming(p)) /\ o + (i + 1) = o + 1 + i
        BY <1>2, <1>3
    <2>2. Due(p, o + (i + 1), Coming(p)[i + 1])
        BY <2>1 DEF InOrder
    <2> QED
        BY <1>3, <2>1, <2>2
  <1>7. (\A i \in 1..Len(Coming(p)) : Due(p, o + 1 + i, Coming(p)[i]))'
      BY <1>6 DEF Due
  <1>8. /\ o + 1 + Len(Coming(p))' <= Made(q)'
        /\ o + 1 + Len(Coming(p))' = Made(q)' \/ (hs'[q].gone /\ sent'[q] = 0)
      BY <1>1, <1>2, <1>3 DEF InOrder, Stays
  <1>9. InOrder(p, o + 1)'
      BY <1>7, <1>8 DEF InOrder
  <1> QED
      BY <1>5, <1>9 DEF Ordered

\* A step of p keeps InStep if it keeps what InStep says of p, and what p sends
\* is due.
LEMMA HeedingKeeps ==
    ASSUME FundingInv, FundingInv', InStep, hostile' = hostile,
           NEW p \in Party, NEW q \in Party, q = Peer(p), Stays(p, q), Steadfast(p)',
           hostile = "nobody" => Heeds(p)' /\ (Silent(p, q) \/ Speaks(p, q))
    PROVE  InStep'
  <1>1. Steadfast(q) /\ (hostile = "nobody" => Heeds(q))
      BY TwoParts
  <1>2. Steadfast(q)'
      BY <1>1 DEF Steadfast, Stays
  <1>3. hostile = "nobody" => Heeds(q)'
      BY <1>1, OtherKeeps
  <1>4. \A r \in Party : r = p \/ r = q
      BY Peers
  <1> QED
      BY <1>2, <1>3, <1>4, TwoPartsNext

\* So does a step that keeps the order of p.
LEMMA StepKeeps ==
    ASSUME FundingInv, FundingInv', InStep, hostile' = hostile,
           NEW p \in Party, NEW q \in Party, q = Peer(p), Stays(p, q), Steadfast(p)',
           hostile = "nobody" => Ordered(p)' /\ (Silent(p, q) \/ Speaks(p, q))
    PROVE  InStep'
    BY OrderedHeeds, HeedingKeeps

\* A step of p that changes neither its state nor what it has sent, nor, unless
\* it processes no messages any more, its stream.
LEMMA QuietKeeps ==
    ASSUME FundingInv, FundingInv', InStep, hostile' = hostile, sent' = sent,
           NEW p \in Party,
           \A r \in Party : r # p => /\ hs'[r] = hs[r] /\ heard'[r] = heard[r]
                                     /\ queue'[r] = queue[r] /\ net'[r] = net[r],
           hs'[p].st = hs[p].st, hs[p].gone => hs'[p].gone,
           \/ Deaf(p)'
           \/ ~Stopped(p) /\ heard'[p] = heard[p] /\ queue'[p] = queue[p] /\ net'[p] = net[p],
           Steadfast(p)'
    PROVE  InStep'
  <1> DEFINE q == Peer(p)
  <1>1. q \in Party /\ q # p
      BY Peers
  <1> HIDE DEF q
  <1>2. Stays(p, q)
      BY <1>1 DEF Stays
  <1>3. Silent(p, q)
      BY <1>1 DEF Silent, Made
  <1>4. Taken(p)' = Taken(p) /\ Past(p)' = Past(p)
      BY DEF Taken, Past
  <1>5. Taken(p) \in 0..3
      BY Counts DEF Taken
  <1>6. ASSUME hostile = "nobody" PROVE Heeds(p)'
    <2>1. Heeds(p)
        BY <1>6, TwoParts
    <2>2. CASE Deaf(p)'
      <3>1. Made(q)' = Made(q)
          BY <1>1, <1>2, PeerCounts DEF q
      <3>2. Taken(p)' <= Made(q)'
          BY <1>4, <2>1, <3>1 DEF Heeds, q
      <3> QED
          BY <2>2, <3>2 DEF Heeds, q
    <2>3. CASE ~Stopped(p) /\ heard'[p] = heard[p] /\ queue'[p] = queue[p] /\ net'[p] = net[p]
      <3>1. Coming(p)' = Coming(p)
          BY <2>3 DEF Coming
      <3>2. Ordered(p)
          BY <1>6, <2>3, Attends
      <3>3. Ordered(p)'
          BY <1>1, <1>2, <1>4, <2>3, <3>1, <3>2, StreamKept DEF q
      <3> QED
          BY <3>3, OrderedHeeds
    <2> QED
        BY <2>2, <2>3
  <1> QED
      BY <1>1, <1>2, <1>3, <1>6, HeedingKeeps DEF q

\* What InStep says of a party alone is about few of its fields.
LEMMA SteadfastKept ==
    ASSUME InStep, NEW p \in Party, sent'[p] = sent[p], hs'[p].st = hs[p].st,
           hs'[p].left => hs[p].left \/ hs'[p].gone, hs[p].gone => hs'[p].gone,
           hs'[p].pending = hs[p].pending, hs'[p].deadline = hs[p].deadline
    PROVE  Steadfast(p)'
  <1>1. Steadfast(p)
      BY TwoParts
  <1> QED
      BY <1>1 DEF Steadfast

-----------------------------------------------------------------------------
(***************************************************************************)
(* The actions.                                                            *)
(***************************************************************************)

\* A step that touches none of the variables the order is about.
LEMMA ApartInStep ==
    ASSUME FundingInv, FundingInv', InStep, UNCHANGED <<hs, queue, net, sent, heard, hostile>>
    PROVE  InStep'
  <1>1. "initiator" \in Party
      BY DEF Party
  <1>2. Steadfast("initiator")'
      BY <1>1, SteadfastKept
  <1>3. Deaf("initiator")' \/ ~Stopped("initiator")
      BY DEF Deaf, Stopped
  <1> QED
      BY <1>1, <1>2, <1>3, QuietKeeps

\* A message to a party that processes none is of no consequence.
LEMMA DropInStep ==
    ASSUME FundingInv, FundingInv', InStep, NEW p \in Party, Drop(p) PROVE InStep'
  <1>1. Deaf(p)'
      BY DEF Drop, Deaf, Stopped
  <1>2. \A r \in Party : r # p => net'[r] = net[r]
      BY StreamTypes DEF Drop, Deliver
  <1>3. Steadfast(p)'
      BY SteadfastKept DEF Drop
  <1> QED
      BY <1>1, <1>2, <1>3, QuietKeeps DEF Drop

\* wallet_callback_failed sends and takes up nothing.
LEMMA WalletFailsInStep ==
    ASSUME FundingInv, FundingInv', InStep, NEW p \in Party, WalletFails(p) PROVE InStep'
  <1> DEFINE s == [hs[p] EXCEPT !.failed = TRUE]
  <1>1. hs[p] \in Phases(p) /\ DOMAIN hs = Party
      BY StreamTypes
  <1>2. /\ s.st = hs[p].st /\ s.gone = hs[p].gone /\ s.left = hs[p].left
        /\ s.pending = hs[p].pending /\ s.deadline = hs[p].deadline
      BY <1>1 DEF Phases
  <1>3. hs'[p] = s /\ \A r \in Party : r # p => hs'[r] = hs[r]
      BY <1>1 DEF WalletFails
  <1> HIDE DEF s
  <1>4. Steadfast(p)'
      BY <1>2, <1>3, SteadfastKept DEF WalletFails
  <1>5. ~Stopped(p)
      BY DEF WalletFails
  <1> QED
      BY <1>2, <1>3, <1>4, <1>5, QuietKeeps DEF WalletFails

\* go_on_chain cuts the peer off.
LEMMA UserGoesOnChainInStep ==
    ASSUME FundingInv, FundingInv', InStep, NEW p \in Party, UserGoesOnChain(p) PROVE InStep'
  <1>1. hs[p] \in Phases(p) /\ DOMAIN hs = Party
      BY StreamTypes
  <1> DEFINE s == GoOnChain(hs[p])
  <1>2. /\ s.st = hs[p].st /\ s.gone /\ s.left = hs[p].left
        /\ s.pending = hs[p].pending /\ s.deadline = hs[p].deadline
      BY <1>1 DEF Phases, GoOnChain
  <1>3. hs'[p] = s /\ \A r \in Party : r # p => hs'[r] = hs[r]
      BY <1>1 DEF UserGoesOnChain
  <1> HIDE DEF s
  <1>4. Steadfast(p)'
      BY <1>2, <1>3, SteadfastKept DEF UserGoesOnChain
  <1>5. Deaf(p)'
      BY <1>2, <1>3 DEF Deaf
  <1> QED
      BY <1>2, <1>3, <1>4, <1>5, QuietKeeps DEF UserGoesOnChain

\* abandon cuts the peer off.
LEMMA AbandonInStep ==
    ASSUME FundingInv, FundingInv', InStep, NEW p \in Party, Abandon(p) PROVE InStep'
  <1>1. hs[p] \in Phases(p) /\ DOMAIN hs = Party
      BY StreamTypes
  <1> DEFINE s == [hs[p] EXCEPT !.left = TRUE, !.gone = TRUE]
  <1>2. /\ s.st = hs[p].st /\ s.gone
        /\ s.pending = hs[p].pending /\ s.deadline = hs[p].deadline
      BY <1>1 DEF Phases
  <1>3. hs'[p] = s /\ \A r \in Party : r # p => hs'[r] = hs[r]
      BY <1>1 DEF Abandon
  <1> HIDE DEF s
  <1>4. Steadfast(p)'
      BY <1>2, <1>3, SteadfastKept DEF Abandon
  <1>5. Deaf(p)'
      BY <1>2, <1>3 DEF Deaf
  <1> QED
      BY <1>2, <1>3, <1>4, <1>5, QuietKeeps DEF Abandon

\* A wrong message cuts the peer off.
LEMMA ReceiveWrongInStep ==
    ASSUME FundingInv, FundingInv', InStep, NEW p \in Party, ReceiveWrong(p) PROVE InStep'
  <1>1. hs[p] \in Phases(p) /\ DOMAIN hs = Party /\ DOMAIN queue = Party /\ DOMAIN net = Party
      BY StreamTypes
  <1> DEFINE t == IF Front(p).k = "E" /\ Front(p).ok /\ hs[p].st = "SentD"
                  THEN StoreSignatures(hs[p]) ELSE hs[p]
             s == GoOnChain(t)
  <1>2. t.st = hs[p].st /\ t \in Phases(p)
      BY <1>1, StoreSignaturesDoes
  <1> HIDE DEF t
  <1>4. s.st = hs[p].st /\ s.gone
      BY <1>2 DEF Phases, GoOnChain
  <1>5. hs'[p] = s /\ \A r \in Party : r # p => hs'[r] = hs[r]
      BY <1>1 DEF ReceiveWrong, t
  <1> HIDE DEF s
  <1>6. Steadfast(p)'
    <2>1. Steadfast(p)
        BY TwoParts
    <2>2. sent' = sent /\ hs[p].st # "WaitingForOffer"
        BY DEF ReceiveWrong, Waits
    <2> QED
        BY <2>1, <2>2, <1>4, <1>5 DEF Steadfast
  <1>7. sent' = sent /\ heard' = heard /\ hostile' = hostile
      BY DEF ReceiveWrong
  <1>8. \A r \in Party : r # p => net'[r] = net[r] /\ queue'[r] = queue[r]
      BY <1>1 DEF ReceiveWrong, Consume, Deliver
  <1>9. Deaf(p)'
      BY <1>4, <1>5 DEF Deaf
  <1> QED
      BY <1>4, <1>5, <1>6, <1>7, <1>8, <1>9, QuietKeeps

\* A party that has no honest peer owes no order.
LEMMA MakeUpInStep ==
    ASSUME FundingInv, FundingInv', InStep, NEW p \in Party, MakeUp(p) PROVE InStep'
  <1>1. hostile' # "nobody" /\ hs' = hs /\ sent' = sent
      BY DEF MakeUp, Party
  <1>2. \A r \in Party : Steadfast(r)'
      BY <1>1, SteadfastKept
  <1> QED
      BY <1>1, <1>2, TwoPartsNext

\* A message that is put back stays in its place.
LEMMA ReceiveEarlyInStep ==
    ASSUME FundingInv, FundingInv', InStep, NEW p \in Party, ReceiveEarly(p) PROVE InStep'
  <1> DEFINE q == Peer(p)
  <1>1. q \in Party /\ q # p
      BY Peers
  <1> HIDE DEF q
  <1>2. DOMAIN queue = Party /\ DOMAIN net = Party
      BY StreamTypes
  <1>3. /\ hs' = hs /\ sent' = sent /\ heard' = heard /\ hostile' = hostile
        /\ queue'[p] = Arrived(p) /\ net'[p] = Tail(net[p]) /\ net[p] # << >>
        /\ queue'[q] = queue[q] /\ net'[q] = net[q] /\ ~hs[p].gone
      BY <1>1, <1>2 DEF ReceiveEarly, Deliver, Listening, Deaf
  <1>4. Stays(p, q) /\ Silent(p, q)
      BY <1>3 DEF Stays, Silent, Made
  <1>5. Steadfast(p)'
      BY <1>3, SteadfastKept
  <1>6. Coming(p)' = Coming(p)
      BY <1>3, EarlyStream
  <1>7. ASSUME hostile = "nobody" PROVE Ordered(p)'
    <2>1. Ordered(p)
        BY <1>7, ListeningAttends DEF ReceiveEarly
    <2>2. PICK o \in {Taken(p), 3} : InOrder(p, o)
        BY <1>3, <2>1 DEF Ordered
    <2>3. /\ Made(q)' = Made(q) /\ Made(q) \in Nat /\ Taken(p) \in 0..3
          /\ Taken(p)' = Taken(p)
        BY <1>1, <1>3, <1>4, PeerCounts DEF q, Taken
    <2>4. (\A i \in 1..Len(Coming(p)) : Due(p, o + i, Coming(p)[i]))'
        BY <1>6, <2>2 DEF InOrder, Due
    <2>5. Past(p) => o = 3
      <3> SUFFICES ASSUME Past(p), o # 3 PROVE FALSE
          OBVIOUS
      <3>1. o = Taken(p) /\ hs[p].st \in {"Finished", "Done"}
          BY DEF Past
      <3>2. p = "initiator" /\ o = 2
          BY <3>1, Counts DEF Taken, Party
      <3>3. heard[p] = << >> /\ queue[p] = << >>
          BY <2>2 DEF InOrder
      <3>4. Coming(p) = net[p] /\ net[p] \in Seq(Messages)
        <4>1. net[p] \in Seq(Messages)
            BY StreamTypes
        <4> QED
            BY <3>3, <4>1 DEF Coming
      <3>5. Front(p) = Coming(p)[1] /\ 1 \in 1..Len(Coming(p))
          BY <1>3, <3>3, <3>4 DEF Front, Arrived
      <3>6. Due(p, o + 1, Coming(p)[1])
          BY <2>2, <3>5 DEF InOrder
      <3>7. Front(p).k = "F"
          BY <3>2, <3>5, <3>6 DEF Due, Handshakes
      <3> QED
          BY <3>1, <3>2, <3>7 DEF ReceiveEarly, Waits
    <2>6. InOrder(p, o)'
        BY <1>1, <1>3, <1>6, <2>2, <2>3, <2>4, <2>5 DEF InOrder, Past, q
    <2> QED
        BY <1>1, <1>3, <2>1, <2>3, <2>6 DEF Ordered, q
  <1> QED
      BY <1>1, <1>3, <1>4, <1>5, <1>7, StepKeeps DEF q

\* A height that is known sets the deadline of a request.
LEMMA AtHeightSteadfast ==
    ASSUME NEW p \in Party, NEW s \in Phases(p), NEW h \in Heights, h > 0
    PROVE  /\ AtHeight(s, h).left = s.left
           /\ \/ /\ AtHeight(s, h).pending = s.pending
                 /\ AtHeight(s, h).deadline = s.deadline
              \/ AtHeight(s, h).deadline # 0
  <1>1. h + ChannelTimeout # 0
      BY HandshakeAssumption DEF Heights
  <1>2. CASE s.pending /\ s.st # "Done"
      BY <1>1, <1>2 DEF AtHeight, Phases
  <1>3. CASE ~(s.pending /\ s.st # "Done")
      BY <1>3 DEF AtHeight, Phases
  <1> QED
      BY <1>2, <1>3

\* new_block_height_only sends and takes up nothing.
LEMMA NewHeightInStep ==
    ASSUME FundingInv, FundingInv', InStep, NEW p \in Party, NEW h \in 1..chain.height,
           NewHeight(p, h)
    PROVE  InStep'
  <1>1. hs[p] \in Phases(p) /\ DOMAIN hs = Party /\ h \in Heights /\ h > 0
    <2>1. chain.height \in 0..MaxHeight
        BY DEF FundingInv, TypeOK, Heights
    <2>2. h \in 0..MaxHeight /\ h > 0
        BY <2>1, HandshakeAssumption
    <2> QED
        BY <2>2, StreamTypes DEF Heights
  <1> DEFINE s == AtHeight(hs[p], h)
  <1>2. s.st = hs[p].st /\ s.gone = hs[p].gone
      BY <1>1, AtHeightDoes
  <1>3. /\ s.left = hs[p].left
        /\ \/ s.pending = hs[p].pending /\ s.deadline = hs[p].deadline
           \/ s.deadline # 0
      BY <1>1, AtHeightSteadfast
  <1>4. hs'[p] = s /\ \A r \in Party : r # p => hs'[r] = hs[r]
      BY <1>1 DEF NewHeight
  <1> HIDE DEF s
  <1>5. Steadfast(p)'
    <2>1. Steadfast(p) /\ sent' = sent
        BY TwoParts DEF NewHeight
    <2> QED
        BY <1>2, <1>3, <1>4, <2>1 DEF Steadfast
  <1>6. ~Stopped(p)
      BY DEF NewHeight
  <1> QED
      BY <1>2, <1>4, <1>5, <1>6, QuietKeeps DEF NewHeight

-----------------------------------------------------------------------------
(***************************************************************************)
(* The messages of the handshake.                                          *)
(***************************************************************************)

\* The message at the front of a party that is not off chain is the first of
\* its stream, and it is due.
LEMMA FrontIsDue ==
    ASSUME FundingInv, InStep, hostile = "nobody", NEW p \in Party, Listening(p),
           hs[p].st # "Done"
    PROVE  /\ heard[p] = << >> /\ Coming(p) # << >> /\ Front(p) = Head(Coming(p))
           /\ \E o \in {Taken(p), 3} : InOrder(p, o) /\ Due(p, o + 1, Front(p))
  <1>1. queue[p] \in Seq(Messages) /\ net[p] \in Seq(Messages) /\ net[p] # << >>
      BY StreamTypes DEF Listening
  <1>2. PICK o \in {Taken(p), 3} : InOrder(p, o)
      BY ListeningAttends DEF Ordered
  <1>3. heard[p] = << >>
      BY <1>2 DEF InOrder
  <1>4. /\ << >> \o queue[p] \o net[p] # << >>
        /\ Head(Append(queue[p], Head(net[p]))) = Head(<< >> \o queue[p] \o net[p])
      BY <1>1, TakeFirst
  <1>5. Coming(p) # << >> /\ Front(p) = Head(Coming(p))
      BY <1>3, <1>4 DEF Coming, Front, Arrived
  <1>6. Coming(p) \in Seq(Messages)
      BY ComingType
  <1>7. 1 \in 1..Len(Coming(p)) /\ Front(p) = Coming(p)[1]
      BY <1>5, <1>6
  <1>8. Due(p, o + 1, Front(p))
      BY <1>2, <1>7 DEF InOrder
  <1> QED
      BY <1>2, <1>3, <1>5, <1>8

\* A party that takes up a message of the handshake is one further on.
LEMMA TakesOne ==
    ASSUME FundingInv, InStep, hostile = "nobody", NEW p \in Party, NEW q \in Party,
           q = Peer(p), Stays(p, q), Listening(p), ~Past(p), ~Past(p)',
           Taken(p)' = Taken(p) + 1, heard'[p] = heard[p],
           queue'[p] = Tail(Arrived(p)), net'[p] = Tail(net[p])
    PROVE  Ordered(p)'
  <1>1. /\ heard[p] = << >> /\ Coming(p) # << >>
        /\ \E o \in {Taken(p), 3} : InOrder(p, o)
      BY FrontIsDue DEF Past
  <1>2. Taken(p) \in 0..2
      BY PeerCounts
  <1>3. InOrder(p, Taken(p))
      BY <1>1 DEF InOrder
  <1>4. Coming(p)' = Tail(Coming(p))
      BY <1>1, ConsumeStream DEF Listening
  <1> QED
      BY <1>1, <1>2, <1>3, <1>4, ConsumeKeeps

\* The message of the handshake that a state lets a party send is due.
LEMMA PlainIsDue ==
    /\ \A k \in Kinds : Msg(k, TRUE, 0, 0) \in Messages
    /\ Due("receiver", 1, Msg("A", TRUE, 0, 0)) /\ Due("initiator", 1, Msg("B", TRUE, 0, 0))
    /\ Due("receiver", 2, Msg("C", TRUE, 0, 0)) /\ Due("initiator", 2, Msg("D", TRUE, 0, 0))
  <1>1. \A k \in Kinds : Msg(k, TRUE, 0, 0) \in Messages
      BY Plain, SoundMessages
  <1> QED
      BY <1>1 DEF Due, Handshakes, Msg

\* start_handshake sends the first message.
LEMMA StartInStep == ASSUME FundingInv, FundingInv', InStep, Start PROVE InStep'
  <1> DEFINE p == "initiator"
             q == "receiver"
             s == [hs[p] EXCEPT !.st = "SentA"]
  <1>1. /\ p \in Party /\ q \in Party /\ q = Peer(p) /\ hs[p] \in Phases(p)
        /\ DOMAIN hs = Party /\ DOMAIN net = Party
      BY StreamTypes, Peers DEF Party
  <1>2. s.st = "SentA" /\ s.gone = hs[p].gone /\ s.left = hs[p].left
      BY <1>1 DEF Phases
  <1>3. /\ hs'[p] = s /\ hs'[q] = hs[q] /\ hs[p].st = "WaitingForStart" /\ ~Stopped(p)
        /\ queue' = queue /\ sent' = sent /\ heard' = heard /\ hostile' = hostile
      BY <1>1 DEF Start
  <1>4. \/ hs[p].gone /\ net' = net
        \/ ~hs[p].gone /\ net'[p] = net[p] /\ net'[q] = Append(net[q], Msg("A", TRUE, 0, 0))
      BY <1>1 DEF Start, Send
  <1> HIDE DEF p, q, s
  <1>5. Stays(p, q)
      BY <1>2, <1>3 DEF Stays
  <1>6. Steadfast(p) /\ (hostile = "nobody" => Ordered(p))
      BY <1>1, <1>3, Attends
  <1>7. Steadfast(p)'
      BY <1>2, <1>3, <1>6 DEF Steadfast
  <1>8. Made(p) <= Made(p)' /\ Made(p)' = Made(p) + 1 /\ Made(p) + 1 = 1 /\ sent[p] = 0
      BY <1>1, <1>2, <1>3, <1>6, Counts DEF Made, Steadfast
  <1>9. Taken(p)' = Taken(p) /\ Past(p)' = Past(p)
      BY <1>1, <1>2, <1>3, Counts DEF Taken, Past
  <1>10. Silent(p, q) \/ Speaks(p, q)
    <2>1. CASE hs[p].gone /\ net' = net
        BY <1>2, <1>3, <1>8, <2>1 DEF Silent
    <2>2. CASE ~hs[p].gone /\ net'[q] = Append(net[q], Msg("A", TRUE, 0, 0))
        BY <1>8, <2>2, PlainIsDue DEF Speaks, Kinds, q
    <2> QED
        BY <1>4, <2>1, <2>2
  <1>11. Coming(p)' = Coming(p)
      BY <1>3, <1>4 DEF Coming
  <1>12. hostile = "nobody" => Ordered(p)'
      BY <1>1, <1>2, <1>3, <1>5, <1>6, <1>9, <1>11, StreamKept
  <1> QED
      BY <1>1, <1>3, <1>5, <1>7, <1>10, <1>12, StepKeeps

\* Message A is answered with B.
LEMMA ReceiveAInStep == ASSUME FundingInv, FundingInv', InStep, ReceiveA PROVE InStep'
  <1> DEFINE p == "receiver"
             q == "initiator"
             s == [hs[p] EXCEPT !.st = "SentB"]
  <1>1. /\ p \in Party /\ q \in Party /\ q = Peer(p) /\ hs[p] \in Phases(p) /\ q # p
        /\ DOMAIN hs = Party /\ DOMAIN net = Party /\ DOMAIN queue = Party
      BY StreamTypes, Peers DEF Party
  <1>2. s.st = "SentB" /\ s.gone = hs[p].gone /\ s.left = hs[p].left
      BY <1>1 DEF Phases
  <1>3. /\ hs'[p] = s /\ hs'[q] = hs[q] /\ hs[p].st = "WaitingForA" /\ Listening(p)
        /\ sent' = sent /\ heard' = heard /\ hostile' = hostile
      BY <1>1 DEF ReceiveA, Expects
  <1>4. /\ queue'[p] = Tail(Arrived(p)) /\ queue'[q] = queue[q]
        /\ net'[p] = Tail(net[p]) /\ net'[q] = Append(net[q], Msg("B", TRUE, 0, 0))
      BY <1>1 DEF ReceiveA, Reply, Consume
  <1> HIDE DEF p, q, s
  <1>5. Stays(p, q)
      BY <1>2, <1>3, <1>4 DEF Stays
  <1>6. Steadfast(p)
      BY <1>1, TwoParts
  <1>7. Steadfast(p)'
      BY <1>2, <1>3, <1>6 DEF Steadfast
  <1>8. Made(p)' = Made(p) + 1 /\ Made(p) + 1 = 1
      BY <1>1, <1>2, <1>3, <1>6, Counts DEF Made, Steadfast
  <1>9. Taken(p)' = Taken(p) + 1 /\ ~Past(p) /\ ~Past(p)'
      BY <1>1, <1>2, <1>3, Counts DEF Taken, Past
  <1>10. Speaks(p, q)
      BY <1>3, <1>4, <1>8, PlainIsDue DEF Speaks, Kinds, q, Listening, Deaf
  <1>11. hostile = "nobody" => Ordered(p)'
      BY <1>1, <1>3, <1>4, <1>5, <1>9, TakesOne
  <1> QED
      BY <1>1, <1>3, <1>5, <1>7, <1>10, <1>11, StepKeeps

\* Message C is answered with D.
LEMMA ReceiveCInStep == ASSUME FundingInv, FundingInv', InStep, ReceiveC PROVE InStep'
  <1> DEFINE p == "receiver"
             q == "initiator"
             s == [hs[p] EXCEPT !.st = "SentD"]
  <1>1. /\ p \in Party /\ q \in Party /\ q = Peer(p) /\ hs[p] \in Phases(p) /\ q # p
        /\ DOMAIN hs = Party /\ DOMAIN net = Party /\ DOMAIN queue = Party
      BY StreamTypes, Peers DEF Party
  <1>2. s.st = "SentD" /\ s.gone = hs[p].gone /\ s.left = hs[p].left
      BY <1>1 DEF Phases
  <1>3. /\ hs'[p] = s /\ hs'[q] = hs[q] /\ hs[p].st = "SentB" /\ Listening(p)
        /\ sent' = sent /\ heard' = heard /\ hostile' = hostile
      BY <1>1 DEF ReceiveC, Expects
  <1>4. /\ queue'[p] = Tail(Arrived(p)) /\ queue'[q] = queue[q]
        /\ net'[p] = Tail(net[p]) /\ net'[q] = Append(net[q], Msg("D", TRUE, 0, 0))
      BY <1>1 DEF ReceiveC, Reply, Consume
  <1> HIDE DEF p, q, s
  <1>5. Stays(p, q)
      BY <1>2, <1>3, <1>4 DEF Stays
  <1>6. Steadfast(p)
      BY <1>1, TwoParts
  <1>7. Steadfast(p)'
      BY <1>2, <1>3, <1>6 DEF Steadfast
  <1>8. Made(p)' = Made(p) + 1 /\ Made(p) + 1 = 2
      BY <1>1, <1>2, <1>3, <1>6, Counts DEF Made, Steadfast
  <1>9. Taken(p)' = Taken(p) + 1 /\ ~Past(p) /\ ~Past(p)'
      BY <1>1, <1>2, <1>3, Counts DEF Taken, Past
  <1>10. Speaks(p, q)
      BY <1>3, <1>4, <1>8, PlainIsDue DEF Speaks, Kinds, q, Listening, Deaf
  <1>11. hostile = "nobody" => Ordered(p)'
      BY <1>1, <1>3, <1>4, <1>5, <1>9, TakesOne
  <1> QED
      BY <1>1, <1>3, <1>5, <1>7, <1>10, <1>11, StepKeeps

\* Message B is taken up, and the wallet is asked for the launcher coin.
LEMMA ReceiveBInStep == ASSUME FundingInv, FundingInv', InStep, ReceiveB PROVE InStep'
  <1> DEFINE p == "initiator"
             q == "receiver"
             s == [hs[p] EXCEPT !.st = "WaitingForLauncher"]
  <1>1. /\ p \in Party /\ q \in Party /\ q = Peer(p) /\ hs[p] \in Phases(p) /\ q # p
        /\ DOMAIN hs = Party /\ DOMAIN net = Party /\ DOMAIN queue = Party
      BY StreamTypes, Peers DEF Party
  <1>2. s.st = "WaitingForLauncher" /\ s.gone = hs[p].gone /\ s.left = hs[p].left
      BY <1>1 DEF Phases
  <1>3. /\ hs'[p] = s /\ hs'[q] = hs[q] /\ hs[p].st = "SentA" /\ Listening(p)
        /\ sent' = sent /\ heard' = heard /\ hostile' = hostile
      BY <1>1 DEF ReceiveB, Expects
  <1>4. /\ queue'[p] = Tail(Arrived(p)) /\ queue'[q] = queue[q]
        /\ net'[p] = Tail(net[p]) /\ net'[q] = net[q]
      BY <1>1 DEF ReceiveB, Consume, Deliver
  <1> HIDE DEF p, q, s
  <1>5. Stays(p, q)
      BY <1>2, <1>3, <1>4 DEF Stays
  <1>6. Steadfast(p)
      BY <1>1, TwoParts
  <1>7. Steadfast(p)'
      BY <1>2, <1>3, <1>6 DEF Steadfast
  <1>8. Made(p)' = Made(p)
      BY <1>1, <1>2, <1>3, Counts DEF Made
  <1>9. Taken(p)' = Taken(p) + 1 /\ ~Past(p) /\ ~Past(p)'
      BY <1>1, <1>2, <1>3, Counts DEF Taken, Past
  <1>10. Silent(p, q)
      BY <1>3, <1>4, <1>8 DEF Silent
  <1>11. hostile = "nobody" => Ordered(p)'
      BY <1>1, <1>3, <1>4, <1>5, <1>9, TakesOne
  <1> QED
      BY <1>1, <1>3, <1>5, <1>7, <1>10, <1>11, StepKeeps

\* A request to the wallet has a deadline or waits for a height.
LEMMA StoreSignaturesAsks ==
    ASSUME NEW p \in Party, NEW s \in Phases(p)
    PROVE  /\ StoreSignatures(s).left = s.left
           /\ StoreSignatures(s).pending \/ StoreSignatures(s).deadline # 0
  <1> DEFINE t == [s EXCEPT !.sigs = TRUE]
  <1>1. t \in Phases(p) /\ t.left = s.left
      BY DEF Phases
  <1> HIDE DEF t
  <1>2. NotValidAfter(t) # 0
      BY <1>1, HandshakeAssumption DEF NotValidAfter, Phases, Heights
  <1>3. /\ RequestSpend(t).left = t.left
        /\ RequestSpend(t).pending \/ RequestSpend(t).deadline # 0
    <2>1. CASE t.height > 0
        BY <1>1, <1>2, <2>1 DEF RequestSpend, Phases
    <2>2. CASE ~(t.height > 0)
        BY <1>1, <2>2 DEF RequestSpend, Phases
    <2> QED
        BY <2>1, <2>2
  <1> QED
      BY <1>1, <1>3 DEF StoreSignatures, t

\* Message D is taken up, and the wallet is asked for the initiator's half.
LEMMA ReceiveDInStep == ASSUME FundingInv, FundingInv', InStep, ReceiveD PROVE InStep'
  <1> DEFINE p == "initiator"
             q == "receiver"
             t == StoreSignatures(hs[p])
             s == [t EXCEPT !.st = "WaitingForOffer"]
  <1>1. /\ p \in Party /\ q \in Party /\ q = Peer(p) /\ hs[p] \in Phases(p) /\ q # p
        /\ DOMAIN hs = Party /\ DOMAIN net = Party /\ DOMAIN queue = Party
      BY StreamTypes, Peers DEF Party
  <1>2. /\ t \in Phases(p) /\ t.gone = hs[p].gone /\ t.left = hs[p].left
        /\ t.pending \/ t.deadline # 0
      BY <1>1, StoreSignaturesDoes, StoreSignaturesAsks
  <1>3. /\ hs' = [hs EXCEPT ![p] = s] /\ hs[p].st = "SentC" /\ Listening(p)
        /\ sent' = sent /\ heard' = heard /\ hostile' = hostile
      BY DEF ReceiveD, Expects
  <1> HIDE DEF t
  <1>4. /\ s.st = "WaitingForOffer" /\ s.gone = hs[p].gone /\ s.left = hs[p].left
        /\ s.pending \/ s.deadline # 0
      BY <1>2 DEF Phases
  <1>5. hs'[p] = s /\ hs'[q] = hs[q]
      BY <1>1, <1>3
  <1>6. /\ queue'[p] = Tail(Arrived(p)) /\ queue'[q] = queue[q]
        /\ net'[p] = Tail(net[p]) /\ net'[q] = net[q]
      BY <1>1 DEF ReceiveD, Consume, Deliver
  <1> HIDE DEF p, q, s
  <1>7. Stays(p, q)
      BY <1>3, <1>4, <1>5, <1>6 DEF Stays
  <1>8. Steadfast(p)
      BY <1>1, TwoParts
  <1>9. Steadfast(p)'
      BY <1>3, <1>4, <1>5, <1>8 DEF Steadfast
  <1>10. Made(p)' = Made(p)
      BY <1>1, <1>3, <1>4, <1>5, Counts DEF Made
  <1>11. Taken(p)' = Taken(p) + 1 /\ ~Past(p) /\ ~Past(p)'
      BY <1>1, <1>3, <1>4, <1>5, Counts DEF Taken, Past
  <1>12. Silent(p, q)
      BY <1>3, <1>6, <1>10 DEF Silent
  <1>13. hostile = "nobody" => Ordered(p)'
      BY <1>1, <1>3, <1>6, <1>7, <1>11, TakesOne
  <1> QED
      BY <1>1, <1>3, <1>7, <1>9, <1>12, <1>13, StepKeeps

\* Message E is taken up, and the wallet is asked for the receiver's half.
LEMMA ReceiveEInStep == ASSUME FundingInv, FundingInv', InStep, ReceiveE PROVE InStep'
  <1> DEFINE p == "receiver"
             q == "initiator"
             t == StoreSignatures(hs[p])
             b == Front(p).bundle
             s == [t EXCEPT !.st = "WaitingForCompletion", !.theirs = b]
  <1>1. /\ p \in Party /\ q \in Party /\ q = Peer(p) /\ hs[p] \in Phases(p) /\ q # p
        /\ DOMAIN hs = Party /\ DOMAIN net = Party /\ DOMAIN queue = Party
      BY StreamTypes, Peers DEF Party
  <1>2. t \in Phases(p) /\ t.gone = hs[p].gone /\ t.left = hs[p].left
      BY <1>1, StoreSignaturesDoes, StoreSignaturesAsks
  <1>3. /\ hs' = [hs EXCEPT ![p] = s] /\ hs[p].st = "SentD" /\ Listening(p)
        /\ sent' = sent /\ heard' = heard /\ hostile' = hostile
      BY DEF ReceiveE, Expects
  <1> HIDE DEF t, b
  <1>4. s.st = "WaitingForCompletion" /\ s.gone = hs[p].gone /\ s.left = hs[p].left
      BY <1>2 DEF Phases
  <1>5. hs'[p] = s /\ hs'[q] = hs[q]
      BY <1>1, <1>3
  <1>6. /\ queue'[p] = Tail(Arrived(p)) /\ queue'[q] = queue[q]
        /\ net'[p] = Tail(net[p]) /\ net'[q] = net[q]
      BY <1>1 DEF ReceiveE, Consume, Deliver
  <1>7. Sends("WaitingForCompletion") = Sends("SentD") /\ Takes(p, "SentD") = 2
        /\ Takes(p, "WaitingForCompletion") = 3
      BY <1>1, Counts
  <1> HIDE DEF p, q, s
  <1>8. Stays(p, q)
      BY <1>3, <1>4, <1>5, <1>6 DEF Stays
  <1>9. Steadfast(p)
      BY <1>1, TwoParts
  <1>10. Steadfast(p)'
      BY <1>3, <1>4, <1>5, <1>9 DEF Steadfast
  <1>11. Made(p)' = Made(p)
      BY <1>3, <1>4, <1>5, <1>7 DEF Made
  <1>12. Taken(p)' = Taken(p) + 1 /\ ~Past(p) /\ ~Past(p)'
      BY <1>3, <1>4, <1>5, <1>7 DEF Taken, Past
  <1>13. Silent(p, q)
      BY <1>3, <1>6, <1>11 DEF Silent
  <1>14. hostile = "nobody" => Ordered(p)'
      BY <1>1, <1>3, <1>6, <1>8, <1>12, TakesOne
  <1> QED
      BY <1>1, <1>3, <1>8, <1>10, <1>13, <1>14, StepKeeps

\* Message F is the last of the handshake.
LEMMA ReceiveFInStep == ASSUME FundingInv, FundingInv', InStep, ReceiveF PROVE InStep'
  <1> DEFINE p == "initiator"
             q == "receiver"
             s == Spending(hs[p])
  <1>1. /\ p \in Party /\ q \in Party /\ q = Peer(p) /\ hs[p] \in Phases(p) /\ q # p
        /\ DOMAIN hs = Party /\ DOMAIN net = Party /\ DOMAIN queue = Party
      BY StreamTypes, Peers DEF Party
  <1>2. /\ s.st = hs[p].st /\ s.gone = hs[p].gone /\ s.left = hs[p].left
        /\ s.pending = hs[p].pending /\ s.deadline = hs[p].deadline
      BY <1>1 DEF Phases, Spending
  <1>3. /\ hs'[p] = s /\ hs'[q] = hs[q] /\ hs[p].st = "Finished" /\ Listening(p)
        /\ sent' = sent /\ heard' = heard /\ hostile' = hostile /\ Front(p).k = "F"
      BY <1>1 DEF ReceiveF
  <1>4. /\ queue'[p] = Tail(Arrived(p)) /\ queue'[q] = queue[q]
        /\ net'[p] = Tail(net[p]) /\ net'[q] = net[q]
      BY <1>1 DEF ReceiveF, Consume, Deliver
  <1>5. Takes(p, "Finished") = 2
      BY Counts
  <1> HIDE DEF p, q, s
  <1>6. Stays(p, q) /\ Silent(p, q)
      BY <1>2, <1>3, <1>4 DEF Stays, Silent, Made
  <1>7. Steadfast(p)'
      BY <1>1, <1>2, <1>3, SteadfastKept
  <1>8. Taken(p) = 2 /\ Taken(p)' = 2 /\ Past(p)'
      BY <1>2, <1>3, <1>5 DEF Taken, Past
  <1>9. ASSUME hostile = "nobody" PROVE Ordered(p)'
    <2>1. /\ heard[p] = << >> /\ Coming(p) # << >>
          /\ \E o \in {Taken(p), 3} : InOrder(p, o) /\ Due(p, o + 1, Front(p))
        BY <1>1, <1>3, <1>9, FrontIsDue
    <2>2. PICK o \in {Taken(p), 3} : InOrder(p, o) /\ Due(p, o + 1, Front(p))
        BY <2>1
    <2>3. o = 2
        BY <1>3, <1>8, <2>2 DEF Due
    <2>4. Coming(p)' = Tail(Coming(p)) /\ heard'[p] = << >>
        BY <1>1, <1>3, <1>4, <2>1, ConsumeStream DEF Listening
    <2>5. InOrder(p, 2)
        BY <2>2, <2>3
    <2> QED
        BY <1>1, <1>6, <1>8, <2>1, <2>4, <2>5, ConsumeKeeps
  <1> QED
      BY <1>1, <1>3, <1>6, <1>7, <1>9, StepKeeps

\* Message C goes out with the launcher coin, unless the peer is cut off.
LEMMA ProvideLauncherCoinInStep ==
    ASSUME FundingInv, FundingInv', InStep, ProvideLauncherCoin PROVE InStep'
  <1> DEFINE p == "initiator"
             q == "receiver"
             s == [hs[p] EXCEPT !.st = "SentC"]
  <1>1. /\ p \in Party /\ q \in Party /\ q = Peer(p) /\ hs[p] \in Phases(p)
        /\ DOMAIN hs = Party /\ DOMAIN net = Party
      BY StreamTypes, Peers DEF Party
  <1>2. s.st = "SentC" /\ s.gone = hs[p].gone /\ s.left = hs[p].left
      BY <1>1 DEF Phases
  <1>3. /\ hs'[p] = s /\ hs'[q] = hs[q] /\ hs[p].st = "WaitingForLauncher"
        /\ ~Stopped(p) /\ queue' = queue /\ sent' = sent /\ heard' = heard /\ hostile' = hostile
      BY <1>1 DEF ProvideLauncherCoin, FundingInv, Asking
  <1>4. \/ hs[p].gone /\ net' = net
        \/ ~hs[p].gone /\ net'[p] = net[p] /\ net'[q] = Append(net[q], Msg("C", TRUE, 0, 0))
      BY <1>1 DEF ProvideLauncherCoin, Send
  <1> HIDE DEF p, q, s
  <1>5. Stays(p, q)
      BY <1>2, <1>3 DEF Stays
  <1>6. Steadfast(p) /\ (hostile = "nobody" => Ordered(p))
      BY <1>1, <1>3, Attends
  <1>7. Steadfast(p)'
      BY <1>2, <1>3, <1>6 DEF Steadfast
  <1>8. Made(p) <= Made(p)' /\ Made(p)' = Made(p) + 1 /\ Made(p) + 1 = 2 /\ sent[p] = 0
      BY <1>1, <1>2, <1>3, <1>6, Counts DEF Made, Steadfast
  <1>9. Taken(p)' = Taken(p) /\ Past(p)' = Past(p)
      BY <1>1, <1>2, <1>3, Counts DEF Taken, Past
  <1>10. Silent(p, q) \/ Speaks(p, q)
    <2>1. CASE hs[p].gone /\ net' = net
        BY <1>2, <1>3, <1>8, <2>1 DEF Silent
    <2>2. CASE ~hs[p].gone /\ net'[q] = Append(net[q], Msg("C", TRUE, 0, 0))
        BY <1>8, <2>2, PlainIsDue DEF Speaks, Kinds, q
    <2> QED
        BY <1>4, <2>1, <2>2
  <1>11. Coming(p)' = Coming(p)
      BY <1>3, <1>4 DEF Coming
  <1>12. hostile = "nobody" => Ordered(p)'
      BY <1>1, <1>2, <1>3, <1>5, <1>6, <1>9, <1>11, StreamKept
  <1> QED
      BY <1>1, <1>3, <1>5, <1>7, <1>10, <1>12, StepKeeps

\* An off-chain message is the next of the play.
LEMMA PlayInStep ==
    ASSUME FundingInv, FundingInv', InStep, NEW p \in Party, Play(p) PROVE InStep'
  <1> DEFINE q == Peer(p)
             m == Msg("Play", TRUE, 0, sent[p] + 1)
  <1>1. /\ q \in Party /\ q = Peer(p) /\ q # p /\ hs[p] \in Phases(p)
        /\ DOMAIN net = Party /\ DOMAIN sent = Party /\ sent[p] \in Nat
      BY StreamTypes, Peers
  <1>2. /\ hs' = hs /\ queue' = queue /\ heard' = heard /\ hostile' = hostile
        /\ hs[p].st = "Done" /\ ~hs[p].gone /\ sent[p] < MaxPlay
        /\ net'[p] = net[p] /\ net'[q] = Append(net[q], m)
        /\ sent'[p] = sent[p] + 1 /\ sent'[q] = sent[q]
      BY <1>1 DEF Play, Deaf
  <1>3. m \in Messages
      BY <1>1, <1>2, HandshakeAssumption, NoBundle DEF Msg, Messages, Kinds
  <1>4. Due(q, sent[p] + 4, m)
      BY <1>1 DEF Due, Msg
  <1> HIDE DEF q, m
  <1>5. Stays(p, q)
      BY <1>2 DEF Stays
  <1>6. Steadfast(p) /\ (hostile = "nobody" => Ordered(p))
      BY Attends DEF Play, Deaf
  <1>7. Steadfast(p)'
      BY <1>2, <1>6 DEF Steadfast
  <1>8. Made(p)' = Made(p) + 1 /\ Made(p) + 1 = sent[p] + 4
      BY <1>1, <1>2, Counts DEF Made
  <1>9. Speaks(p, q)
      BY <1>2, <1>3, <1>4, <1>8 DEF Speaks
  <1>10. Taken(p)' = Taken(p) /\ Past(p)' = Past(p) /\ Coming(p)' = Coming(p)
      BY <1>2 DEF Taken, Past, Coming
  <1>11. hostile = "nobody" => Ordered(p)'
      BY <1>1, <1>2, <1>5, <1>6, <1>10, StreamKept
  <1> QED
      BY <1>1, <1>2, <1>5, <1>7, <1>9, <1>11, StepKeeps

-----------------------------------------------------------------------------
(***************************************************************************)
(* Going off chain.                                                        *)
(***************************************************************************)

\* What is taken up is messages of play: they are heard, and the phase stays
\* off chain.
LEMMA HearPlay ==
    ASSUME FundingInv, NEW p \in Party, NEW s \in Phases(p), NEW x \in Seq(Messages),
           \A i \in 1..Len(x) : x[i].k = "Play", TakeUp(p, s, x)
    PROVE  heard'[p] = heard[p] \o x /\ queue'[p] = << >> /\ hs'[p] = s
  <1>1. /\ Pause(x) = Len(x) + 1
        /\ SubSeq(x, 1, Pause(x) - 1) = x
        /\ SubSeq(x, Pause(x) + 1, Len(x)) = << >>
      BY PlayIsTaken
  <1>2. ~(Pause(x) <= Len(x))
    <2>1. Len(x) \in Nat
        OBVIOUS
    <2> QED
        BY <1>1, <2>1
  <1>3. DOMAIN hs = Party /\ DOMAIN queue = Party /\ DOMAIN heard = Party
      BY StreamTypes
  <1>4. heard'[p] = heard[p] \o SubSeq(x, 1, Pause(x) - 1)
      BY <1>3 DEF TakeUp
  <1>5. queue'[p] = SubSeq(x, Pause(x) + 1, Len(x))
      BY <1>3 DEF TakeUp
  <1>6. hs'[p] = s
      BY <1>2, <1>3 DEF TakeUp
  <1> QED
      BY <1>1, <1>4, <1>5, <1>6

\* Taking up messages leaves the peer alone.
LEMMA TakeUpApart ==
    ASSUME FundingInv, NEW p \in Party, NEW s \in Phases(p), NEW x, TakeUp(p, s, x)
    PROVE  /\ hs'[p] \in {s, GoOnChain(s)}
           /\ \A r \in Party : r # p => /\ hs'[r] = hs[r] /\ heard'[r] = heard[r]
                                        /\ queue'[r] = queue[r]
  <1>1. DOMAIN hs = Party /\ DOMAIN queue = Party /\ DOMAIN heard = Party
      BY StreamTypes
  <1> QED
      BY <1>1 DEF TakeUp

\* So does becoming another phase.
LEMMA BecomeApart ==
    ASSUME FundingInv, NEW p \in Party, NEW s \in Phases(p), Become(p, s)
    PROVE  /\ hs'[p] \in {s, GoOnChain(s)}
           /\ \A r \in Party : r # p => /\ hs'[r] = hs[r] /\ heard'[r] = heard[r]
                                        /\ queue'[r] = queue[r]
  <1>1. DOMAIN hs = Party
      BY StreamTypes
  <1>2. CASE s.st = "Done" /\ ~s.unrolling
      BY <1>2, TakeUpApart DEF Become
  <1>3. CASE ~(s.st = "Done" /\ ~s.unrolling)
      BY <1>1, <1>3 DEF Become
  <1> QED
      BY <1>2, <1>3

\* The phase that results is steadfast if the one intended is.
LEMMA BecomeSteadfast ==
    ASSUME FundingInv, NEW p \in Party, NEW s \in Phases(p), hs'[p] \in {s, GoOnChain(s)},
           s.left => s.gone, s.st # "Done" => sent'[p] = 0,
           s.st = "WaitingForOffer" /\ ~s.pending => s.deadline # 0
    PROVE  Steadfast(p)' /\ hs'[p].st = s.st /\ (s.gone => hs'[p].gone)
  <1> DEFINE t == GoOnChain(s)
  <1>1. /\ t.st = s.st /\ t.gone /\ t.left = s.left /\ t.pending = s.pending
        /\ t.deadline = s.deadline
      BY DEF GoOnChain, Phases
  <1>2. hs'[p] = s \/ hs'[p] = t
      OBVIOUS
  <1> HIDE DEF t
  <1> QED
      BY <1>1, <1>2 DEF Steadfast

\* A place of the queue is one of the stream.
LEMMA QueuePlace ==
    ASSUME NEW h \in Seq(Messages), NEW x \in Seq(Messages), NEW n \in Seq(Messages),
           NEW i \in 1..Len(x)
    PROVE  /\ Len(h) + i \in 1..Len(h \o x \o n)
           /\ (h \o x \o n)[Len(h) + i] = x[i]
    OBVIOUS

\* Once the handshake is over, only messages of play come.
LEMMA OnlyPlay ==
    ASSUME FundingInv, NEW p \in Party, InOrder(p, 3), NEW x \in Seq(Messages),
           NEW n \in Seq(Messages), Coming(p) = heard[p] \o x \o n
    PROVE  \A i \in 1..Len(x) : x[i].k = "Play"
  <1> SUFFICES ASSUME NEW i \in 1..Len(x) PROVE x[i].k = "Play"
      OBVIOUS
  <1> DEFINE h == heard[p]
  <1>1. h \in Seq(Messages) /\ Len(h) \in Nat /\ i \in Nat /\ i >= 1
      BY StreamTypes
  <1> HIDE DEF h
  <1>2. /\ Len(h) + i \in 1..Len(h \o x \o n)
        /\ (h \o x \o n)[Len(h) + i] = x[i]
      BY <1>1, QueuePlace
  <1>3. Len(h) + i \in 1..Len(Coming(p)) /\ Coming(p)[Len(h) + i] = x[i]
      BY <1>2 DEF h
  <1>4. Due(p, 3 + (Len(h) + i), x[i])
      BY <1>3 DEF InOrder
  <1>5. ~(3 + (Len(h) + i) <= 3)
      BY <1>1
  <1> QED
      BY <1>4, <1>5 DEF Due

\* A party that has nothing more to do in the handshake keeps its order: it
\* hears what it kept for later, once it is off chain.
LEMMA BecomeOrdered ==
    ASSUME FundingInv, NEW p \in Party, NEW q \in Party, q = Peer(p), Ordered(p),
           Stays(p, q), NEW s \in Phases(p), Become(p, s), hs'[p].st = s.st,
           s.gone => hs'[p].gone, hs[p].gone => s.gone,
           s.st \in {"Finished", "Done"}, hs[p].st = "Done" => s.st = "Done",
           Taken(p)' = Taken(p), net'[p] = net[p],
           \A o \in {Taken(p), 3} :
               InOrder(p, o) => o = 3 \/ (heard[p] = << >> /\ queue[p] = << >>)
    PROVE  Ordered(p)'
  <1>1. /\ Made(q)' = Made(q) /\ Made(q) \in Nat /\ Taken(p) \in 0..3
        /\ Taken(p)' \in 0..3
      BY PeerCounts
  <1>2. CASE hs'[p].gone
      BY <1>1, <1>2, GoneKeeps
  <1>3. CASE ~hs'[p].gone
    <2>1. PICK o \in {Taken(p), 3} : InOrder(p, o)
        BY <1>3 DEF Ordered
    <2>2. /\ heard[p] \in Seq(Messages) /\ queue[p] \in Seq(Messages)
          /\ net[p] \in Seq(Messages) /\ DOMAIN hs = Party
        BY StreamTypes
    <2>3. /\ Coming(p)' = Coming(p) /\ (hs'[p].st # "Done" => heard'[p] = << >>)
          /\ o # 3 => heard'[p] = << >> /\ queue'[p] = << >>
      <3>1. CASE s.st = "Done" /\ ~s.unrolling
        <4>1. TakeUp(p, s, queue[p])
            BY <3>1 DEF Become
        <4>2. \A i \in 1..Len(queue[p]) : queue[p][i].k = "Play"
          <5>1. CASE o = 3
              BY <2>1, <2>2, <5>1, OnlyPlay DEF Coming
          <5>2. CASE o # 3
              BY <2>1, <5>2
          <5> QED
              BY <5>1, <5>2
        <4>3. heard'[p] = heard[p] \o queue[p] /\ queue'[p] = << >> /\ hs'[p] = s
            BY <2>2, <4>1, <4>2, HearPlay
        <4>4. (heard[p] \o queue[p]) \o << >> \o net[p] = heard[p] \o queue[p] \o net[p]
            BY <2>2, MoveUp
        <4>5. Coming(p)' = Coming(p)
            BY <4>3, <4>4 DEF Coming
        <4>6. o # 3 => heard'[p] = << >> /\ queue'[p] = << >>
          <5> SUFFICES ASSUME o # 3 PROVE heard'[p] = << >>
              BY <4>3
          <5>1. heard[p] = << >> /\ queue[p] = << >>
              BY <2>1
          <5> QED
              BY <4>3, <5>1
        <4> QED
            BY <3>1, <4>5, <4>6
      <3>2. CASE ~(s.st = "Done" /\ ~s.unrolling)
        <4>1. queue' = queue /\ heard' = heard
            BY <3>2 DEF Become
        <4>2. Coming(p)' = Coming(p)
            BY <4>1 DEF Coming
        <4> QED
            BY <2>1, <4>1, <4>2 DEF InOrder
      <3> QED
          BY <3>1, <3>2
    <2>4. (\A i \in 1..Len(Coming(p)) : Due(p, o + i, Coming(p)[i]))'
        BY <2>1, <2>3 DEF InOrder, Due
    <2>5. InOrder(p, o)'
        BY <1>1, <2>1, <2>3, <2>4 DEF InOrder, Stays, Past
    <2> QED
        BY <1>1, <2>5 DEF Ordered
  <1> QED
      BY <1>2, <1>3

\* Once the handshake of a party is over, it owes or has nothing kept back.
LEMMA NothingKept ==
    ASSUME NEW p \in Party, Past(p)
    PROVE  \A o \in {Taken(p), 3} :
               InOrder(p, o) => o = 3 \/ (heard[p] = << >> /\ queue[p] = << >>)
    BY DEF InOrder

\* coin_created opens the channel and leaves all else, but for the transition.
LEMMA CoinCreatedLeaves ==
    ASSUME NEW p \in Party, NEW s \in Phases(p)
    PROVE  CoinCreated(s).left = s.left
  <1> DEFINE u == [s EXCEPT !.opened = TRUE]
  <1>1. u \in Phases(p) /\ u.left = s.left
      BY DEF Phases
  <1> HIDE DEF u
  <1>2. Transition(u).left = u.left
      BY <1>1, TransitionKeeps
  <1> QED
      BY <1>1, <1>2 DEF CoinCreated, u

\* A report on the coin changes neither the deadline nor who is there.
LEMMA CheckExpiryLeaves ==
    ASSUME NEW p \in Party, NEW s \in Phases(p), NEW h, NEW c \in BOOLEAN
    PROVE  LET t == CheckExpiry(s, h, c)
           IN  /\ t \in Phases(p) /\ t.st = s.st /\ t.gone = s.gone /\ t.left = s.left
               /\ t.pending = s.pending /\ t.deadline = s.deadline
    BY ZenonT(40) DEF CheckExpiry, Phases

\* new_block: a party that sees the coin goes off chain and hears what waited.
LEMMA NewBlockInStep ==
    ASSUME FundingInv, FundingInv', InStep, NEW p \in Party, NEW h \in 1..chain.height,
           NewBlock(p, h)
    PROVE  InStep'
  <1> DEFINE q == Peer(p)
  <1>1. hs[p] \in Phases(p) /\ DOMAIN hs = Party /\ q \in Party /\ q # p /\ q = Peer(p)
      BY StreamTypes, Peers
  <1>2. h \in Heights /\ h > 0
      BY Reported
  <1>3. UNCHANGED <<net, sent, hostile>>
      BY DEF NewBlock
  <1>4. ~Stopped(p) /\ Steadfast(p) /\ (hostile = "nobody" => Ordered(p))
      BY Attends DEF NewBlock
  <1> HIDE DEF q
  <1>5. CASE chain.made # 0 /\ ~hs[p].opened
    <2>1. PICK s \in Phases(p) :
              /\ s = CoinCreated(hs[p]) /\ s.pending = hs[p].pending
              /\ s.deadline = hs[p].deadline /\ s.gone = hs[p].gone
              /\ s.st = hs[p].st \/ (hs[p].st = "Finished" /\ s.st = "Done")
        BY <1>1, CoinCreatedDoes
    <2>2. s.left = hs[p].left
        BY <1>1, <2>1, CoinCreatedLeaves
    <2> DEFINE u == AtHeight(s, h)
               t == CheckExpiry(u, h, TRUE)
    <2>3. /\ u \in Phases(p) /\ u.st = s.st /\ u.gone = s.gone /\ u.left = s.left
          /\ \/ u.pending = s.pending /\ u.deadline = s.deadline
             \/ u.deadline # 0
        BY <1>2, <2>1, AtHeightDoes, AtHeightSteadfast
    <2>4. Become(p, t)
        BY <1>5, <2>1 DEF NewBlock
    <2> HIDE DEF u
    <2>5. /\ t \in Phases(p) /\ t.st = u.st /\ t.gone = u.gone /\ t.left = u.left
          /\ t.pending = u.pending /\ t.deadline = u.deadline
        BY <2>3, CheckExpiryLeaves
    <2> HIDE DEF t
    <2>6. /\ hs'[p] \in {t, GoOnChain(t)}
          /\ \A r \in Party : r # p => /\ hs'[r] = hs[r] /\ heard'[r] = heard[r]
                                       /\ queue'[r] = queue[r]
        BY <2>4, <2>5, BecomeApart
    <2>7. /\ t.left => t.gone
          /\ t.st # "Done" => sent'[p] = 0
          /\ t.st = "WaitingForOffer" /\ ~t.pending => t.deadline # 0
        BY <1>3, <1>4, <2>1, <2>2, <2>3, <2>5 DEF Steadfast
    <2>8. Steadfast(p)' /\ hs'[p].st = t.st /\ (t.gone => hs'[p].gone)
        BY <2>5, <2>6, <2>7, BecomeSteadfast
    <2>9. hs[p].gone => hs'[p].gone
        BY <2>1, <2>3, <2>5, <2>8
    <2>10. CASE Past(p)
      <3>1. Stays(p, q)
          BY <1>1, <1>3, <2>6, <2>9 DEF Stays
      <3>2. t.st \in {"Finished", "Done"} /\ (hs[p].st = "Done" => t.st = "Done")
          BY <2>1, <2>3, <2>5, <2>10 DEF Past
      <3>3. Taken(p)' = Taken(p) /\ Made(p)' = Made(p)
        <4>1. hs[p].st \in {"Finished", "Done"} /\ hs'[p].st \in {"Finished", "Done"}
            BY <2>8, <2>10, <3>2 DEF Past
        <4>2. Takes(p, hs'[p].st) = Takes(p, hs[p].st) /\ Sends(hs'[p].st) = Sends(hs[p].st)
            BY <4>1, Counts DEF Party
        <4> QED
            BY <1>3, <4>2 DEF Taken, Made
      <3>4. Silent(p, q)
          BY <1>3, <3>3 DEF Silent
      <3>5. hs[p].gone => t.gone
          BY <2>1, <2>3, <2>5
      <3>6. hostile = "nobody" => Ordered(p)'
          BY <1>1, <1>3, <1>4, <2>4, <2>5, <2>8, <2>10, <3>1, <3>2, <3>3, <3>5,
             NothingKept, BecomeOrdered
      <3> QED
          BY <1>1, <1>3, <2>8, <3>1, <3>4, <3>6, StepKeeps
    <2>11. CASE ~Past(p)
      <3>1. t.st # "Done" /\ t.st = hs[p].st
          BY <2>1, <2>3, <2>5, <2>11 DEF Past
      <3>2. queue' = queue /\ heard' = heard
          BY <2>4, <3>1 DEF Become
      <3> QED
          BY <1>3, <1>4, <2>6, <2>8, <2>9, <3>1, <3>2, QuietKeeps
    <2> QED
        BY <2>10, <2>11
  <1>6. CASE ~(chain.made # 0 /\ ~hs[p].opened)
    <2> DEFINE u == AtHeight(hs[p], h)
               t == CheckExpiry(u, h, FALSE)
    <2>1. /\ u \in Phases(p) /\ u.st = hs[p].st /\ u.gone = hs[p].gone /\ u.left = hs[p].left
          /\ \/ u.pending = hs[p].pending /\ u.deadline = hs[p].deadline
             \/ u.deadline # 0
        BY <1>1, <1>2, AtHeightDoes, AtHeightSteadfast
    <2>2. hs' = [hs EXCEPT ![p] = t] /\ UNCHANGED <<queue, heard>>
        BY <1>6 DEF NewBlock
    <2> HIDE DEF u
    <2>3. /\ t.st = u.st /\ t.gone = u.gone /\ t.left = u.left
          /\ t.pending = u.pending /\ t.deadline = u.deadline
        BY <2>1, CheckExpiryLeaves
    <2> HIDE DEF t
    <2>4. hs'[p] = t /\ \A r \in Party : r # p => hs'[r] = hs[r]
        BY <1>1, <2>2
    <2>5. Steadfast(p)'
        BY <1>3, <1>4, <2>1, <2>3, <2>4 DEF Steadfast
    <2> QED
        BY <1>3, <1>4, <2>1, <2>2, <2>3, <2>4, <2>5, QuietKeeps
  <1> QED
      BY <1>5, <1>6

\* A phase that is given its bundle does not lose its peer.
LEMMA ProvidedLeaves ==
    ASSUME NEW p \in Party, NEW s \in Phases(p), NEW b \in Bundles
    PROVE  Transition([s EXCEPT !.own = b, !.st = "Finished"]).left = s.left
  <1> DEFINE t == [s EXCEPT !.own = b, !.st = "Finished"]
  <1>1. "Finished" \in States[p]
      BY DEF Party, States
  <1>2. t \in Phases(p) /\ t.left = s.left
      BY <1>1 DEF Phases
  <1> HIDE DEF t
  <1>3. Transition(t).left = t.left
      BY <1>2, TransitionKeeps
  <1> QED
      BY <1>2, <1>3 DEF t

\* While the initiator waits for its half, nothing comes from the receiver: it
\* has to have message E for more.
LEMMA NothingComes ==
    ASSUME FundingInv, InStep, hostile = "nobody", hs["initiator"].st = "WaitingForOffer",
           NEW o \in {Taken("initiator"), 3}, InOrder("initiator", o)
    PROVE  Coming("initiator") = << >> /\ heard["initiator"] = << >> /\ queue["initiator"] = << >>
  <1> DEFINE i == "initiator"
             r == "receiver"
  <1>1. i \in Party /\ r \in Party /\ Peer(i) = r /\ Peer(r) = i
      BY Peers DEF Party
  <1>2. Steadfast(i) /\ Steadfast(r) /\ Heeds(r)
      BY <1>1, TwoParts
  <1>3. Taken(i) = 2 /\ Made(i) = 2 /\ o = 2
      BY <1>1, <1>2, Counts DEF Taken, Made, Steadfast, InOrder, Past
  <1>4. Taken(r) <= 2
      BY <1>1, <1>2, <1>3 DEF Heeds
  <1>5. hs[r].st \in {"WaitingForA", "SentB", "SentD"}
    <2>1. hs[r].st \in States[r]
        BY <1>1, StreamTypes DEF Phases
    <2>2. hs[r].st \notin {"Finished", "Done", "WaitingForCompletion"}
        BY <1>4, Counts DEF Taken
    <2> QED
        BY <2>1, <2>2 DEF States
  <1>6. Made(r) <= 2
      BY <1>1, <1>2, <1>5, Counts DEF Made, Steadfast
  <1>7. Coming(i) \in Seq(Messages) /\ Len(Coming(i)) \in Nat /\ Made(r) \in Nat
    <2>1. sent[r] \in Nat /\ Sends(hs[r].st) \in 0..3
        BY <1>1, StreamTypes, Counts
    <2> QED
        BY <1>1, <2>1, ComingType DEF Made
  <1>8. Len(Coming(i)) = 0
      BY <1>1, <1>3, <1>6, <1>7 DEF InOrder
  <1>9. heard[i] \in Seq(Messages) /\ queue[i] \in Seq(Messages) /\ net[i] \in Seq(Messages)
      BY <1>1, StreamTypes
  <1>10. Len(Coming(i)) = Len(heard[i]) + Len(queue[i]) + Len(net[i])
      BY <1>9 DEF Coming
  <1>11. Len(heard[i]) = 0 /\ Len(queue[i]) = 0
    <2> DEFINE a == Len(heard[i])
               b == Len(queue[i])
               c == Len(net[i])
    <2>1. a \in Nat /\ b \in Nat /\ c \in Nat
        BY <1>9
    <2>2. a + b + c = 0
        BY <1>8, <1>10
    <2> HIDE DEF a, b, c
    <2>3. a = 0 /\ b = 0
        BY <2>1, <2>2
    <2> QED
        BY <2>3 DEF a, b
  <1> QED
      BY <1>7, <1>8, <1>9, <1>11

\* provide_coin_spend_bundle of the initiator: message E carries its half.
LEMMA ProvideOfferInStep == ASSUME FundingInv, FundingInv', InStep, ProvideOffer PROVE InStep'
  <1> DEFINE p == "initiator"
             q == "receiver"
  <1>1. /\ p \in Party /\ q \in Party /\ q = Peer(p) /\ hs[p] \in Phases(p) /\ q # p
        /\ DOMAIN hs = Party /\ DOMAIN net = Party /\ hs[p].deadline \in Bundles
      BY StreamTypes, Peers DEF Party, Phases
  <1>2. PICK d \in Bundles : d = hs[p].deadline
      BY <1>1
  <1>3. PICK s \in Phases(p) :
            /\ s = Transition([hs[p] EXCEPT !.own = d, !.st = "Finished"])
            /\ Alike(hs[p], s) /\ s.st \in {"Finished", "Done"} /\ s.gone = hs[p].gone
      BY <1>1, Provided
  <1>4. s.left = hs[p].left
      BY <1>1, <1>3, ProvidedLeaves
  <1>5. /\ Become(p, s) /\ hs[p].st = "WaitingForOffer" /\ Send(p, "E", d)
        /\ wallet[p] = "spend" /\ ~Stopped(p) /\ sent' = sent /\ hostile' = hostile
      BY <1>2, <1>3 DEF ProvideOffer, Answered
  <1>6. Steadfast(p) /\ (hostile = "nobody" => Ordered(p))
      BY <1>1, <1>5, Attends
  <1>7. d # 0 /\ sent[p] = 0
    <2>1. ~hs[p].pending
        BY <1>1, <1>5 DEF FundingInv, Asking
    <2> QED
        BY <1>2, <1>5, <1>6, <2>1 DEF Steadfast
  <1>8. /\ hs'[p] \in {s, GoOnChain(s)}
        /\ \A r \in Party : r # p => /\ hs'[r] = hs[r] /\ heard'[r] = heard[r]
                                     /\ queue'[r] = queue[r]
      BY <1>1, <1>5, BecomeApart
  <1>9. Steadfast(p)' /\ hs'[p].st = s.st /\ (s.gone => hs'[p].gone)
      BY <1>1, <1>3, <1>4, <1>5, <1>6, <1>7, <1>8, BecomeSteadfast DEF Steadfast
  <1>10. Stays(p, q)
      BY <1>1, <1>3, <1>5, <1>8, <1>9 DEF Stays
  <1>11. Taken(p)' = Taken(p) /\ Made(p)' = Made(p) + 1 /\ Made(p) + 1 = 3 /\ Made(p) <= Made(p)'
    <2>1. hs'[p].st \in {"Finished", "Done"}
        BY <1>3, <1>9
    <2>2. /\ Takes(p, hs'[p].st) = 2 /\ Sends(hs'[p].st) = 3
          /\ Takes(p, hs[p].st) = 2 /\ Sends(hs[p].st) = 2
        BY <1>1, <1>5, <2>1, Counts
    <2> QED
        BY <1>5, <1>7, <2>2 DEF Taken, Made
  <1> DEFINE m == Msg("E", TRUE, d, 0)
  <1>12. m \in Messages /\ Due(q, 3, m)
      BY <1>7, HandshakeAssumption DEF Msg, Messages, Kinds, Due, Handshakes
  <1>13. \/ hs[p].gone /\ net' = net
         \/ ~hs[p].gone /\ net'[p] = net[p] /\ net'[q] = Append(net[q], m)
      BY <1>1, <1>5 DEF Send
  <1> HIDE DEF m
  <1>14. Silent(p, q) \/ Speaks(p, q)
    <2>1. CASE hs[p].gone /\ net' = net
        BY <1>3, <1>5, <1>7, <1>9, <1>11, <2>1 DEF Silent
    <2>2. CASE ~hs[p].gone /\ net'[q] = Append(net[q], m)
        BY <1>11, <1>12, <2>2 DEF Speaks
    <2> QED
        BY <1>13, <2>1, <2>2
  <1>15. ASSUME hostile = "nobody" PROVE Ordered(p)'
    <2>1. \A o \in {Taken(p), 3} :
              InOrder(p, o) => o = 3 \/ (heard[p] = << >> /\ queue[p] = << >>)
        BY <1>5, <1>15, NothingComes
    <2>2. Ordered(p) /\ net'[p] = net[p] /\ (hs[p].gone => s.gone)
        BY <1>3, <1>6, <1>13, <1>15
    <2> HIDE DEF p, q
    <2> QED
        BY <1>1, <1>3, <1>5, <1>9, <1>10, <1>11, <2>1, <2>2, BecomeOrdered
  <1> QED
      BY <1>1, <1>5, <1>9, <1>10, <1>14, <1>15, StepKeeps

\* provide_coin_spend_bundle of the receiver: message F carries the funding.
LEMMA ProvideCompletionInStep ==
    ASSUME FundingInv, FundingInv', InStep, ProvideCompletion PROVE InStep'
  <1> DEFINE p == "receiver"
             q == "initiator"
  <1>1. /\ p \in Party /\ q \in Party /\ q = Peer(p) /\ hs[p] \in Phases(p) /\ q # p
        /\ DOMAIN hs = Party /\ DOMAIN net = Party
        /\ hs[p].st = "WaitingForCompletion"
      BY StreamTypes, Peers DEF Party, ProvideCompletion
  <1>2. PICK b \in Bundles : b = Earlier(hs[p].theirs, hs[p].deadline)
      BY <1>1, Whole
  <1>3. PICK t \in Phases(p) :
            /\ t = Transition([hs[p] EXCEPT !.own = b, !.st = "Finished"])
            /\ Alike(hs[p], t) /\ t.st \in {"Finished", "Done"} /\ t.gone = hs[p].gone
      BY <1>1, Provided
  <1>4. t.left = hs[p].left
      BY <1>1, <1>3, ProvidedLeaves
  <1> DEFINE s == Spending(t)
  <1>5. s \in Phases(p) /\ s.st = t.st /\ s.gone = t.gone /\ s.left = t.left
    <2>1. s \in Phases(p) /\ s.st = t.st /\ s.gone = t.gone
        BY <1>1, SpendingDoes
    <2>2. s.left = t.left
        BY DEF Spending, Phases
    <2> QED
        BY <2>1, <2>2
  <1>6. /\ Become(p, s) /\ Send(p, "F", b) /\ sent' = sent /\ hostile' = hostile
        /\ ~Stopped(p)
      BY <1>2, <1>3 DEF ProvideCompletion, Answered
  <1> HIDE DEF s
  <1>7. Steadfast(p) /\ (hostile = "nobody" => Ordered(p))
      BY <1>1, <1>6, Attends
  <1>8. sent[p] = 0
      BY <1>1, <1>7 DEF Steadfast
  <1>9. /\ hs'[p] \in {s, GoOnChain(s)}
        /\ \A r \in Party : r # p => /\ hs'[r] = hs[r] /\ heard'[r] = heard[r]
                                     /\ queue'[r] = queue[r]
      BY <1>1, <1>5, <1>6, BecomeApart
  <1>10. Steadfast(p)' /\ hs'[p].st = s.st /\ (s.gone => hs'[p].gone)
      BY <1>1, <1>3, <1>4, <1>5, <1>6, <1>7, <1>8, <1>9, BecomeSteadfast DEF Steadfast
  <1>11. Stays(p, q)
      BY <1>1, <1>3, <1>5, <1>6, <1>9, <1>10 DEF Stays
  <1>12. /\ Taken(p)' = Taken(p) /\ Taken(p) = 3
         /\ Made(p)' = Made(p) + 1 /\ Made(p) + 1 = 3 /\ Made(p) <= Made(p)'
    <2>1. hs'[p].st \in {"Finished", "Done"}
        BY <1>3, <1>5, <1>10
    <2>2. /\ Takes(p, hs'[p].st) = 3 /\ Sends(hs'[p].st) = 3
          /\ Takes(p, hs[p].st) = 3 /\ Sends(hs[p].st) = 2
        BY <1>1, <2>1, Counts
    <2> QED
        BY <1>6, <1>8, <2>2 DEF Taken, Made
  <1> DEFINE m == Msg("F", TRUE, b, 0)
  <1>13. m \in Messages /\ Due(q, 3, m)
      BY HandshakeAssumption DEF Msg, Messages, Kinds, Due, Handshakes
  <1>14. \/ hs[p].gone /\ net' = net
         \/ ~hs[p].gone /\ net'[p] = net[p] /\ net'[q] = Append(net[q], m)
      BY <1>1, <1>6 DEF Send
  <1> HIDE DEF m
  <1>15. Silent(p, q) \/ Speaks(p, q)
    <2>1. CASE hs[p].gone /\ net' = net
        BY <1>3, <1>5, <1>6, <1>8, <1>10, <1>12, <2>1 DEF Silent
    <2>2. CASE ~hs[p].gone /\ net'[q] = Append(net[q], m)
        BY <1>12, <1>13, <2>2 DEF Speaks
    <2> QED
        BY <1>14, <2>1, <2>2
  <1>16. ASSUME hostile = "nobody" PROVE Ordered(p)'
    <2>1. \A o \in {Taken(p), 3} :
              InOrder(p, o) => o = 3 \/ (heard[p] = << >> /\ queue[p] = << >>)
        BY <1>12
    <2>2. /\ Ordered(p) /\ net'[p] = net[p] /\ (hs[p].gone => s.gone)
          /\ s.st \in {"Finished", "Done"} /\ hs[p].st # "Done"
        BY <1>1, <1>3, <1>5, <1>7, <1>14, <1>16
    <2> HIDE DEF p, q
    <2> QED
        BY <1>1, <1>5, <1>6, <1>10, <1>11, <1>12, <2>1, <2>2, BecomeOrdered
  <1> QED
      BY <1>1, <1>6, <1>10, <1>11, <1>15, <1>16, StepKeeps

\* A message that comes to a party off chain is heard, or is the F that a party
\* needs no more.
LEMMA ReceiveOffChainInStep ==
    ASSUME FundingInv, FundingInv', InStep, NEW p \in Party, ReceiveOffChain(p) PROVE InStep'
  <1> DEFINE q == Peer(p)
             x == IF Front(p).k = "F" THEN Tail(Arrived(p)) ELSE Arrived(p)
  <1>1. /\ q \in Party /\ q # p /\ q = Peer(p) /\ hs[p] \in Phases(p) /\ DOMAIN net = Party
        /\ heard[p] \in Seq(Messages) /\ queue[p] \in Seq(Messages)
        /\ net[p] \in Seq(Messages)
      BY StreamTypes, Peers
  <1>2. /\ TakeUp(p, hs[p], x) /\ hs[p].st = "Done" /\ net[p] # << >> /\ ~hs[p].gone
        /\ sent' = sent /\ hostile' = hostile
      BY DEF ReceiveOffChain, Listening, Deaf
  <1>3. net'[p] = Tail(net[p]) /\ net'[q] = net[q]
      BY <1>1 DEF ReceiveOffChain, Deliver
  <1> HIDE DEF q, x
  <1>4. Steadfast(p) /\ (hostile = "nobody" => Ordered(p))
      BY ListeningAttends DEF ReceiveOffChain
  <1>5. /\ hs'[p] \in {hs[p], GoOnChain(hs[p])}
        /\ \A r \in Party : r # p => /\ hs'[r] = hs[r] /\ heard'[r] = heard[r]
                                     /\ queue'[r] = queue[r]
      BY <1>1, <1>2, TakeUpApart
  <1>6. Steadfast(p)' /\ hs'[p].st = hs[p].st /\ (hs[p].gone => hs'[p].gone)
      BY <1>1, <1>2, <1>4, <1>5, BecomeSteadfast DEF Steadfast
  <1>7. Stays(p, q) /\ Silent(p, q)
      BY <1>1, <1>2, <1>3, <1>5, <1>6 DEF Stays, Silent, Made
  <1>8. Taken(p)' = Taken(p) /\ Past(p) /\ Past(p)'
      BY <1>2, <1>6 DEF Taken, Past
  <1>9. /\ Made(q)' = Made(q) /\ Made(q) \in Nat /\ Taken(p) \in 0..3
      BY <1>1, <1>7, PeerCounts
  <1>10. ASSUME hostile = "nobody" PROVE Ordered(p)'
    <2>1. PICK o \in {Taken(p), 3} : InOrder(p, o)
        BY <1>2, <1>4, <1>10 DEF Ordered
    <2>2. CASE o = 3
      <3>1. Arrived(p) \in Seq(Messages) /\ Tail(net[p]) \in Seq(Messages) /\ Arrived(p) # << >>
          BY <1>1, <1>2, SMTT(40) DEF Arrived
      <3>2. Coming(p) = heard[p] \o Arrived(p) \o Tail(net[p])
        <4> DEFINE h == heard[p]
                   a == queue[p]
                   n == net[p]
        <4>1. h \in Seq(Messages) /\ a \in Seq(Messages) /\ n \in Seq(Messages) /\ n # << >>
            BY <1>1, <1>2
        <4> HIDE DEF h, a, n
        <4>2. h \o Append(a, Head(n)) \o Tail(n) = h \o a \o n
            BY <4>1, PutBack
        <4> QED
            BY <4>2 DEF h, a, n, Coming, Arrived
      <3>3. InOrder(p, 3)
          BY <2>1, <2>2
      <3>4. \A i \in 1..Len(Arrived(p)) : Arrived(p)[i].k = "Play"
          BY <3>1, <3>2, <3>3, OnlyPlay
      <3>5. x = Arrived(p)
        <4>1. 1 \in 1..Len(Arrived(p)) /\ Front(p) = Arrived(p)[1]
            BY <3>1 DEF Front
        <4> QED
            BY <3>4, <4>1 DEF x
      <3>6. heard'[p] = heard[p] \o Arrived(p) /\ queue'[p] = << >> /\ hs'[p] = hs[p]
          BY <1>1, <1>2, <3>1, <3>4, <3>5, HearPlay
      <3>7. (heard[p] \o Arrived(p)) \o << >> \o Tail(net[p])
                = heard[p] \o Arrived(p) \o Tail(net[p])
          BY <1>1, <3>1, MoveUp
      <3>8. Coming(p)' = Coming(p)
          BY <1>3, <3>2, <3>6, <3>7 DEF Coming
      <3>9. (\A i \in 1..Len(Coming(p)) : Due(p, o + i, Coming(p)[i]))'
          BY <2>1, <3>8 DEF InOrder, Due
      <3>10. InOrder(p, o)'
          BY <1>1, <1>2, <1>6, <1>7, <1>8, <1>9, <2>1, <2>2, <3>8, <3>9 DEF InOrder, Stays
      <3> QED
          BY <1>1, <1>4, <1>8, <1>9, <1>10, <2>2, <3>10 DEF Ordered
    <2>3. CASE o # 3
      <3>1. o = Taken(p) /\ o = 2 /\ p = "initiator"
          BY <1>2, <2>3, Counts DEF Taken, Party
      <3>2. heard[p] = << >> /\ queue[p] = << >>
          BY <1>8, <2>1, <2>3 DEF InOrder
      <3>3. Coming(p) = net[p] /\ Arrived(p) = << Head(net[p]) >> /\ Tail(Arrived(p)) = << >>
            /\ Front(p) = Head(net[p])
          BY <1>1, <3>2 DEF Coming, Arrived, Front
      <3>4. 1 \in 1..Len(Coming(p)) /\ Front(p) = Coming(p)[1]
          BY <1>1, <1>2, <3>3
      <3>5. Due(p, 2 + 1, Front(p))
          BY <2>1, <3>1, <3>4 DEF InOrder
      <3>6. Front(p).k = "F"
          BY <3>1, <3>5 DEF Due, Handshakes
      <3>7. x = << >>
          BY <3>3, <3>6 DEF x
      <3>8. x \in Seq(Messages) /\ \A i \in 1..Len(x) : x[i].k = "Play"
          BY <3>7
      <3>9. heard'[p] = heard[p] \o x /\ queue'[p] = << >>
          BY <1>1, <1>2, <3>8, HearPlay
      <3>10. heard'[p] = << >>
          BY <3>2, <3>7, <3>9
      <3>11. Coming(p)' = Tail(Coming(p))
          BY <1>1, <1>2, <1>3, <3>3, <3>9, <3>10 DEF Coming
      <3>12. InOrder(p, 2) /\ Coming(p) # << >> /\ Taken(p)' = 2
          BY <1>2, <1>8, <2>1, <3>1, <3>3
      <3> QED
          BY <1>1, <1>7, <1>8, <3>10, <3>11, <3>12, ConsumeKeeps
    <2> QED
        BY <2>2, <2>3
  <1> QED
      BY <1>1, <1>2, <1>6, <1>7, <1>10, StepKeeps

-----------------------------------------------------------------------------
(***************************************************************************)
(* The results.                                                            *)
(***************************************************************************)

\* A new handshake is in step.
LEMMA InitInStep == ASSUME Init PROVE InStep
  <1> SUFFICES ASSUME NEW p \in Party
               PROVE  Steadfast(p) /\ Heeds(p)
      BY TwoParts
  <1>1. /\ hs[p].st \in {"WaitingForStart", "WaitingForA"} /\ ~hs[p].left /\ ~hs[p].gone
        /\ sent[p] = 0 /\ heard[p] = << >> /\ queue[p] = << >> /\ net[p] = << >>
      BY DEF Init, NewPhase
  <1>2. /\ Peer(p) \in Party /\ hs[Peer(p)].st \in {"WaitingForStart", "WaitingForA"}
        /\ sent[Peer(p)] = 0
      BY Peers DEF Init, NewPhase
  <1>3. Taken(p) = 0 /\ Made(Peer(p)) = 0
      BY <1>1, <1>2, Counts DEF Taken, Made
  <1>4. Coming(p) = << >>
      BY <1>1 DEF Coming
  <1>5. InOrder(p, 0)
      BY <1>1, <1>3, <1>4 DEF InOrder, Past
  <1> QED
      BY <1>1, <1>3, <1>5 DEF Steadfast, Heeds

\* Every step keeps the parties in step.
LEMMA NextInStep == ASSUME FundingInv, FundingInv', InStep, Next PROVE InStep'
  <1>1. CASE Start \/ ReceiveA \/ ReceiveB \/ ReceiveC \/ ReceiveD \/ ReceiveE \/ ReceiveF
      BY <1>1, StartInStep, ReceiveAInStep, ReceiveBInStep, ReceiveCInStep, ReceiveDInStep,
         ReceiveEInStep, ReceiveFInStep
  <1>2. CASE ProvideLauncherCoin \/ ProvideOffer \/ ProvideCompletion
      BY <1>2, ProvideLauncherCoinInStep, ProvideOfferInStep, ProvideCompletionInStep
  <1>3. CASE Farm \/ FundSilently
      BY <1>3, ApartInStep DEF Farm, FundSilently
  <1>4. ASSUME NEW p \in Party,
               \/ ReceiveEarly(p) \/ ReceiveWrong(p) \/ ReceiveOffChain(p) \/ Drop(p)
               \/ WalletFails(p) \/ UserGoesOnChain(p) \/ Abandon(p) \/ Play(p)
               \/ MakeUp(p)
        PROVE  InStep'
      BY <1>4, ReceiveEarlyInStep, ReceiveWrongInStep, ReceiveOffChainInStep, DropInStep,
         WalletFailsInStep, UserGoesOnChainInStep, AbandonInStep, PlayInStep, MakeUpInStep
  <1>5. ASSUME NEW p \in Party, Push(p) PROVE InStep'
      BY <1>5, ApartInStep DEF Push
  <1>6. ASSUME NEW p \in Party, NEW h \in 1..chain.height, NewHeight(p, h) \/ NewBlock(p, h)
        PROVE  InStep'
      BY <1>6, NewHeightInStep, NewBlockInStep
  <1> QED
      BY <1>1, <1>2, <1>3, <1>4, <1>5, <1>6 DEF Next

\* InStep holds throughout, for every channel_timeout, every height, any number of
\* messages and any order of deliveries, reports, failures and requests to stop.
THEOREM InStepHolds == Spec => []InStep
  <1>1. InStep /\ FundingInv /\ FundingInv' /\ [Next]_vars => InStep'
      BY NextInStep, ApartInStep DEF vars
  <1>2. Init => InStep
      BY InitInStep
  <1> QED
      BY <1>1, <1>2, Invariance, PTL DEF Spec

\* What a peer that is off chain sends is heard, kept or on the way, each message
\* once and in order, after what is left of the handshake.
LEMMA InStepKeepsPlay == ASSUME FundingInv, InStep PROVE PlayKept
  <1> SUFFICES ASSUME NEW p \in Party, ~Deaf(p), hostile = "nobody"
               PROVE  \E rest \in 0..Len(Coming(p)) :
                         /\ Len(Coming(p)) = rest + sent[Peer(p)]
                         /\ \A i \in 1..Len(Coming(p)) :
                                IF i <= rest THEN Coming(p)[i].k # "Play"
                                ELSE Coming(p)[i].k = "Play" /\ Coming(p)[i].n = i - rest
      BY DEF PlayKept
  <1> DEFINE q == Peer(p)
             len == Len(Coming(p))
  <1>1. /\ q \in Party /\ sent[q] \in Nat /\ len \in Nat /\ Sends(hs[q].st) \in 0..3
        /\ Taken(p) \in 0..3
      BY Peers, StreamTypes, ComingType, Counts DEF Taken
  <1>2. Steadfast(q)
      BY <1>1, TwoParts
  <1>3. PICK o \in {Taken(p), 3} : InOrder(p, o)
      BY TwoParts DEF Heeds
  <1>4. /\ \A i \in 1..len : Due(p, o + i, Coming(p)[i])
        /\ o + len <= Sends(hs[q].st) + sent[q]
        /\ o + len = Sends(hs[q].st) + sent[q] \/ sent[q] = 0
      BY <1>3 DEF InOrder, Made
  <1>5. sent[q] = 0 \/ Sends(hs[q].st) = 3
      BY <1>2, Counts DEF Steadfast
  <1> DEFINE rest == len - sent[q]
  <1>6. rest \in 0..len /\ len = rest + sent[q]
      BY <1>1, <1>3, <1>4, <1>5
  <1>7. \A i \in 1..len : IF i <= rest THEN o + i <= 3
                          ELSE ~(o + i <= 3) /\ o + i - 3 = i - rest
      BY <1>1, <1>3, <1>4, <1>5, SMTT(40)
  <1>8. ASSUME NEW i \in 1..len
        PROVE  IF i <= rest THEN Coming(p)[i].k # "Play"
               ELSE Coming(p)[i].k = "Play" /\ Coming(p)[i].n = i - rest
    <2>1. Due(p, o + i, Coming(p)[i])
        BY <1>4
    <2>2. CASE i <= rest
      <3>1. o + i <= 3 /\ o + i \in 1..3
          BY <1>1, <1>3, <1>7, <2>2
      <3>2. Handshakes(p)[o + i] # "Play"
          BY <3>1 DEF Handshakes
      <3> QED
          BY <2>1, <2>2, <3>1, <3>2 DEF Due
    <2>3. CASE ~(i <= rest)
      <3>1. ~(o + i <= 3) /\ o + i - 3 = i - rest
          BY <1>7, <2>3
      <3> DEFINE j == o + i
                 m == Coming(p)[i]
                 k == i - rest
      <3>2. j \in Nat /\ ~(j <= 3) /\ Due(p, j, m) /\ j - 3 = k
          BY <1>1, <1>3, <2>1, <3>1
      <3> HIDE DEF j, m, k
      <3>3. m.k = "Play" /\ m.n = j - 3
          BY <3>2 DEF Due
      <3>4. m.n = k
          BY <3>2, <3>3
      <3>5. Coming(p)[i].k = "Play" /\ Coming(p)[i].n = i - rest
          BY <3>3, <3>4 DEF m, k
      <3> HIDE DEF rest
      <3> QED
          BY <2>3, <3>5
    <2> QED
        BY <2>2, <2>3
  <1> QED
      BY <1>6, <1>8

\* For every channel_timeout and any amount of play: no message of play between
\* honest parties is lost, duplicated or reordered by the queue that holds messages
\* until a slower party sees the coin.
THEOREM PlayHolds == Spec => []PlayKept
  <1>1. FundingInv /\ InStep => PlayKept
      BY InStepKeepsPlay
  <1> QED
      BY <1>1, Invariance, InStepHolds, PTL

\* A message that comes to an honest party from an honest peer is no error.
LEMMA NoneIsWrong ==
    ASSUME FundingInv, InStep, NEW p \in Party, ReceiveWrong(p)
    PROVE  hostile # "nobody"
  <1> SUFFICES ASSUME hostile = "nobody" PROVE FALSE
      OBVIOUS
  <1>1. /\ Listening(p) /\ hs[p].st # "Done" /\ ~Waits(p)
        /\ \/ Front(p).k # Wanted(p)
           \/ ~Front(p).ok /\ Front(p).k # "F"
           \/ Front(p).k = "E" /\ Front(p).bundle = 0
      BY DEF ReceiveWrong
  <1>2. PICK o \in {Taken(p), 3} : InOrder(p, o) /\ Due(p, o + 1, Front(p))
      BY <1>1, FrontIsDue
  <1>3. hs[p].st \in States[p]
      BY StreamTypes DEF Phases
  <1>4. CASE Past(p)
    <2>1. hs[p].st = "Finished" /\ p = "initiator" /\ Front(p).k = "F"
        BY <1>1, <1>4 DEF Past, Waits, Party
    <2> QED
        BY <1>1, <2>1 DEF Wanted
  <1>5. CASE ~Past(p)
    <2>1. o = Taken(p)
        BY <1>2, <1>5 DEF InOrder
    <2>2. CASE p = "initiator"
      <3>1. hs[p].st \in {"WaitingForStart", "SentA", "SentC"}
          BY <1>1, <1>3, <1>5, <2>2 DEF States, Past, Waits
      <3>2. hs[p].st # "WaitingForStart"
        <4>1. CASE hs[p].st = "WaitingForStart"
          <5>1. Steadfast(p) /\ Heeds("receiver") /\ Steadfast("receiver")
              BY TwoParts DEF Party
          <5>2. Peer(p) = "receiver" /\ Peer("receiver") = p
              BY <2>2, Peers
          <5>3. Made(p) = 0
              BY <4>1, <5>1, Counts DEF Made, Steadfast
          <5>4. Taken("receiver") = 0
              BY <5>1, <5>2, <5>3, Counts DEF Heeds, Taken
          <5>5. hs["receiver"].st = "WaitingForA"
            <6>1. hs["receiver"].st \in States["receiver"]
                BY StreamTypes DEF Phases, Party
            <6> QED
                BY <5>4, <6>1, Counts DEF Taken, States, Party
          <5>6. Made("receiver") = 0
              BY <5>1, <5>5, Counts DEF Made, Steadfast
          <5>7. Len(Coming(p)) \in Nat /\ Coming(p) \in Seq(Messages) /\ Coming(p) # << >>
              BY <1>1, ComingType, FrontIsDue
          <5>8. o + Len(Coming(p)) <= 0 /\ o \in 0..3
              BY <1>2, <2>1, <5>2, <5>6, Counts DEF InOrder, Taken
          <5> QED
              BY <5>7, <5>8
        <4> QED
            BY <4>1
      <3>3. CASE hs[p].st = "SentA"
          BY <1>1, <1>2, <2>1, <2>2, <3>3, Counts DEF Taken, Due, Handshakes, Wanted
      <3>4. CASE hs[p].st = "SentC"
          BY <1>1, <1>2, <2>1, <2>2, <3>4, Counts DEF Taken, Due, Handshakes, Wanted
      <3> QED
          BY <3>1, <3>2, <3>3, <3>4
    <2>3. CASE p = "receiver"
      <3>1. hs[p].st \in {"WaitingForA", "SentB", "SentD"}
          BY <1>1, <1>3, <1>5, <2>3 DEF States, Past, Waits
      <3>2. Taken(p) = IF hs[p].st = "WaitingForA" THEN 0
                       ELSE IF hs[p].st = "SentB" THEN 1 ELSE 2
          BY <2>3, <3>1, Counts DEF Taken
      <3>3. CASE hs[p].st = "WaitingForA"
          BY <1>1, <1>2, <2>1, <2>3, <3>2, <3>3 DEF Due, Handshakes, Wanted
      <3>4. CASE hs[p].st = "SentB"
          BY <1>1, <1>2, <2>1, <2>3, <3>2, <3>4 DEF Due, Handshakes, Wanted
      <3>5. CASE hs[p].st = "SentD"
          BY <1>1, <1>2, <2>1, <2>3, <3>2, <3>5 DEF Due, Handshakes, Wanted
      <3> QED
          BY <3>1, <3>3, <3>4, <3>5
    <2> QED
        BY <2>2, <2>3 DEF Party
  <1> QED
      BY <1>4, <1>5

\* For every channel_timeout: an honest party takes no message of an honest peer for
\* an error, whatever each is waiting for when it comes.
THEOREM NoFalseErrorHolds == Spec => NoFalseError
  <1>1. FundingInv /\ InStep =>
            [\A p \in Party : ReceiveWrong(p) => hostile # "nobody"]_vars
      BY NoneIsWrong
  <1> QED
      BY <1>1, Invariance, InStepHolds, PTL DEF NoFalseError
=============================================================================
