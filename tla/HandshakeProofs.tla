--------------------------- MODULE HandshakeProofs ---------------------------
(***************************************************************************)
(* The safety of the handshake's funding, for every channel_timeout, every *)
(* height and any number of upsets, messages and steps.  FundingInv is     *)
(* inductive: one lemma per action shows that a step keeps it.  The steps  *)
(* that touch nothing the funding depends on are Frozen, the early steps   *)
(* EarlyMove, the reports of the chain ToldKeeps.                          *)
(***************************************************************************)
EXTENDS HandshakeInvariant, SequenceTheorems, WellFoundedInduction, TLAPS

\* The fields the invariant is about, but for st and gone.
Alike(s, t) ==
    /\ t.sigs = s.sigs /\ t.pending = s.pending /\ t.deadline = s.deadline
    /\ t.theirs = s.theirs /\ t.opened = s.opened /\ t.expiry = s.expiry
    /\ t.established = s.established /\ t.expired = s.expired

\* go_on_chain cuts the peer off and changes nothing the funding depends on.
LEMMA GoOnChainKeeps ==
    ASSUME NEW p \in Party, NEW s \in Phases(p)
    PROVE  /\ GoOnChain(s) \in Phases(p) /\ Alike(s, GoOnChain(s))
           /\ GoOnChain(s).st = s.st /\ GoOnChain(s).gone
    BY DEF GoOnChain, Phases, Alike

\* try_transition_to_potato moves a finished handshake on and nothing else.
LEMMA TransitionKeeps ==
    ASSUME NEW p \in Party, NEW s \in Phases(p)
    PROVE  /\ Transition(s) \in Phases(p) /\ Alike(s, Transition(s))
           /\ Transition(s).st = IF s.opened /\ s.st = "Finished" THEN "Done" ELSE s.st
           /\ Transition(s).gone = s.gone /\ Transition(s).left = s.left
  <1>1. "Done" \in States[p]
      BY DEF Party, States
  <1> QED
    BY <1>1, ZenonT(40) DEF Transition, Phases, Alike

\* verify_and_store_initial_peer_signatures leaves the step of the handshake and
\* what is said of the coin alone.
LEMMA StoreSignaturesDoes ==
    ASSUME NEW p \in Party, NEW s \in Phases(p)
    PROVE  /\ StoreSignatures(s) \in Phases(p)
           /\ StoreSignatures(s).st = s.st /\ StoreSignatures(s).gone = s.gone
           /\ StoreSignatures(s).sigs /\ StoreSignatures(s).theirs = s.theirs
           /\ StoreSignatures(s).opened = s.opened /\ StoreSignatures(s).expiry = s.expiry
           /\ StoreSignatures(s).established = s.established
           /\ StoreSignatures(s).expired = s.expired
  <1> DEFINE t == [s EXCEPT !.sigs = TRUE]
  <1>1. /\ t \in Phases(p) /\ t.sigs /\ t.st = s.st /\ t.gone = s.gone
        /\ t.theirs = s.theirs /\ t.opened = s.opened /\ t.expiry = s.expiry
        /\ t.established = s.established /\ t.expired = s.expired
        /\ t.height = s.height
      BY DEF Phases
  <1> HIDE DEF t
  <1>2. NotValidAfter(t) \in Bundles
      BY <1>1, HandshakeAssumption DEF NotValidAfter, Phases, Heights, Bundles
  <1>3. /\ RequestSpend(t) \in Phases(p)
        /\ RequestSpend(t).sigs = t.sigs /\ RequestSpend(t).st = t.st
        /\ RequestSpend(t).gone = t.gone /\ RequestSpend(t).theirs = t.theirs
        /\ RequestSpend(t).opened = t.opened /\ RequestSpend(t).expiry = t.expiry
        /\ RequestSpend(t).established = t.established
        /\ RequestSpend(t).expired = t.expired
      BY <1>1, <1>2 DEF RequestSpend, Phases
  <1> QED
      BY <1>1, <1>3 DEF StoreSignatures, t

\* A height sets the deadline of a request that waited for one, and no other.
LEMMA AtHeightDoes ==
    ASSUME NEW p \in Party, NEW s \in Phases(p), NEW h \in Heights
    PROVE  /\ AtHeight(s, h) \in Phases(p)
           /\ AtHeight(s, h).st = s.st /\ AtHeight(s, h).gone = s.gone
           /\ AtHeight(s, h).sigs = s.sigs /\ AtHeight(s, h).theirs = s.theirs
           /\ AtHeight(s, h).opened = s.opened /\ AtHeight(s, h).expiry = s.expiry
           /\ AtHeight(s, h).established = s.established
           /\ AtHeight(s, h).expired = s.expired
           /\ ~s.pending \/ s.st = "Done" =>
                AtHeight(s, h).pending = s.pending /\ AtHeight(s, h).deadline = s.deadline
           /\ s.pending /\ s.st # "Done" => ~AtHeight(s, h).pending
  <1>1. h + ChannelTimeout \in Bundles
      BY HandshakeAssumption DEF Heights, Bundles
  <1>2. CASE s.pending /\ s.st # "Done"
      BY <1>1, <1>2 DEF AtHeight, Phases
  <1>3. CASE ~(s.pending /\ s.st # "Done")
      BY <1>1, <1>3 DEF AtHeight, Phases
  <1> QED
      BY <1>2, <1>3

\* spend_transaction_and_add_fee keeps the phase well typed.
LEMMA SpendingDoes ==
    ASSUME NEW p \in Party, NEW s \in Phases(p)
    PROVE  /\ Spending(s) \in Phases(p) /\ Spending(s).st = s.st
           /\ Alike([s EXCEPT !.expiry = Spending(s).expiry], Spending(s))
           /\ Spending(s).expiry \in {s.expiry, s.deadline}
           /\ Spending(s).gone = s.gone
    BY DEF Spending, Phases, Alike

\* A set of numbers that is not empty has a smallest member.
LEMMA SmallestIn ==
    ASSUME NEW T \in SUBSET Nat, T # {}
    PROVE  \E x \in T : \A y \in T : x <= y
  <1>1. PICK x \in T : \A y \in T : ~(<<y, x>> \in OpToRel(<, Nat))
      BY NatLessThanWellFounded, WFMin, Zenon
  <1>2. \A y \in T : ~(y < x)
      BY <1>1, Zenon DEF OpToRel
  <1> QED
      BY <1>2

\* There is always a place where the off-chain phase pauses in a queue.
LEMMA PauseType ==
    ASSUME NEW S, NEW q \in Seq(S)
    PROVE  Pause(q) \in 1..(Len(q) + 1)
  <1> DEFINE T == {i \in 1..(Len(q) + 1) : i <= Len(q) => q[i].k # "Play"}
  <1>1. Len(q) \in Nat
      OBVIOUS
  <1>2. T \in SUBSET Nat /\ Len(q) + 1 \in T
      BY <1>1
  <1>3. PICK x \in T : \A y \in T : x <= y
      BY <1>2, SmallestIn
  <1>4. \A j \in 1..(x - 1) : q[j].k = "Play"
      BY <1>1, <1>3
  <1>5. \E i \in 1..(Len(q) + 1) :
            /\ \A j \in 1..(i - 1) : q[j].k = "Play"
            /\ i <= Len(q) => q[i].k # "Play"
      BY <1>3, <1>4
  <1> QED
      BY <1>5 DEF Pause

\* What is taken up of a queue and what is left are messages of the queue.
LEMMA TakenUp ==
    ASSUME NEW S, NEW q \in Seq(S)
    PROVE  /\ SubSeq(q, 1, Pause(q) - 1) \in Seq(S)
           /\ SubSeq(q, Pause(q) + 1, Len(q)) \in Seq(S)
  <1>1. Pause(q) \in 1..(Len(q) + 1) /\ Len(q) \in Nat
      BY PauseType
  <1>2. \A i \in 1..Len(q) : q[i] \in S
      OBVIOUS
  <1>3. SubSeq(q, 1, Pause(q) - 1) \in Seq(S)
      BY <1>1, <1>2, SubSeqProperties
  <1>4. SubSeq(q, Pause(q) + 1, Len(q)) \in Seq(S)
      BY <1>1, <1>2, SubSeqProperties
  <1> QED
      BY <1>3, <1>4

\* A message sent joins the messages on the way.
LEMMA Sending ==
    ASSUME NEW S, NEW f \in [Party -> Seq(S)], NEW p \in Party, NEW m \in S
    PROVE  [f EXCEPT ![p] = Append(@, m)] \in [Party -> Seq(S)]
    OBVIOUS

\* Sound messages are messages.
LEMMA SoundMessages == Sound \subseteq Messages
    BY DEF Sound

\* Queues over a set are queues over a larger one.
LEMMA Widen ==
    ASSUME NEW S, NEW T, S \subseteq T, NEW f \in [Party -> Seq(S)]
    PROVE  f \in [Party -> Seq(T)]
  <1>1. \A p \in Party : f[p] \in Seq(T)
      BY SeqMonotonic
  <1> QED
      BY <1>1

\* The arriving message, the front of the queue and the rest are sound.
LEMMA Delivery ==
    ASSUME NEW p \in Party, Funding, net[p] # << >>
    PROVE  /\ Arrived(p) \in Seq(Sound) /\ Tail(Arrived(p)) \in Seq(Sound)
           /\ Front(p) \in Sound
           /\ [net EXCEPT ![p] = Tail(@)] \in [Party -> Seq(Sound)]
           /\ [queue EXCEPT ![p] = Tail(Arrived(p))] \in [Party -> Seq(Sound)]
           /\ [queue EXCEPT ![p] = Arrived(p)] \in [Party -> Seq(Sound)]
  <1>1. net \in [Party -> Seq(Sound)] /\ queue \in [Party -> Seq(Sound)]
      BY DEF Funding
  <1>2. net[p] \in Seq(Sound) /\ Head(net[p]) \in Sound /\ Tail(net[p]) \in Seq(Sound)
      BY <1>1, HeadTailProperties
  <1>3. Arrived(p) \in Seq(Sound) /\ Arrived(p) # << >>
      BY <1>1, <1>2, AppendProperties DEF Arrived
  <1>4. Front(p) \in Sound /\ Tail(Arrived(p)) \in Seq(Sound)
      BY <1>3, HeadTailProperties DEF Front
  <1> QED
      BY <1>1, <1>2, <1>3, <1>4

\* A step that leaves alone what a funding under way depends on.
Steadily ==
    /\ hostile' = hostile
    /\ Past("initiator") =>
          Past("initiator")' /\ hs'["initiator"].deadline = hs["initiator"].deadline
    /\ ~hs["receiver"].pending
          /\ (Past("receiver") \/ hs["receiver"].st = "WaitingForCompletion") =>
          /\ Past("receiver")' \/ hs'["receiver"].st = hs["receiver"].st
          /\ ~hs'["receiver"].pending
          /\ hs'["receiver"].deadline = hs["receiver"].deadline

\* A steady step keeps every bundle that is offered or bound so, and every
\* sound message sound.
LEMMA Steady ==
    Steadily => /\ \A b : Offered(b) => Offered(b)'
                /\ \A b : Bound(b) => Bound(b)'
                /\ Sound \subseteq Sound'
  <1> SUFFICES ASSUME Steadily PROVE /\ \A b : Offered(b) => Offered(b)'
                                     /\ \A b : Bound(b) => Bound(b)'
                                     /\ Sound \subseteq Sound'
      OBVIOUS
  <1>1. \A b : Offered(b) => Offered(b)'
      BY DEF Steadily, Offered
  <1>2. \A b : Bound(b) => Bound(b)'
      BY DEF Steadily, Bound, Past
  <1>3. Sound \subseteq Sound'
      BY <1>1, <1>2 DEF Sound
  <1> QED
      BY <1>1, <1>2, <1>3

\* A step that changes nothing of the phases the invariant is about, and asks
\* for, submits and includes nothing new.
Frozen ==
    /\ hs' = [p \in Party |-> hs'[p]]
    /\ \A p \in Party : hs'[p] \in Phases(p)
    /\ \A p \in Party : /\ Alike(hs[p], hs'[p]) /\ hs'[p].st = hs[p].st
                        /\ hs[p].gone => hs'[p].gone
    /\ wallet' \in [Party -> {"none", "launcher", "spend"}]
    /\ \A p \in Party : wallet'[p] \in {wallet[p], "none"}
    /\ outbox' \in [Party -> Bundles]
    /\ \A p \in Party : outbox'[p] \in {outbox[p], 0}
    /\ chain' = chain /\ hostile' = hostile
    /\ net' \in [Party -> Seq(Sound)] /\ queue' \in [Party -> Seq(Sound)]
    /\ sent' \in [Party -> 0..MaxPlay] /\ heard' \in [Party -> Seq(Messages)]
    /\ upsets' \in 0..MaxUpsets

\* There are two parties.
LEMMA Parties == Party = {"initiator", "receiver"} /\ "initiator" \in Party /\ "receiver" \in Party
    BY DEF Party

\* A frozen step keeps the invariant.
LEMMA FrozenKeeps == FundingInv /\ Frozen => FundingInv'
  <1> SUFFICES ASSUME FundingInv, Frozen PROVE FundingInv'
      OBVIOUS
  <1>s. /\ \A b : Offered(b) => Offered(b)'
        /\ \A b : Bound(b) => Bound(b)'
        /\ Sound \subseteq Sound'
    <2>1. /\ hostile' = hostile
          /\ \A p \in Party : /\ hs'[p].st = hs[p].st /\ hs'[p].pending = hs[p].pending
                              /\ hs'[p].deadline = hs[p].deadline
        BY DEF Frozen, Alike
    <2>2. \A p \in Party : Past(p)' = Past(p)
        BY <2>1 DEF Past
    <2> QED
        BY <2>1, <2>2, Parties, Steady DEF Steadily
  <1>n. net' \in [Party -> Seq(Sound')] /\ queue' \in [Party -> Seq(Sound')]
      BY <1>s, Widen DEF Frozen
  <1>1. TypeOK'
    <2>1. net' \in [Party -> Seq(Messages)] /\ queue' \in [Party -> Seq(Messages)]
        BY SoundMessages, Widen DEF Frozen
    <2> QED
        BY <2>1 DEF Frozen, FundingInv, TypeOK
  <1>2. (hs = [p \in Party |-> hs[p]])'
      BY DEF Frozen
  <1>3. Asking'
      BY Parties DEF Frozen, Alike, FundingInv, Asking
  <1>4. Signed'
      BY Parties DEF Frozen, Alike, FundingInv, Signed
  <1>5. Funding'
      BY <1>n, <1>s, Parties DEF Frozen, Alike, FundingInv, Funding
  <1>6. Expiries'
    <2>1. chain' = chain /\ Expiries
        BY DEF Frozen, FundingInv
    <2>2. ASSUME NEW p \in Party
          PROVE  /\ hs'[p].expiry = hs[p].expiry /\ hs'[p].deadline = hs[p].deadline
                 /\ hs'[p].st = hs[p].st /\ hs'[p].opened = hs[p].opened
                 /\ hs'[p].established = hs[p].established /\ hs'[p].expired = hs[p].expired
        BY DEF Frozen, Alike
    <2> QED
        BY <2>1, <2>2 DEF Expiries, Past
  <1> QED
      BY <1>1, <1>2, <1>3, <1>4, <1>5, <1>6 DEF FundingInv

\* A step of one party leaves the phase of the other alone.
LEMMA OneParty ==
    ASSUME FundingInv, NEW p \in Party, NEW s \in Phases(p), hs' = [hs EXCEPT ![p] = s]
    PROVE  /\ hs' = [q \in Party |-> hs'[q]]
           /\ \A q \in Party : hs'[q] \in Phases(q)
           /\ hs'[p] = s
           /\ \A q \in Party : q # p => hs'[q] = hs[q]
    BY DEF FundingInv, TypeOK

\* The types of the variables, with the messages on the way sound.
LEMMA Types ==
    FundingInv =>
        /\ \A p \in Party : hs[p] \in Phases(p) /\ Peer(p) \in Party
        /\ wallet \in [Party -> {"none", "launcher", "spend"}]
        /\ outbox \in [Party -> Bundles] /\ chain.height \in Heights
        /\ chain \in [height : Heights, pool : Bundles, made : Heights]
        /\ sent \in [Party -> 0..MaxPlay] /\ heard \in [Party -> Seq(Messages)]
        /\ upsets \in 0..MaxUpsets /\ hostile \in Party \cup {"nobody"}
        /\ net \in [Party -> Seq(Sound)] /\ queue \in [Party -> Seq(Sound)]
  <1> SUFFICES ASSUME FundingInv
               PROVE /\ \A p \in Party : hs[p] \in Phases(p) /\ Peer(p) \in Party
                     /\ wallet \in [Party -> {"none", "launcher", "spend"}]
                     /\ outbox \in [Party -> Bundles] /\ chain.height \in Heights
                     /\ chain \in [height : Heights, pool : Bundles, made : Heights]
                     /\ sent \in [Party -> 0..MaxPlay] /\ heard \in [Party -> Seq(Messages)]
                     /\ upsets \in 0..MaxUpsets /\ hostile \in Party \cup {"nobody"}
                     /\ net \in [Party -> Seq(Sound)] /\ queue \in [Party -> Seq(Sound)]
      OBVIOUS
  <1>1. \A p \in Party : Peer(p) \in Party
      BY DEF Party, Peer
  <1> QED
      BY <1>1 DEF FundingInv, TypeOK, Funding

\* An unchanged phase is as frozen as can be.
LEMMA SameHs ==
    ASSUME FundingInv, hs' = hs
    PROVE  /\ hs' = [q \in Party |-> hs'[q]]
           /\ \A q \in Party : hs'[q] \in Phases(q)
           /\ \A q \in Party : /\ Alike(hs[q], hs'[q]) /\ hs'[q].st = hs[q].st
                               /\ hs[q].gone => hs'[q].gone
    BY DEF FundingInv, TypeOK, Alike

\* A step of one party that changes nothing the invariant is about is frozen.
LEMMA LikeHs ==
    ASSUME FundingInv, NEW p \in Party, NEW s \in Phases(p), hs' = [hs EXCEPT ![p] = s],
           Alike(hs[p], s), s.st = hs[p].st, hs[p].gone => s.gone
    PROVE  /\ hs' = [q \in Party |-> hs'[q]]
           /\ \A q \in Party : hs'[q] \in Phases(q)
           /\ \A q \in Party : /\ Alike(hs[q], hs'[q]) /\ hs'[q].st = hs[q].st
                               /\ hs[q].gone => hs'[q].gone
  <1>1. /\ hs' = [q \in Party |-> hs'[q]]
        /\ \A q \in Party : hs'[q] \in Phases(q)
        /\ hs'[p] = s
        /\ \A q \in Party : q # p => hs'[q] = hs[q]
      BY OneParty
  <1> QED
      BY <1>1 DEF Alike

\* deliver_message to a session that has cut its peer off.
LEMMA DropKeeps == ASSUME FundingInv, NEW p \in Party, Drop(p) PROVE FundingInv'
  <1>1. [net EXCEPT ![p] = Tail(@)] \in [Party -> Seq(Sound)]
      BY Delivery DEF Drop, FundingInv
  <1>2. net' \in [Party -> Seq(Sound)]
      BY <1>1 DEF Drop, Deliver
  <1> QED
      BY <1>2, SameHs, Types, FrozenKeeps DEF Drop, Frozen

\* A message put back for later stays sound in the queue.
LEMMA ReceiveEarlyKeeps == ASSUME FundingInv, NEW p \in Party, ReceiveEarly(p) PROVE FundingInv'
  <1>1. /\ [net EXCEPT ![p] = Tail(@)] \in [Party -> Seq(Sound)]
        /\ [queue EXCEPT ![p] = Arrived(p)] \in [Party -> Seq(Sound)]
      BY Delivery DEF ReceiveEarly, Listening, FundingInv
  <1>2. net' \in [Party -> Seq(Sound)] /\ queue' \in [Party -> Seq(Sound)]
      BY <1>1 DEF ReceiveEarly, Deliver
  <1> QED
      BY <1>2, SameHs, Types, FrozenKeeps DEF ReceiveEarly, Frozen

\* Upsets stay within their bound.
LEMMA UpsetType == ASSUME FundingInv, Upset PROVE upsets' \in 0..MaxUpsets
  <1>1. upsets \in 0..MaxUpsets /\ MaxUpsets \in Nat
      BY HandshakeAssumption DEF FundingInv, TypeOK
  <1> QED
      BY <1>1 DEF Upset

\* No bundle is 0.
LEMMA NoBundle == 0 \in Bundles
    BY HandshakeAssumption DEF Bundles

\* Failing changes nothing the funding depends on.
LEMMA FailedKeeps ==
    ASSUME NEW p \in Party, NEW s \in Phases(p)
    PROVE  /\ [s EXCEPT !.failed = TRUE] \in Phases(p) /\ Alike(s, [s EXCEPT !.failed = TRUE])
           /\ [s EXCEPT !.failed = TRUE].st = s.st /\ [s EXCEPT !.failed = TRUE].gone = s.gone
    BY DEF Phases, Alike

\* Leaving changes nothing the funding depends on.
LEMMA LeftKeeps ==
    ASSUME NEW p \in Party, NEW s \in Phases(p)
    PROVE  /\ [s EXCEPT !.left = TRUE, !.gone = TRUE] \in Phases(p)
           /\ Alike(s, [s EXCEPT !.left = TRUE, !.gone = TRUE])
           /\ [s EXCEPT !.left = TRUE, !.gone = TRUE].st = s.st
           /\ [s EXCEPT !.left = TRUE, !.gone = TRUE].gone
    BY DEF Phases, Alike

\* wallet_callback_failed keeps the invariant.
LEMMA WalletFailsKeeps == ASSUME FundingInv, NEW p \in Party, WalletFails(p) PROVE FundingInv'
  <1> DEFINE s == [hs[p] EXCEPT !.failed = TRUE]
  <1>1. hs[p] \in Phases(p)
      BY Types
  <1>2. s \in Phases(p) /\ Alike(hs[p], s) /\ s.st = hs[p].st /\ s.gone = hs[p].gone
      BY <1>1, FailedKeeps
  <1>3. hs' = [hs EXCEPT ![p] = s]
      BY DEF WalletFails
  <1>4. upsets' \in 0..MaxUpsets
      BY UpsetType DEF WalletFails
  <1> HIDE DEF s
  <1> QED
      BY <1>2, <1>3, <1>4, LikeHs, Types, FrozenKeeps DEF WalletFails, Frozen

\* abandon keeps the invariant: it only takes a bundle away.
LEMMA AbandonKeeps == ASSUME FundingInv, NEW p \in Party, Abandon(p) PROVE FundingInv'
  <1> DEFINE s == [hs[p] EXCEPT !.left = TRUE, !.gone = TRUE]
  <1>1. hs[p] \in Phases(p)
      BY Types
  <1>2. s \in Phases(p) /\ Alike(hs[p], s) /\ s.st = hs[p].st /\ s.gone
      BY <1>1, LeftKeeps
  <1>3. hs' = [hs EXCEPT ![p] = s]
      BY DEF Abandon
  <1>4. upsets' \in 0..MaxUpsets
      BY UpsetType DEF Abandon
  <1>5. outbox' \in [Party -> Bundles] /\ \A q \in Party : outbox'[q] \in {outbox[q], 0}
      BY Types, NoBundle DEF Abandon
  <1> HIDE DEF s
  <1> QED
      BY <1>2, <1>3, <1>4, <1>5, LikeHs, Types, FrozenKeeps DEF Abandon, Frozen

\* go_on_chain at the user's request keeps the invariant.
LEMMA UserGoesOnChainKeeps ==
    ASSUME FundingInv, NEW p \in Party, UserGoesOnChain(p) PROVE FundingInv'
  <1> DEFINE s == GoOnChain(hs[p])
  <1>1. s \in Phases(p) /\ Alike(hs[p], s) /\ s.st = hs[p].st /\ s.gone
      BY Types, GoOnChainKeeps
  <1>2. hs' = [hs EXCEPT ![p] = s]
      BY DEF UserGoesOnChain
  <1>3. upsets' \in 0..MaxUpsets
      BY UpsetType DEF UserGoesOnChain
  <1> HIDE DEF s
  <1> QED
      BY <1>1, <1>2, <1>3, LikeHs, Types, FrozenKeeps DEF UserGoesOnChain, Frozen

\* A message without a bundle is sound.
LEMMA Unfunded ==
    ASSUME NEW k \in Kinds, NEW ok \in BOOLEAN, NEW n \in 0..MaxPlay
    PROVE  Msg(k, ok, 0, n) \in Sound
    BY HandshakeAssumption DEF Msg, Sound, Messages, Bundles

\* A message of play keeps the invariant.
LEMMA PlayKeeps == ASSUME FundingInv, NEW p \in Party, Play(p) PROVE FundingInv'
  <1>1. sent[p] \in 0..MaxPlay /\ MaxPlay \in Nat /\ sent[p] < MaxPlay /\ Peer(p) \in Party
      BY Types, HandshakeAssumption DEF Play
  <1>2. sent[p] + 1 \in 0..MaxPlay
      BY <1>1
  <1>3. sent' \in [Party -> 0..MaxPlay]
      BY <1>2, Types DEF Play
  <1>4. Msg("Play", TRUE, 0, sent[p] + 1) \in Sound
      BY <1>2, Unfunded DEF Kinds
  <1>5. net' \in [Party -> Seq(Sound)]
      BY <1>1, <1>4, Types, Sending DEF Play
  <1> QED
      BY <1>3, <1>5, SameHs, Types, FrozenKeeps DEF Play, Frozen

\* A made-up message carries no bundle and keeps the invariant.
LEMMA MakeUpKeeps == ASSUME FundingInv, NEW p \in Party, MakeUp(p) PROVE FundingInv'
  <1>1. PICK k \in Kinds \ {"Play"}, ok \in BOOLEAN :
            net' = [net EXCEPT ![Peer(p)] = Append(@, Msg(k, ok, 0, 0))]
      BY DEF MakeUp
  <1>2. Msg(k, ok, 0, 0) \in Sound /\ Peer(p) \in Party
      BY Unfunded, Types, HandshakeAssumption
  <1>3. net' \in [Party -> Seq(Sound)]
      BY <1>1, <1>2, Types, Sending
  <1>4. upsets' \in 0..MaxUpsets
      BY UpsetType DEF MakeUp
  <1> QED
      BY <1>3, <1>4, SameHs, Types, FrozenKeeps DEF MakeUp, Frozen

\* Taking up messages changes the queue, what was heard, and whether the peer is
\* cut off.
LEMMA TakeUpDoes ==
    ASSUME FundingInv, NEW p \in Party, NEW s \in Phases(p), NEW S, S \subseteq Messages,
           NEW q \in Seq(S), queue \in [Party -> Seq(S)], TakeUp(p, s, q)
    PROVE  /\ heard' \in [Party -> Seq(Messages)] /\ queue' \in [Party -> Seq(S)]
           /\ \E t \in Phases(p) : /\ hs' = [hs EXCEPT ![p] = t] /\ Alike(s, t)
                                   /\ t.st = s.st /\ (s.gone => t.gone)
  <1>1. /\ SubSeq(q, 1, Pause(q) - 1) \in Seq(S)
        /\ SubSeq(q, Pause(q) + 1, Len(q)) \in Seq(S)
      BY TakenUp
  <1>2. SubSeq(q, 1, Pause(q) - 1) \in Seq(Messages)
      BY <1>1, SeqMonotonic
  <1>3. heard[p] \o SubSeq(q, 1, Pause(q) - 1) \in Seq(Messages)
      BY <1>2, Types, ConcatProperties
  <1>4. heard' \in [Party -> Seq(Messages)] /\ queue' \in [Party -> Seq(S)]
      BY <1>1, <1>3, Types DEF TakeUp
  <1>5. s \in Phases(p) /\ Alike(s, s) /\ s.st = s.st /\ (s.gone => s.gone)
      BY DEF Alike
  <1>6. \E t \in {s, GoOnChain(s)} : hs' = [hs EXCEPT ![p] = t]
      BY DEF TakeUp
  <1>7. /\ GoOnChain(s) \in Phases(p) /\ Alike(s, GoOnChain(s))
        /\ GoOnChain(s).st = s.st /\ GoOnChain(s).gone
      BY GoOnChainKeeps
  <1> QED
      BY <1>4, <1>5, <1>6, <1>7

\* A phase that is replaced ends as the new one, unless the peer is cut off.
LEMMA BecomeDoes ==
    ASSUME FundingInv, NEW p \in Party, NEW s \in Phases(p), Become(p, s)
    PROVE  /\ heard' \in [Party -> Seq(Messages)] /\ queue' \in [Party -> Seq(Sound)]
           /\ \E t \in Phases(p) : /\ hs' = [hs EXCEPT ![p] = t] /\ Alike(s, t)
                                   /\ t.st = s.st /\ (s.gone => t.gone)
  <1>1. CASE s.st = "Done" /\ ~s.unrolling
      BY <1>1, TakeUpDoes, Types, SoundMessages DEF Become
  <1>2. CASE ~(s.st = "Done" /\ ~s.unrolling)
      BY <1>2, Types DEF Become, Alike
  <1> QED
      BY <1>1, <1>2

\* A message to an off-chain phase keeps the invariant.
LEMMA ReceiveOffChainKeeps ==
    ASSUME FundingInv, NEW p \in Party, ReceiveOffChain(p) PROVE FundingInv'
  <1> DEFINE q == IF Front(p).k = "F" THEN Tail(Arrived(p)) ELSE Arrived(p)
  <1>1. /\ q \in Seq(Sound)
        /\ [net EXCEPT ![p] = Tail(@)] \in [Party -> Seq(Sound)]
      BY Delivery DEF ReceiveOffChain, Listening, FundingInv
  <1>2. TakeUp(p, hs[p], q)
      BY DEF ReceiveOffChain
  <1> HIDE DEF q
  <1>3. /\ heard' \in [Party -> Seq(Messages)] /\ queue' \in [Party -> Seq(Sound)]
        /\ \E t \in Phases(p) : /\ hs' = [hs EXCEPT ![p] = t] /\ Alike(hs[p], t)
                                /\ t.st = hs[p].st /\ (hs[p].gone => t.gone)
      BY <1>1, <1>2, TakeUpDoes, Types, SoundMessages
  <1>4. net' \in [Party -> Seq(Sound)]
      BY <1>1 DEF ReceiveOffChain, Deliver
  <1> QED
      BY <1>3, <1>4, LikeHs, Types, FrozenKeeps DEF ReceiveOffChain, Frozen

\* The parts of the invariant make it up.
LEMMA Assemble ==
    ASSUME hs' = [q \in Party |-> hs'[q]], \A q \in Party : hs'[q] \in Phases(q),
           wallet' \in [Party -> {"none", "launcher", "spend"}],
           outbox' \in [Party -> Bundles],
           chain' \in [height : Heights, pool : Bundles, made : Heights],
           sent' \in [Party -> 0..MaxPlay], heard' \in [Party -> Seq(Messages)],
           upsets' \in 0..MaxUpsets, hostile' \in Party \cup {"nobody"},
           Asking', Signed', Funding', Expiries'
    PROVE  FundingInv'
  <1>1. Sound' \subseteq Messages
      BY DEF Sound
  <1>2. net' \in [Party -> Seq(Sound')] /\ queue' \in [Party -> Seq(Sound')]
      BY DEF Funding
  <1>3. net' \in [Party -> Seq(Messages)] /\ queue' \in [Party -> Seq(Messages)]
      BY <1>1, <1>2, Widen
  <1>4. TypeOK'
      BY <1>3 DEF TypeOK
  <1> QED
      BY <1>4 DEF FundingInv

\* States before a party is asked for money.
Early == {"WaitingForStart", "SentA", "WaitingForLauncher", "SentC", "WaitingForA", "SentB"}

\* A step between states before money is asked for keeps the invariant.
LEMMA EarlyMove ==
    ASSUME FundingInv, NEW p \in Party, hs[p].st \in Early,
           NEW x \in States[p], x \in Early \cup {"SentD"},
           hs' = [hs EXCEPT ![p].st = x],
           wallet' \in [Party -> {"none", "launcher", "spend"}],
           \A q \in Party : q # p => wallet'[q] = wallet[q],
           wallet'[p] \in {"none", "launcher"},
           wallet'[p] = "launcher" => p = "initiator" /\ x = "WaitingForLauncher",
           net' \in [Party -> Seq(Sound)], queue' \in [Party -> Seq(Sound)],
           UNCHANGED <<outbox, chain, sent, heard, hostile, upsets>>
    PROVE  FundingInv'
  <1> DEFINE s == [hs[p] EXCEPT !.st = x]
  <1>1. s \in Phases(p) /\ Alike(hs[p], s) /\ s.st = x /\ s.gone = hs[p].gone
    <2>1. hs[p] \in Phases(p)
        BY Types
    <2> QED
        BY <2>1 DEF Phases, Alike
  <1>2. hs' = [hs EXCEPT ![p] = s]
      OBVIOUS
  <1> HIDE DEF s
  <1>3. /\ hs' = [q \in Party |-> hs'[q]]
        /\ \A q \in Party : hs'[q] \in Phases(q)
        /\ hs'[p] = s
        /\ \A q \in Party : q # p => hs'[q] = hs[q]
      BY <1>1, <1>2, OneParty
  <1>4. /\ \A q \in Party : /\ Alike(hs[q], hs'[q])
                            /\ hs'[q].gone = hs[q].gone
                            /\ q # p => hs'[q].st = hs[q].st
        /\ hs'[p].st = x
      BY <1>1, <1>3 DEF Alike
  <1>5. /\ \A b : Offered(b) => Offered(b)'
        /\ \A b : Bound(b) => Bound(b)'
        /\ Sound \subseteq Sound'
      BY <1>4, Parties, Steady DEF Steadily, Past, Alike, Early
  <1>6. net' \in [Party -> Seq(Sound')] /\ queue' \in [Party -> Seq(Sound')]
      BY <1>5, Widen
  <1>7. Asking'
      BY <1>4, Parties DEF FundingInv, Asking, Alike, Early
  <1>8. Signed'
      BY <1>4, Parties DEF FundingInv, Signed, Alike, Early
  <1>9. Funding'
      BY <1>4, <1>5, <1>6, Parties DEF FundingInv, Funding, Alike
  <1>10. Expiries'
    <2>1. ASSUME NEW q \in Party
          PROVE  /\ hs'[q].expiry = hs[q].expiry /\ hs'[q].deadline = hs[q].deadline
                 /\ hs'[q].opened = hs[q].opened /\ hs'[q].expired = hs[q].expired
                 /\ hs'[q].established = hs[q].established
                 /\ Past(q) => Past(q)'
        BY <1>4 DEF Alike, Past, Early
    <2> QED
        BY <2>1 DEF FundingInv, Expiries
  <1> QED
      BY <1>3, <1>7, <1>8, <1>9, <1>10, Types, Assemble

\* A message of the handshake without a bundle is sound.
LEMMA Plain == ASSUME NEW k \in Kinds PROVE Msg(k, TRUE, 0, 0) \in Sound
    BY HandshakeAssumption DEF Msg, Sound, Messages, Bundles

\* A reply leaves sound messages.
LEMMA ReplyDoes ==
    ASSUME FundingInv, NEW p \in Party, NEW k \in Kinds, Listening(p), Reply(p, k)
    PROVE  net' \in [Party -> Seq(Sound)] /\ queue' \in [Party -> Seq(Sound)]
  <1>1. /\ [net EXCEPT ![p] = Tail(@)] \in [Party -> Seq(Sound)]
        /\ [queue EXCEPT ![p] = Tail(Arrived(p))] \in [Party -> Seq(Sound)]
      BY Delivery DEF Listening, FundingInv
  <1>2. Msg(k, TRUE, 0, 0) \in Sound
      BY Plain
  <1>3. \A q \in Party : Tail(net[p]) \in Seq(Sound) /\ Append(net[q], Msg(k, TRUE, 0, 0)) \in Seq(Sound)
      BY <1>1, <1>2, Types, AppendProperties
  <1> QED
      BY <1>1, <1>3 DEF Reply, Consume

\* A consumed message leaves sound messages.
LEMMA ConsumeDoes ==
    ASSUME FundingInv, NEW p \in Party, Listening(p), Consume(p), Deliver(p)
    PROVE  net' \in [Party -> Seq(Sound)] /\ queue' \in [Party -> Seq(Sound)]
    BY Delivery DEF Listening, FundingInv, Consume, Deliver

\* send_message of a sound message leaves sound messages.
LEMMA SendDoes ==
    ASSUME NEW S, net \in [Party -> Seq(S)], NEW p \in Party, NEW k, NEW b,
           Msg(k, TRUE, b, 0) \in S, Send(p, k, b)
    PROVE  net' \in [Party -> Seq(S)]
  <1>1. Peer(p) \in Party
      BY DEF Peer, Party
  <1> QED
      BY <1>1, Sending DEF Send

\* start_handshake keeps the invariant.
LEMMA StartKeeps == ASSUME FundingInv, Start PROVE FundingInv'
  <1>1. "SentA" \in States["initiator"] /\ "initiator" \in Party
      BY DEF States, Party
  <1>2. Msg("A", TRUE, 0, 0) \in Sound
      BY Plain DEF Kinds
  <1>3. net' \in [Party -> Seq(Sound)]
      BY <1>1, <1>2, SendDoes, Types DEF Start
  <1>4. wallet["initiator"] = "none"
      BY <1>1, Types DEF Start, FundingInv, Asking
  <1> QED
      BY <1>1, <1>3, <1>4, EarlyMove, Types DEF Start, Early

\* Message A keeps the invariant.
LEMMA ReceiveAKeeps == ASSUME FundingInv, ReceiveA PROVE FundingInv'
  <1>1. "SentB" \in States["receiver"] /\ "receiver" \in Party
      BY DEF States, Party
  <1>2. net' \in [Party -> Seq(Sound)] /\ queue' \in [Party -> Seq(Sound)]
      BY <1>1, ReplyDoes DEF ReceiveA, Expects, Kinds
  <1>3. wallet["receiver"] = "none"
      BY <1>1, Types DEF ReceiveA, Expects, FundingInv, Asking
  <1> QED
      BY <1>1, <1>2, <1>3, EarlyMove, Types DEF ReceiveA, Expects, Early

\* Message C keeps the invariant.
LEMMA ReceiveCKeeps == ASSUME FundingInv, ReceiveC PROVE FundingInv'
  <1>1. "SentD" \in States["receiver"] /\ "receiver" \in Party
      BY DEF States, Party
  <1>2. net' \in [Party -> Seq(Sound)] /\ queue' \in [Party -> Seq(Sound)]
      BY <1>1, ReplyDoes DEF ReceiveC, Expects, Kinds
  <1>3. wallet["receiver"] = "none"
      BY <1>1, Types DEF ReceiveC, Expects, FundingInv, Asking
  <1> QED
      BY <1>1, <1>2, <1>3, EarlyMove, Types DEF ReceiveC, Expects, Early

\* Message B keeps the invariant.
LEMMA ReceiveBKeeps == ASSUME FundingInv, ReceiveB PROVE FundingInv'
  <1>1. "WaitingForLauncher" \in States["initiator"] /\ "initiator" \in Party
      BY DEF States, Party
  <1>2. net' \in [Party -> Seq(Sound)] /\ queue' \in [Party -> Seq(Sound)]
      BY <1>1, ConsumeDoes DEF ReceiveB, Expects
  <1>3. /\ wallet' \in [Party -> {"none", "launcher", "spend"}]
        /\ \A q \in Party : q # "initiator" => wallet'[q] = wallet[q]
        /\ wallet'["initiator"] = "launcher"
      BY <1>1, Types DEF ReceiveB
  <1> QED
      BY <1>1, <1>2, <1>3, EarlyMove DEF ReceiveB, Expects, Early

\* The launcher coin keeps the invariant: message C carries no bundle.
LEMMA ProvideLauncherCoinKeeps == ASSUME FundingInv, ProvideLauncherCoin PROVE FundingInv'
  <1>1. "SentC" \in States["initiator"] /\ "initiator" \in Party
      BY DEF States, Party
  <1>2. Msg("C", TRUE, 0, 0) \in Sound
      BY Plain DEF Kinds
  <1>3. net' \in [Party -> Seq(Sound)]
      BY <1>1, <1>2, SendDoes, Types DEF ProvideLauncherCoin
  <1>4. /\ wallet' \in [Party -> {"none", "launcher", "spend"}]
        /\ \A q \in Party : q # "initiator" => wallet'[q] = wallet[q]
        /\ wallet'["initiator"] = "none"
      BY <1>1, Types DEF ProvideLauncherCoin
  <1>5. hs["initiator"].st = "WaitingForLauncher"
      BY DEF ProvideLauncherCoin, FundingInv, Asking
  <1> QED
      BY <1>1, <1>3, <1>4, <1>5, EarlyMove, Types DEF ProvideLauncherCoin, Early

\* What a step of p that ends in phase t leaves of the phases.
LEMMA Elsewhere ==
    ASSUME FundingInv, NEW p \in Party, NEW t \in Phases(p), hs' = [hs EXCEPT ![p] = t],
           hostile' = hostile,
           p = "initiator" => /\ ~Past(p) \/ (t.st \in {"Finished", "Done"}
                                                  /\ t.deadline = hs[p].deadline),
           p = "receiver" =>
               \/ hs[p].pending
               \/ ~Past(p) /\ hs[p].st # "WaitingForCompletion"
               \/ /\ t.st \in {"Finished", "Done"} \/ t.st = hs[p].st
                  /\ ~t.pending /\ t.deadline = hs[p].deadline
    PROVE  /\ hs' = [q \in Party |-> hs'[q]]
           /\ \A q \in Party : hs'[q] \in Phases(q)
           /\ hs'[p] = t
           /\ \A q \in Party : q # p => hs'[q] = hs[q]
           /\ \A b : Offered(b) => Offered(b)'
           /\ \A b : Bound(b) => Bound(b)'
           /\ Sound \subseteq Sound'
  <1>1. /\ hs' = [q \in Party |-> hs'[q]]
        /\ \A q \in Party : hs'[q] \in Phases(q)
        /\ hs'[p] = t
        /\ \A q \in Party : q # p => hs'[q] = hs[q]
      BY OneParty
  <1>2. Steadily
      BY <1>1, Parties DEF Steadily, Past
  <1> QED
      BY <1>1, <1>2, Steady

\* Message D keeps the invariant: the signatures are stored before the wallet is
\* asked.
LEMMA ReceiveDKeeps == ASSUME FundingInv, ReceiveD PROVE FundingInv'
  <1> DEFINE i == "initiator"
             s == StoreSignatures(hs[i])
             t == [s EXCEPT !.st = "WaitingForOffer"]
  <1>1. i \in Party /\ hs[i] \in Phases(i) /\ "WaitingForOffer" \in States[i]
      BY Types, Parties DEF States
  <1>2. /\ s \in Phases(i) /\ s.sigs /\ s.theirs = hs[i].theirs
        /\ s.opened = hs[i].opened /\ s.expiry = hs[i].expiry
        /\ s.established = hs[i].established /\ s.expired = hs[i].expired
      BY <1>1, StoreSignaturesDoes
  <1> HIDE DEF s
  <1>3. /\ t \in Phases(i) /\ t.sigs /\ t.st = "WaitingForOffer"
        /\ t.opened = hs[i].opened /\ t.expiry = hs[i].expiry
        /\ t.established = hs[i].established /\ t.expired = hs[i].expired
        /\ t.pending = s.pending
      BY <1>1, <1>2 DEF Phases
  <1>4. /\ hs' = [hs EXCEPT ![i] = t] /\ hs[i].st = "SentC" /\ Listening(i)
        /\ wallet' = [wallet EXCEPT ![i] = IF s.pending THEN @ ELSE "spend"]
      BY DEF ReceiveD, Expects, AskForSpend, s
  <1> HIDE DEF t
  <1>5. wallet[i] = "none"
      BY <1>1, <1>4, Types DEF FundingInv, Asking
  <1>6. /\ wallet' \in [Party -> {"none", "launcher", "spend"}]
        /\ wallet'["receiver"] = wallet["receiver"]
        /\ wallet'[i] = IF t.pending THEN "none" ELSE "spend"
      BY <1>1, <1>3, <1>4, <1>5, Types
  <1>7. /\ hs' = [q \in Party |-> hs'[q]]
        /\ \A q \in Party : hs'[q] \in Phases(q)
        /\ hs'[i] = t /\ hs'["receiver"] = hs["receiver"]
        /\ \A b : Offered(b) => Offered(b)'
        /\ \A b : Bound(b) => Bound(b)'
        /\ Sound \subseteq Sound'
      BY <1>1, <1>3, <1>4, Elsewhere, Parties DEF Past, ReceiveD
  <1>8. net' \in [Party -> Seq(Sound')] /\ queue' \in [Party -> Seq(Sound')]
      BY <1>1, <1>4, <1>7, ConsumeDoes, Widen DEF ReceiveD
  <1>9. Asking' /\ Signed'
      BY <1>3, <1>6, <1>7, Parties DEF FundingInv, Asking, Signed
  <1>10. Funding'
      BY <1>7, <1>8, Parties DEF FundingInv, Funding, ReceiveD
  <1>11. Expiries'
      BY <1>3, <1>4, <1>7, Parties DEF FundingInv, Expiries, Past, ReceiveD
  <1> QED
      BY <1>6, <1>7, <1>9, <1>10, <1>11, Types, Assemble DEF ReceiveD

\* Message E keeps the invariant: the half it brings holds until the initiator's
\* deadline.
LEMMA ReceiveEKeeps == ASSUME FundingInv, ReceiveE PROVE FundingInv'
  <1> DEFINE r == "receiver"
             s == StoreSignatures(hs[r])
             t == [s EXCEPT !.st = "WaitingForCompletion", !.theirs = Front(r).bundle]
  <1>1. r \in Party /\ hs[r] \in Phases(r) /\ "WaitingForCompletion" \in States[r]
      BY Types, Parties DEF States
  <1>2. /\ s \in Phases(r) /\ s.sigs /\ s.gone = hs[r].gone
        /\ s.opened = hs[r].opened /\ s.expiry = hs[r].expiry
        /\ s.established = hs[r].established /\ s.expired = hs[r].expired
      BY <1>1, StoreSignaturesDoes
  <1> HIDE DEF s
  <1>3. /\ hs' = [hs EXCEPT ![r] = t] /\ hs[r].st = "SentD" /\ Listening(r)
        /\ wallet' = [wallet EXCEPT ![r] = IF s.pending THEN @ ELSE "spend"]
        /\ Front(r).k = "E" /\ Front(r).bundle # 0
      BY DEF ReceiveE, Expects, AskForSpend, s
  <1>4. Front(r) \in Sound
      BY <1>1, <1>3, Delivery DEF Listening, FundingInv
  <1>5. Front(r).bundle \in Bundles /\ Offered(Front(r).bundle)
      BY <1>3, <1>4 DEF Sound, Messages
  <1>6. /\ t \in Phases(r) /\ t.sigs /\ t.st = "WaitingForCompletion"
        /\ t.opened = hs[r].opened /\ t.expiry = hs[r].expiry
        /\ t.established = hs[r].established /\ t.expired = hs[r].expired
        /\ t.pending = s.pending /\ t.theirs = Front(r).bundle
      BY <1>1, <1>2, <1>5 DEF Phases
  <1> HIDE DEF t
  <1>7. wallet[r] = "none"
      BY <1>1, <1>3, Types DEF FundingInv, Asking, Listening, Deaf
  <1>8. /\ wallet' \in [Party -> {"none", "launcher", "spend"}]
        /\ wallet'["initiator"] = wallet["initiator"]
        /\ wallet'[r] = IF t.pending THEN "none" ELSE "spend"
      BY <1>1, <1>6, <1>3, <1>7, Types
  <1>9. /\ hs' = [q \in Party |-> hs'[q]]
        /\ \A q \in Party : hs'[q] \in Phases(q)
        /\ hs'[r] = t /\ hs'["initiator"] = hs["initiator"]
        /\ \A b : Offered(b) => Offered(b)'
        /\ \A b : Bound(b) => Bound(b)'
        /\ Sound \subseteq Sound'
      BY <1>1, <1>3, <1>6, Elsewhere, Parties DEF Past, ReceiveE
  <1>10. net' \in [Party -> Seq(Sound')] /\ queue' \in [Party -> Seq(Sound')]
      BY <1>1, <1>3, <1>9, ConsumeDoes, Widen DEF ReceiveE
  <1>11. Asking' /\ Signed'
      BY <1>6, <1>8, <1>9, Parties DEF FundingInv, Asking, Signed
  <1>12. Funding'
      BY <1>5, <1>6, <1>9, <1>10, Parties DEF FundingInv, Funding, ReceiveE
  <1>13. Expiries'
      BY <1>3, <1>6, <1>9, Parties DEF FundingInv, Expiries, Past, ReceiveE
  <1> QED
      BY <1>8, <1>9, <1>11, <1>12, <1>13, Types, Assemble DEF ReceiveE

\* spend_transaction_and_add_fee records the deadline as the expiry and changes
\* nothing else.
LEMMA SpendingOnly ==
    ASSUME NEW p \in Party, NEW s \in Phases(p)
    PROVE  /\ Spending(s).sigs = s.sigs /\ Spending(s).pending = s.pending
           /\ Spending(s).deadline = s.deadline /\ Spending(s).theirs = s.theirs
           /\ Spending(s).opened = s.opened /\ Spending(s).established = s.established
           /\ Spending(s).expired = s.expired
           /\ Spending(s).expiry = IF s.deadline # 0 THEN s.deadline ELSE s.expiry
    BY DEF Spending, Phases

\* Message F keeps the invariant: the funding it brings is bound by both
\* deadlines when it is put out for submission.
LEMMA ReceiveFKeeps == ASSUME FundingInv, ReceiveF PROVE FundingInv'
  <1> DEFINE i == "initiator"
             t == Spending(hs[i])
             b == Front(i).bundle
  <1>1. i \in Party /\ hs[i] \in Phases(i)
      BY Types, Parties
  <1>2. /\ t \in Phases(i) /\ t.st = hs[i].st /\ t.gone = hs[i].gone
        /\ t.sigs = hs[i].sigs /\ t.pending = hs[i].pending
        /\ t.deadline = hs[i].deadline /\ t.theirs = hs[i].theirs
        /\ t.opened = hs[i].opened /\ t.established = hs[i].established
        /\ t.expired = hs[i].expired
        /\ t.expiry = IF hs[i].deadline # 0 THEN hs[i].deadline ELSE hs[i].expiry
      BY <1>1, SpendingDoes, SpendingOnly
  <1>3. /\ hs' = [hs EXCEPT ![i] = t] /\ hs[i].st = "Finished" /\ Listening(i)
        /\ Front(i).k = "F"
      BY DEF ReceiveF
  <1> HIDE DEF t
  <1>4. Front(i) \in Sound
      BY <1>1, <1>3, Delivery DEF Listening, FundingInv
  <1>5. b \in Bundles /\ (b # 0 => Bound(b))
      BY <1>3, <1>4 DEF Sound, Messages
  <1>6. outbox' \in [Party -> Bundles] /\ outbox'[i] = b /\ outbox'["receiver"] = outbox["receiver"]
      BY <1>1, <1>5, Types DEF ReceiveF
  <1> HIDE DEF b
  <1>7. /\ hs' = [q \in Party |-> hs'[q]]
        /\ \A q \in Party : hs'[q] \in Phases(q)
        /\ hs'[i] = t /\ hs'["receiver"] = hs["receiver"]
        /\ \A c : Offered(c) => Offered(c)'
        /\ \A c : Bound(c) => Bound(c)'
        /\ Sound \subseteq Sound'
      BY <1>1, <1>2, <1>3, Elsewhere, Parties DEF Past, ReceiveF
  <1>8. net' \in [Party -> Seq(Sound')] /\ queue' \in [Party -> Seq(Sound')]
      BY <1>1, <1>3, <1>7, ConsumeDoes, Widen DEF ReceiveF
  <1>9. Asking' /\ Signed'
      BY <1>2, <1>7, Parties DEF FundingInv, Asking, Signed, ReceiveF
  <1>10. Funding'
      BY <1>5, <1>6, <1>7, <1>8, Parties DEF FundingInv, Funding, ReceiveF
  <1>11. Expiries'
      BY <1>2, <1>3, <1>7, Parties DEF FundingInv, Expiries, Past, ReceiveF
  <1> QED
      BY <1>6, <1>7, <1>9, <1>10, <1>11, Types, Assemble DEF ReceiveF

\* A wrong message keeps the invariant, with the signatures that came before an
\* empty bundle stored or not.
LEMMA ReceiveWrongKeeps ==
    ASSUME FundingInv, NEW p \in Party, ReceiveWrong(p) PROVE FundingInv'
  <1> DEFINE stored == Front(p).k = "E" /\ Front(p).ok /\ hs[p].st = "SentD"
  <1>1. hs[p] \in Phases(p) /\ Listening(p)
      BY Types DEF ReceiveWrong
  <1>2. net' \in [Party -> Seq(Sound)] /\ queue' \in [Party -> Seq(Sound)]
      BY <1>1, ConsumeDoes DEF ReceiveWrong
  <1>3. CASE ~stored
    <2> DEFINE s == GoOnChain(hs[p])
    <2>1. s \in Phases(p) /\ Alike(hs[p], s) /\ s.st = hs[p].st /\ s.gone
        BY <1>1, GoOnChainKeeps
    <2>2. hs' = [hs EXCEPT ![p] = s]
        BY <1>3 DEF ReceiveWrong
    <2> HIDE DEF s
    <2> QED
        BY <1>2, <2>1, <2>2, LikeHs, Types, FrozenKeeps DEF ReceiveWrong, Frozen
  <1>4. CASE stored
    <2> DEFINE s == StoreSignatures(hs[p])
               t == GoOnChain(s)
    <2>1. /\ s \in Phases(p) /\ s.st = "SentD" /\ s.sigs /\ s.theirs = hs[p].theirs
          /\ s.opened = hs[p].opened /\ s.expiry = hs[p].expiry
          /\ s.established = hs[p].established /\ s.expired = hs[p].expired
        BY <1>1, <1>4, StoreSignaturesDoes
    <2>2. hs' = [hs EXCEPT ![p] = t]
        BY <1>4 DEF ReceiveWrong
    <2> HIDE DEF s
    <2>3. t \in Phases(p) /\ Alike(s, t) /\ t.st = s.st /\ t.gone
        BY <2>1, GoOnChainKeeps
    <2> HIDE DEF t
    <2>4. /\ t.st = "SentD" /\ t.sigs /\ t.theirs = hs[p].theirs
          /\ t.opened = hs[p].opened /\ t.expiry = hs[p].expiry
          /\ t.established = hs[p].established /\ t.expired = hs[p].expired
        BY <2>1, <2>3 DEF Alike
    <2>5. p = "receiver" /\ hs[p].st = "SentD"
        BY <1>1, <1>4, Parties DEF Phases, States
    <2>6. wallet[p] = "none"
        BY <1>1, <2>5, Types DEF FundingInv, Asking, Listening, Deaf
    <2>7. /\ hs' = [q \in Party |-> hs'[q]]
          /\ \A q \in Party : hs'[q] \in Phases(q)
          /\ hs'["receiver"] = t /\ hs'["initiator"] = hs["initiator"]
          /\ \A b : Offered(b) => Offered(b)'
          /\ \A b : Bound(b) => Bound(b)'
          /\ Sound \subseteq Sound'
        BY <2>2, <2>3, <2>5, Elsewhere, Parties DEF Past, ReceiveWrong
    <2>8. net' \in [Party -> Seq(Sound')] /\ queue' \in [Party -> Seq(Sound')]
        BY <1>2, <2>7, Widen
    <2>9. Asking' /\ Signed'
        BY <2>3, <2>4, <2>5, <2>6, <2>7, Parties DEF FundingInv, Asking, Signed, ReceiveWrong
    <2>10. Funding'
        BY <2>4, <2>5, <2>7, <2>8, Parties DEF FundingInv, Funding, ReceiveWrong
    <2>11. Expiries'
        BY <2>4, <2>5, <2>7, Parties DEF FundingInv, Expiries, Past, ReceiveWrong
    <2> QED
        BY <2>7, <2>9, <2>10, <2>11, Types, Assemble DEF ReceiveWrong
  <1> QED
      BY <1>3, <1>4

\* A phase that is given its bundle has finished, or is off chain when the coin
\* has been seen.
LEMMA Provided ==
    ASSUME NEW p \in Party, NEW s \in Phases(p), NEW b \in Bundles
    PROVE  \E t \in Phases(p) :
              /\ t = Transition([s EXCEPT !.own = b, !.st = "Finished"])
              /\ Alike(s, t) /\ t.st \in {"Finished", "Done"} /\ t.gone = s.gone
  <1> DEFINE t == [s EXCEPT !.own = b, !.st = "Finished"]
  <1>1. "Finished" \in States[p]
      BY DEF Party, States
  <1>2. t \in Phases(p) /\ Alike(s, t) /\ t.st = "Finished" /\ t.gone = s.gone
      BY <1>1 DEF Phases, Alike
  <1> HIDE DEF t
  <1>3. /\ Transition(t) \in Phases(p) /\ Alike(t, Transition(t))
        /\ Transition(t).st \in {"Finished", "Done"} /\ Transition(t).gone = t.gone
      BY <1>2, TransitionKeeps
  <1>4. Alike(s, Transition(t)) /\ Transition(t).gone = s.gone
      BY <1>2, <1>3 DEF Alike
  <1>5. Transition(t) = Transition([s EXCEPT !.own = b, !.st = "Finished"])
      BY DEF t
  <1> QED
      BY <1>3, <1>4, <1>5

\* provide_coin_spend_bundle of the initiator keeps the invariant: its deadline
\* is fixed once its half is on the way.
LEMMA ProvideOfferKeeps == ASSUME FundingInv, ProvideOffer PROVE FundingInv'
  <1> DEFINE i == "initiator"
  <1>1. i \in Party /\ hs[i] \in Phases(i) /\ hs[i].deadline \in Bundles
      BY Types, Parties DEF Phases
  <1>d. PICK d \in Bundles : d = hs[i].deadline
      BY <1>1
  <1>2. PICK s \in Phases(i) :
            /\ s = Transition([hs[i] EXCEPT !.own = d, !.st = "Finished"])
            /\ Alike(hs[i], s) /\ s.st \in {"Finished", "Done"} /\ s.gone = hs[i].gone
      BY <1>1, Provided
  <1>3. Become(i, s) /\ hs[i].st = "WaitingForOffer" /\ Answered(i) /\ Send(i, "E", d)
      BY <1>2, <1>d DEF ProvideOffer
  <1>4. /\ heard' \in [Party -> Seq(Messages)] /\ queue' \in [Party -> Seq(Sound)]
        /\ \E t \in Phases(i) : /\ hs' = [hs EXCEPT ![i] = t] /\ Alike(s, t)
                                /\ t.st = s.st /\ (s.gone => t.gone)
      BY <1>1, <1>2, <1>3, BecomeDoes
  <1>5. PICK t \in Phases(i) : /\ hs' = [hs EXCEPT ![i] = t] /\ Alike(s, t)
                               /\ t.st = s.st /\ (s.gone => t.gone)
      BY <1>4
  <1>6. Alike(hs[i], t) /\ t.st \in {"Finished", "Done"} /\ t.deadline = d
      BY <1>2, <1>5, <1>d DEF Alike
  <1>7. /\ wallet[i] = "spend" /\ wallet'[i] = "none"
        /\ wallet' \in [Party -> {"none", "launcher", "spend"}]
        /\ wallet'["receiver"] = wallet["receiver"]
      BY <1>1, <1>3, Types DEF Answered
  <1>8. /\ hs' = [q \in Party |-> hs'[q]]
        /\ \A q \in Party : hs'[q] \in Phases(q)
        /\ hs'[i] = t /\ hs'["receiver"] = hs["receiver"]
        /\ \A c : Offered(c) => Offered(c)'
        /\ \A c : Bound(c) => Bound(c)'
        /\ Sound \subseteq Sound'
      BY <1>1, <1>3, <1>5, Elsewhere, Parties DEF Past, ProvideOffer
  <1>9. Offered(d)'
      BY <1>6, <1>8 DEF Offered, Past
  <1>10. Msg("E", TRUE, d, 0) \in Sound'
      BY <1>1, <1>9, HandshakeAssumption DEF Msg, Sound, Messages, Kinds
  <1>11. net \in [Party -> Seq(Sound')] /\ queue' \in [Party -> Seq(Sound')]
      BY <1>4, <1>8, Types, Widen
  <1>12. net' \in [Party -> Seq(Sound')]
      BY <1>1, <1>3, <1>10, <1>11, SendDoes
  <1>13. Asking' /\ Signed'
      BY <1>3, <1>6, <1>7, <1>8, Parties DEF FundingInv, Asking, Signed, Alike
  <1>14. Funding'
      BY <1>8, <1>11, <1>12, Parties DEF FundingInv, Funding, ProvideOffer
  <1>15. Expiries'
      BY <1>3, <1>6, <1>8, Parties DEF FundingInv, Expiries, Past, Alike, ProvideOffer
  <1> QED
      BY <1>4, <1>7, <1>8, <1>13, <1>14, <1>15, Types, Assemble DEF ProvideOffer

\* The whole funding a receiver can make holds no longer than either half.
LEMMA Whole ==
    ASSUME FundingInv, hs["receiver"].st = "WaitingForCompletion"
    PROVE  LET b == Earlier(hs["receiver"].theirs, hs["receiver"].deadline)
           IN  /\ b \in Bundles
               /\ b # 0 => /\ Past("initiator") /\ b <= hs["initiator"].deadline
                           /\ b <= hs["receiver"].deadline
  <1> DEFINE s == hs["receiver"]
  <1>1. s.theirs \in Bundles /\ s.deadline \in Bundles
      BY Types, Parties DEF Phases
  <1>2. s.theirs # 0 => Past("initiator") /\ s.theirs = hs["initiator"].deadline
      BY DEF FundingInv, Funding, Offered
  <1> QED
      BY <1>1, <1>2, HandshakeAssumption DEF Earlier, Bundles

\* provide_coin_spend_bundle of the receiver keeps the invariant: what it sends
\* and submits is bound by both deadlines.
LEMMA ProvideCompletionKeeps == ASSUME FundingInv, ProvideCompletion PROVE FundingInv'
  <1> DEFINE r == "receiver"
  <1>1. r \in Party /\ hs[r] \in Phases(r) /\ hs[r].st = "WaitingForCompletion" /\ Answered(r)
      BY Types, Parties DEF ProvideCompletion
  <1>2. PICK b \in Bundles :
            /\ b = Earlier(hs[r].theirs, hs[r].deadline)
            /\ b # 0 => Past("initiator") /\ b <= hs["initiator"].deadline /\ b <= hs[r].deadline
      BY <1>1, Whole
  <1>3. /\ Become(r, Spending(Transition([hs[r] EXCEPT !.own = b, !.st = "Finished"])))
        /\ outbox' = [outbox EXCEPT ![r] = b] /\ Send(r, "F", b)
      BY <1>2 DEF ProvideCompletion
  <1>4. PICK s \in Phases(r) :
            /\ s = Transition([hs[r] EXCEPT !.own = b, !.st = "Finished"])
            /\ Alike(hs[r], s) /\ s.st \in {"Finished", "Done"} /\ s.gone = hs[r].gone
      BY <1>1, <1>2, Provided
  <1> DEFINE u == Spending(s)
  <1>5. /\ u \in Phases(r) /\ u.st = s.st /\ u.sigs = hs[r].sigs
        /\ u.pending = hs[r].pending /\ u.deadline = hs[r].deadline
        /\ u.theirs = hs[r].theirs /\ u.opened = hs[r].opened
        /\ u.established = hs[r].established /\ u.expired = hs[r].expired
        /\ u.expiry = IF hs[r].deadline # 0 THEN hs[r].deadline ELSE hs[r].expiry
    <2>1. /\ u \in Phases(r) /\ u.st = s.st /\ u.sigs = s.sigs
          /\ u.pending = s.pending /\ u.deadline = s.deadline
          /\ u.theirs = s.theirs /\ u.opened = s.opened
          /\ u.established = s.established /\ u.expired = s.expired
          /\ u.expiry = IF s.deadline # 0 THEN s.deadline ELSE s.expiry
        BY <1>1, SpendingDoes, SpendingOnly
    <2> QED
        BY <2>1, <1>4 DEF Alike
  <1>6. Become(r, u)
      BY <1>3, <1>4
  <1> HIDE DEF u
  <1>7. /\ heard' \in [Party -> Seq(Messages)] /\ queue' \in [Party -> Seq(Sound)]
        /\ \E t \in Phases(r) : /\ hs' = [hs EXCEPT ![r] = t] /\ Alike(u, t)
                                /\ t.st = u.st /\ (u.gone => t.gone)
      BY <1>1, <1>5, <1>6, BecomeDoes
  <1>8. PICK t \in Phases(r) : hs' = [hs EXCEPT ![r] = t] /\ Alike(u, t) /\ t.st = u.st
      BY <1>7
  <1>9. /\ t.st \in {"Finished", "Done"} /\ t.sigs = hs[r].sigs
        /\ t.pending = hs[r].pending /\ t.deadline = hs[r].deadline
        /\ t.theirs = hs[r].theirs /\ t.opened = hs[r].opened
        /\ t.established = hs[r].established /\ t.expired = hs[r].expired
        /\ t.expiry = IF hs[r].deadline # 0 THEN hs[r].deadline ELSE hs[r].expiry
      BY <1>4, <1>5, <1>8 DEF Alike
  <1>10. /\ wallet[r] = "spend" /\ wallet'[r] = "none"
         /\ wallet' \in [Party -> {"none", "launcher", "spend"}]
         /\ wallet'["initiator"] = wallet["initiator"]
      BY <1>1, Types DEF Answered
  <1>11. ~hs[r].pending
      BY <1>1, <1>10 DEF FundingInv, Asking
  <1>12. /\ hs' = [q \in Party |-> hs'[q]]
         /\ \A q \in Party : hs'[q] \in Phases(q)
         /\ hs'[r] = t /\ hs'["initiator"] = hs["initiator"]
         /\ \A c : Offered(c) => Offered(c)'
         /\ \A c : Bound(c) => Bound(c)'
         /\ Sound \subseteq Sound'
      BY <1>1, <1>8, <1>9, <1>11, Elsewhere, Parties DEF Past, ProvideCompletion
  <1>13. b # 0 => Bound(b)'
      BY <1>2, <1>9, <1>11, <1>12 DEF Bound, Past
  <1>14. Msg("F", TRUE, b, 0) \in Sound'
      BY <1>2, <1>13, HandshakeAssumption DEF Msg, Sound, Messages, Kinds
  <1>15. net \in [Party -> Seq(Sound')] /\ queue' \in [Party -> Seq(Sound')]
      BY <1>7, <1>12, Types, Widen
  <1>16. net' \in [Party -> Seq(Sound')]
      BY <1>1, <1>3, <1>14, <1>15, SendDoes
  <1>17. /\ outbox' \in [Party -> Bundles] /\ outbox'[r] = b
         /\ outbox'["initiator"] = outbox["initiator"]
      BY <1>1, <1>2, <1>3, Types
  <1>18. Asking' /\ Signed'
      BY <1>1, <1>9, <1>10, <1>11, <1>12, Parties DEF FundingInv, Asking, Signed
  <1>19. Funding'
      BY <1>9, <1>12, <1>13, <1>15, <1>16, <1>17, Parties DEF FundingInv, Funding, ProvideCompletion
  <1>20. Expiries'
      BY <1>1, <1>9, <1>12, Parties DEF FundingInv, Expiries, Past, ProvideCompletion
  <1> QED
      BY <1>7, <1>10, <1>12, <1>17, <1>18, <1>19, <1>20, Types, Assemble DEF ProvideCompletion

\* While the phases stay as they are, so does all that is said of bundles.
LEMMA Unmoved ==
    ASSUME FundingInv, hs' = hs, hostile' = hostile
    PROVE  /\ hs' = [q \in Party |-> hs'[q]]
           /\ \A q \in Party : hs'[q] \in Phases(q)
           /\ \A b : Offered(b) => Offered(b)'
           /\ \A b : Bound(b) => Bound(b)'
           /\ Sound \subseteq Sound'
  <1>1. Steadily
      BY DEF Steadily, Past
  <1> QED
      BY <1>1, Steady DEF FundingInv, TypeOK

\* A hostile receiver that submits the funding without sending F has only a
\* bundle that is bound, so the invariant is kept.
LEMMA FundSilentlyKeeps == ASSUME FundingInv, FundSilently PROVE FundingInv'
  <1> DEFINE r == "receiver"
  <1>1. r \in Party /\ hs[r].st = "WaitingForCompletion" /\ hostile = r /\ Answered(r)
      BY Parties DEF FundSilently
  <1>2. PICK b \in Bundles :
            /\ b = Earlier(hs[r].theirs, hs[r].deadline)
            /\ b # 0 => Past("initiator") /\ b <= hs["initiator"].deadline /\ b <= hs[r].deadline
      BY <1>1, Whole
  <1>3. /\ wallet[r] = "spend" /\ wallet'[r] = "none"
        /\ wallet' \in [Party -> {"none", "launcher", "spend"}]
        /\ wallet'["initiator"] = wallet["initiator"]
      BY <1>1, Types DEF Answered
  <1>4. b # 0 => Bound(b)
      BY <1>1, <1>2, <1>3 DEF Bound, FundingInv, Asking
  <1>5. /\ outbox' \in [Party -> Bundles] /\ outbox'[r] = b
        /\ outbox'["initiator"] = outbox["initiator"]
      BY <1>1, <1>2, Types DEF FundSilently
  <1>6. /\ hs' = [q \in Party |-> hs'[q]]
        /\ \A q \in Party : hs'[q] \in Phases(q)
        /\ \A c : Offered(c) => Offered(c)'
        /\ \A c : Bound(c) => Bound(c)'
        /\ Sound \subseteq Sound'
      BY Unmoved DEF FundSilently
  <1>7. net' \in [Party -> Seq(Sound')] /\ queue' \in [Party -> Seq(Sound')]
      BY <1>6, Types, Widen DEF FundSilently
  <1>8. Asking' /\ Signed'
      BY <1>3, Parties DEF FundingInv, Asking, Signed, FundSilently
  <1>9. Funding'
      BY <1>4, <1>5, <1>6, <1>7, Parties DEF FundingInv, Funding, FundSilently
  <1>10. Expiries'
      BY DEF FundingInv, Expiries, Past, FundSilently
  <1> QED
      BY <1>3, <1>5, <1>6, <1>8, <1>9, <1>10, Types, Assemble DEF FundSilently

\* The funding pushed to the mempool is bound and not yet late.
LEMMA PushKeeps == ASSUME FundingInv, NEW p \in Party, Push(p) PROVE FundingInv'
  <1>1. /\ hs' = [q \in Party |-> hs'[q]]
        /\ \A q \in Party : hs'[q] \in Phases(q)
        /\ \A c : Offered(c) => Offered(c)'
        /\ \A c : Bound(c) => Bound(c)'
        /\ Sound \subseteq Sound'
      BY Unmoved DEF Push
  <1>2. net' \in [Party -> Seq(Sound')] /\ queue' \in [Party -> Seq(Sound')]
      BY <1>1, Types, Widen DEF Push
  <1>3. /\ outbox' \in [Party -> Bundles]
        /\ \A q \in Party : outbox'[q] \in {outbox[q], 0}
      BY Types, NoBundle DEF Push
  <1>4. outbox[p] \in Bundles /\ outbox[p] # 0 /\ Bound(outbox[p])
      BY Types DEF Push, FundingInv, Funding
  <1>5. /\ chain' \in [height : Heights, pool : Bundles, made : Heights]
        /\ chain'.height = chain.height /\ chain'.made = chain.made
        /\ \/ chain'.pool = chain.pool
           \/ chain'.pool = outbox[p] /\ chain.height < outbox[p]
      BY <1>4, Types DEF Push, Includable
  <1>6. Asking' /\ Signed'
      BY DEF FundingInv, Asking, Signed, Push
  <1>7. Funding'
      BY <1>1, <1>2, <1>3, <1>4, <1>5 DEF FundingInv, Funding, Push
  <1>8. Expiries'
      BY <1>5 DEF FundingInv, Expiries, Past, Push
  <1> QED
      BY <1>1, <1>3, <1>5, <1>6, <1>7, <1>8, Types, Assemble DEF Push

\* A block keeps the invariant: a funding in time for it is not past a deadline
\* anyone has given up at.
LEMMA FarmKeeps == ASSUME FundingInv, Farm PROVE FundingInv'
  <1>1. PICK take \in BOOLEAN :
            /\ take => chain.pool # 0
            /\ chain' = [height |-> chain.height + 1,
                         made   |-> IF take THEN chain.height + 1 ELSE chain.made,
                         pool   |-> IF take \/ chain.height + 1 >= chain.pool THEN 0
                                    ELSE chain.pool]
      BY DEF Farm
  <1>2. /\ hs' = [q \in Party |-> hs'[q]]
        /\ \A q \in Party : hs'[q] \in Phases(q)
        /\ \A c : Offered(c) => Offered(c)'
        /\ \A c : Bound(c) => Bound(c)'
        /\ Sound \subseteq Sound'
      BY Unmoved DEF Farm
  <1>3. net' \in [Party -> Seq(Sound')] /\ queue' \in [Party -> Seq(Sound')]
      BY <1>2, Types, Widen DEF Farm
  <1>4. /\ chain.height \in Heights /\ chain.height + 1 \in Heights
        /\ chain.pool \in Bundles /\ chain.made \in Heights
      BY Types, HandshakeAssumption DEF Farm, Heights
  <1>5. chain' \in [height : Heights, pool : Bundles, made : Heights]
      BY <1>1, <1>4, NoBundle
  <1>6. /\ chain'.height = chain.height + 1
        /\ chain'.made = IF take THEN chain.height + 1 ELSE chain.made
        /\ chain'.pool = IF take \/ chain.height + 1 >= chain.pool THEN 0 ELSE chain.pool
      BY <1>1
  <1>7. Asking' /\ Signed'
      BY DEF FundingInv, Asking, Signed, Farm
  <1>8. chain.pool # 0 => Bound(chain.pool) /\ chain.height < chain.pool
      BY DEF FundingInv, Funding
  <1>9. chain'.pool # 0 => chain'.pool = chain.pool /\ chain'.height < chain.pool
      BY <1>4, <1>6 DEF Heights, Bundles
  <1>10. chain'.made # 0 => \E b \in Bundles : Bound(b)
      BY <1>1, <1>4, <1>6, <1>8 DEF FundingInv, Funding
  <1>11. Funding'
      BY <1>2, <1>3, <1>8, <1>9, <1>10 DEF FundingInv, Funding, Farm
  <1>12. Expiries'
    <2>1. ASSUME NEW p \in Party, hs[p].expired
          PROVE  /\ ~take /\ chain.made = 0 /\ hs[p].expiry # 0
                 /\ hs[p].expiry <= chain.height + 1
      <3>1. /\ chain.made = 0 /\ hs[p].expiry # 0 /\ hs[p].expiry <= chain.height
            /\ hs[p].expiry = hs[p].deadline
          BY <2>1 DEF FundingInv, Expiries
      <3>2. hs[p].expiry \in Bundles
          BY Types DEF Phases
      <3>3. chain.pool # 0 => chain.pool <= hs[p].deadline
          BY <1>8, Parties DEF Bound
      <3> QED
          BY <1>1, <1>4, <1>8, <3>1, <3>2, <3>3 DEF Heights, Bundles
    <2> QED
        BY <1>6, <2>1 DEF FundingInv, Expiries, Past, Farm
  <1> QED
      BY <1>2, <1>5, <1>7, <1>11, <1>12, Types, Assemble DEF Farm

\* A report that only sets a missing deadline, opens the channel or rightly
\* gives it up keeps the invariant.
LEMMA ToldKeeps ==
    ASSUME FundingInv, NEW p \in Party, NEW t \in Phases(p), hs' = [hs EXCEPT ![p] = t],
           t.sigs = hs[p].sigs, t.theirs = hs[p].theirs, t.expiry = hs[p].expiry,
           hs[p].gone => t.gone,
           t.st = hs[p].st \/ (hs[p].st = "Finished" /\ t.st = "Done"),
           ~t.pending, hs[p].pending \/ t.deadline = hs[p].deadline,
           t.opened => t.established \/ t.expired,
           t.expired => chain.made = 0 /\ t.expiry # 0 /\ t.expiry <= chain.height,
           AskAtHeight(p), heard' \in [Party -> Seq(Messages)],
           queue' \in [Party -> Seq(Sound)],
           UNCHANGED <<net, outbox, chain, sent, hostile, upsets>>
    PROVE  FundingInv'
  <1>1. hs[p].pending => hs[p].st \in {"WaitingForOffer", "SentD", "WaitingForCompletion"}
      BY Parties DEF FundingInv, Asking
  <1>2. /\ hs' = [q \in Party |-> hs'[q]]
        /\ \A q \in Party : hs'[q] \in Phases(q)
        /\ hs'[p] = t
        /\ \A q \in Party : q # p => hs'[q] = hs[q]
        /\ \A b : Offered(b) => Offered(b)'
        /\ \A b : Bound(b) => Bound(b)'
        /\ Sound \subseteq Sound'
      BY <1>1, Elsewhere, Parties DEF Past
  <1>3. net' \in [Party -> Seq(Sound')] /\ queue' \in [Party -> Seq(Sound')]
      BY <1>2, Types, Widen
  <1>4. /\ wallet' \in [Party -> {"none", "launcher", "spend"}]
        /\ wallet'[p] = IF hs[p].pending THEN "spend" ELSE wallet[p]
        /\ \A q \in Party : q # p => wallet'[q] = wallet[q]
      BY <1>1, Types DEF AskAtHeight
  <1>5. Asking'
    <2>1. CASE p = "initiator"
        BY <1>2, <1>4, <2>1, Parties DEF FundingInv, Asking
    <2>2. CASE p = "receiver"
        BY <1>2, <1>4, <2>2, Parties DEF FundingInv, Asking
    <2> QED
        BY <2>1, <2>2, Parties
  <1>6. Signed'
      BY <1>2, Parties DEF FundingInv, Signed
  <1>7. Funding'
      BY <1>2, <1>3, Parties DEF FundingInv, Funding
  <1>8. Expiries'
      BY <1>1, <1>2 DEF FundingInv, Expiries, Past
  <1> QED
      BY <1>2, <1>4, <1>5, <1>6, <1>7, <1>8, Types, Assemble

\* A reported height is one of the chain.
LEMMA Reported ==
    ASSUME FundingInv, NEW h \in 1..chain.height
    PROVE  h \in Heights /\ h <= chain.height
  <1>1. chain.height \in Heights /\ MaxHeight \in Nat
      BY Types, HandshakeAssumption
  <1> QED
      BY <1>1 DEF Heights

\* new_block_height_only keeps the invariant.
LEMMA NewHeightKeeps ==
    ASSUME FundingInv, NEW p \in Party, NEW h \in 1..chain.height, NewHeight(p, h)
    PROVE  FundingInv'
  <1> DEFINE t == AtHeight(hs[p], h)
  <1>1. hs[p] \in Phases(p) /\ h \in Heights
      BY Types, Reported
  <1>2. /\ t \in Phases(p) /\ t.st = hs[p].st /\ t.gone = hs[p].gone
        /\ t.sigs = hs[p].sigs /\ t.theirs = hs[p].theirs
        /\ t.opened = hs[p].opened /\ t.expiry = hs[p].expiry
        /\ t.established = hs[p].established /\ t.expired = hs[p].expired
        /\ ~hs[p].pending \/ hs[p].st = "Done" =>
             t.pending = hs[p].pending /\ t.deadline = hs[p].deadline
        /\ hs[p].pending /\ hs[p].st # "Done" => ~t.pending
      BY <1>1, AtHeightDoes
  <1>3. hs' = [hs EXCEPT ![p] = t]
      BY DEF NewHeight
  <1> HIDE DEF t
  <1>4. hs[p].pending => hs[p].st # "Done"
      BY Parties DEF FundingInv, Asking
  <1>5. /\ hs[p].opened => hs[p].established \/ hs[p].expired
        /\ hs[p].expired =>
             chain.made = 0 /\ hs[p].expiry # 0 /\ hs[p].expiry <= chain.height
      BY DEF FundingInv, Expiries
  <1>6. AskAtHeight(p) /\ UNCHANGED <<queue, net, outbox, chain, sent, heard, hostile, upsets>>
      BY DEF NewHeight
  <1> QED
      BY <1>2, <1>3, <1>4, <1>5, <1>6, ToldKeeps, Types

\* coin_created opens the channel and may take the session off chain.
LEMMA CoinCreatedDoes ==
    ASSUME NEW p \in Party, NEW s \in Phases(p)
    PROVE  \E t \in Phases(p) :
              /\ t = CoinCreated(s)
              /\ t.sigs = s.sigs /\ t.pending = s.pending /\ t.deadline = s.deadline
              /\ t.theirs = s.theirs /\ t.expiry = s.expiry /\ t.gone = s.gone
              /\ t.established = s.established /\ t.expired = s.expired
              /\ t.st = s.st \/ (s.st = "Finished" /\ t.st = "Done")
  <1> DEFINE u == [s EXCEPT !.opened = TRUE]
  <1>1. CASE HasChannel(s)
    <2>1. /\ u \in Phases(p) /\ u.st = s.st /\ u.gone = s.gone
          /\ u.sigs = s.sigs /\ u.pending = s.pending /\ u.deadline = s.deadline
          /\ u.theirs = s.theirs /\ u.expiry = s.expiry
          /\ u.established = s.established /\ u.expired = s.expired
        BY DEF Phases
    <2> HIDE DEF u
    <2>2. /\ Transition(u) \in Phases(p) /\ Alike(u, Transition(u))
          /\ Transition(u).st = IF u.opened /\ u.st = "Finished" THEN "Done" ELSE u.st
          /\ Transition(u).gone = u.gone
        BY <2>1, TransitionKeeps
    <2>3. Transition(u) = CoinCreated(s)
        BY <1>1 DEF CoinCreated, u
    <2> QED
        BY <2>1, <2>2, <2>3 DEF Alike
  <1>2. CASE ~HasChannel(s)
      BY <1>2 DEF CoinCreated
  <1> QED
      BY <1>1, <1>2

\* new_block keeps the invariant: a session that has not seen the coin and is
\* not told of it now gives up only while there is none.
LEMMA NewBlockKeeps ==
    ASSUME FundingInv, NEW p \in Party, NEW h \in 1..chain.height, NewBlock(p, h)
    PROVE  FundingInv'
  <1>1. hs[p] \in Phases(p) /\ h \in Heights /\ h <= chain.height
      BY Types, Reported
  <1>2. hs[p].pending => hs[p].st \in {"WaitingForOffer", "SentD", "WaitingForCompletion"}
      BY Parties DEF FundingInv, Asking
  <1>3. /\ hs[p].opened => hs[p].established \/ hs[p].expired
        /\ hs[p].expired =>
             chain.made = 0 /\ hs[p].expiry # 0 /\ hs[p].expiry <= chain.height
      BY DEF FundingInv, Expiries
  <1>4. AskAtHeight(p) /\ UNCHANGED <<net, outbox, chain, sent, hostile, upsets>>
      BY DEF NewBlock
  <1>5. CASE chain.made # 0 /\ ~hs[p].opened
    <2>1. PICK s \in Phases(p) :
              /\ s = CoinCreated(hs[p])
              /\ s.sigs = hs[p].sigs /\ s.pending = hs[p].pending
              /\ s.deadline = hs[p].deadline /\ s.theirs = hs[p].theirs
              /\ s.expiry = hs[p].expiry /\ s.gone = hs[p].gone
              /\ s.established = hs[p].established /\ s.expired = hs[p].expired
              /\ s.st = hs[p].st \/ (hs[p].st = "Finished" /\ s.st = "Done")
        BY <1>1, CoinCreatedDoes
    <2> DEFINE u == AtHeight(s, h)
               v == CheckExpiry(u, h, TRUE)
    <2>2. /\ u \in Phases(p) /\ u.st = s.st /\ u.gone = s.gone
          /\ u.sigs = s.sigs /\ u.theirs = s.theirs /\ u.expiry = s.expiry
          /\ u.established = s.established /\ u.expired = s.expired
          /\ ~s.pending \/ s.st = "Done" =>
               u.pending = s.pending /\ u.deadline = s.deadline
          /\ s.pending /\ s.st # "Done" => ~u.pending
        BY <1>1, <2>1, AtHeightDoes
    <2>3. Become(p, v)
        BY <1>5, <2>1 DEF NewBlock
    <2> HIDE DEF u
    <2>4. /\ v \in Phases(p) /\ v.st = u.st /\ v.gone = u.gone
          /\ v.sigs = u.sigs /\ v.theirs = u.theirs /\ v.pending = u.pending
          /\ v.deadline = u.deadline /\ v.expiry = u.expiry /\ v.expired = u.expired
          /\ v.established \/ v.expired
        BY <1>1, <2>2, ZenonT(40) DEF CheckExpiry, Phases
    <2> HIDE DEF v
    <2>5. /\ heard' \in [Party -> Seq(Messages)] /\ queue' \in [Party -> Seq(Sound)]
          /\ \E t \in Phases(p) : /\ hs' = [hs EXCEPT ![p] = t] /\ Alike(v, t)
                                  /\ t.st = v.st /\ (v.gone => t.gone)
        BY <2>3, <2>4, BecomeDoes
    <2>6. PICK t \in Phases(p) : /\ hs' = [hs EXCEPT ![p] = t] /\ Alike(v, t)
                                 /\ t.st = v.st /\ (v.gone => t.gone)
        BY <2>5
    <2>7. /\ t.sigs = hs[p].sigs /\ t.theirs = hs[p].theirs /\ t.expiry = hs[p].expiry
          /\ hs[p].gone => t.gone
          /\ t.st = hs[p].st \/ (hs[p].st = "Finished" /\ t.st = "Done")
          /\ ~t.pending /\ (hs[p].pending \/ t.deadline = hs[p].deadline)
          /\ t.established \/ t.expired
          /\ t.expired = hs[p].expired
        BY <1>2, <2>1, <2>2, <2>4, <2>6 DEF Alike
    <2> QED
        BY <1>3, <1>4, <2>5, <2>6, <2>7, ToldKeeps
  <1>6. CASE ~(chain.made # 0 /\ ~hs[p].opened)
    <2> DEFINE u == AtHeight(hs[p], h)
               t == CheckExpiry(u, h, FALSE)
    <2>1. /\ u \in Phases(p) /\ u.st = hs[p].st /\ u.gone = hs[p].gone
          /\ u.sigs = hs[p].sigs /\ u.theirs = hs[p].theirs
          /\ u.opened = hs[p].opened /\ u.expiry = hs[p].expiry
          /\ u.established = hs[p].established /\ u.expired = hs[p].expired
          /\ ~hs[p].pending \/ hs[p].st = "Done" =>
               u.pending = hs[p].pending /\ u.deadline = hs[p].deadline
          /\ hs[p].pending /\ hs[p].st # "Done" => ~u.pending
        BY <1>1, AtHeightDoes
    <2>2. hs' = [hs EXCEPT ![p] = t] /\ UNCHANGED <<queue, heard>>
        BY <1>6 DEF NewBlock
    <2> HIDE DEF u
    <2>3. /\ t \in Phases(p) /\ t.st = u.st /\ t.gone = u.gone
          /\ t.sigs = u.sigs /\ t.theirs = u.theirs /\ t.pending = u.pending
          /\ t.deadline = u.deadline /\ t.expiry = u.expiry /\ t.opened = u.opened
          /\ t.established = u.established
          /\ u.expired => t.expired
          /\ t.expired /\ ~u.expired => ~u.established /\ u.expiry # 0 /\ u.expiry <= h
        BY <1>1, <2>1, ZenonT(40) DEF CheckExpiry, Phases, Heights, Bundles
    <2> HIDE DEF t
    <2>4. t.expired => chain.made = 0 /\ t.expiry # 0 /\ t.expiry <= chain.height
      <3>1. chain.height \in Heights /\ hs[p].expiry \in Bundles
          BY <1>1, Types DEF Phases
      <3>2. h \in Nat /\ chain.height \in Nat /\ hs[p].expiry \in Nat
          BY <1>1, <3>1, HandshakeAssumption DEF Heights, Bundles
      <3> QED
          BY <1>1, <1>3, <1>6, <2>1, <2>3, <3>2
    <2>5. /\ ~t.pending /\ (hs[p].pending \/ t.deadline = hs[p].deadline)
          /\ t.opened => t.established \/ t.expired
        BY <1>2, <1>3, <2>1, <2>3
    <2> QED
        BY <1>4, <2>1, <2>2, <2>3, <2>4, <2>5, ToldKeeps, Types
  <1> QED
      BY <1>5, <1>6

\* A new handshake satisfies the invariant.
LEMMA InitFunding == Init => FundingInv
  <1> SUFFICES ASSUME Init PROVE FundingInv
      OBVIOUS
  <1>1. /\ hs = [p \in Party |-> hs[p]]
        /\ \A p \in Party :
              hs[p] = NewPhase(IF p = "initiator" THEN "WaitingForStart" ELSE "WaitingForA")
      BY DEF Init
  <1>2. \A p \in Party : hs[p] \in Phases(p)
    <2>1. 0 \in Heights /\ 0 \in Bundles
        BY HandshakeAssumption DEF Heights, Bundles
    <2>2. ASSUME NEW p \in Party, NEW st \in States[p]
          PROVE  NewPhase(st) \in Phases(p)
        BY <2>1 DEF NewPhase, Phases
    <2>3. "WaitingForStart" \in States["initiator"] /\ "WaitingForA" \in States["receiver"]
        BY DEF States
    <2> QED
        BY <1>1, <2>2, <2>3, Parties
  <1>3. /\ hs["initiator"].st = "WaitingForStart" /\ hs["receiver"].st = "WaitingForA"
        /\ \A p \in Party : /\ ~hs[p].pending /\ hs[p].theirs = 0 /\ hs[p].expiry = 0
                            /\ ~hs[p].opened /\ ~hs[p].expired
      BY <1>1 DEF Party, NewPhase
  <1>4. \A S : << >> \in Seq(S)
      OBVIOUS
  <1>5. TypeOK
      BY <1>2, <1>4, NoBundle, HandshakeAssumption DEF Init, TypeOK, Heights
  <1>6. Asking /\ Signed
      BY <1>3, Parties DEF Init, Asking, Signed
  <1>7. Funding
      BY <1>3, <1>4, Parties DEF Init, Funding
  <1>8. Expiries
      BY <1>3 DEF Expiries
  <1> QED
      BY <1>1, <1>5, <1>6, <1>7, <1>8 DEF FundingInv

\* A step that changes nothing keeps the invariant.
LEMMA StutterKeeps == ASSUME FundingInv, UNCHANGED vars PROVE FundingInv'
    BY SameHs, Types, FrozenKeeps DEF vars, Frozen

\* Every step keeps the invariant.
LEMMA NextKeeps == ASSUME FundingInv, Next PROVE FundingInv'
  <1>1. CASE Start \/ ReceiveA \/ ReceiveB \/ ReceiveC \/ ReceiveD \/ ReceiveE \/ ReceiveF
      BY <1>1, StartKeeps, ReceiveAKeeps, ReceiveBKeeps, ReceiveCKeeps, ReceiveDKeeps,
         ReceiveEKeeps, ReceiveFKeeps
  <1>2. CASE ProvideLauncherCoin \/ ProvideOffer \/ ProvideCompletion
      BY <1>2, ProvideLauncherCoinKeeps, ProvideOfferKeeps, ProvideCompletionKeeps
  <1>3. CASE Farm \/ FundSilently
      BY <1>3, FarmKeeps, FundSilentlyKeeps
  <1>4. ASSUME NEW p \in Party,
               \/ ReceiveEarly(p) \/ ReceiveWrong(p) \/ ReceiveOffChain(p) \/ Drop(p)
               \/ WalletFails(p) \/ UserGoesOnChain(p) \/ Abandon(p) \/ Play(p)
               \/ Push(p) \/ MakeUp(p)
        PROVE  FundingInv'
      BY <1>4, ReceiveEarlyKeeps, ReceiveWrongKeeps, ReceiveOffChainKeeps, DropKeeps,
         WalletFailsKeeps, UserGoesOnChainKeeps, AbandonKeeps, PlayKeeps, PushKeeps,
         MakeUpKeeps
  <1>5. ASSUME NEW p \in Party, NEW h \in 1..chain.height, NewHeight(p, h) \/ NewBlock(p, h)
        PROVE  FundingInv'
      BY <1>5, NewHeightKeeps, NewBlockKeeps
  <1> QED
      BY <1>1, <1>2, <1>3, <1>4, <1>5 DEF Next

\* FundingInv holds throughout, for every channel_timeout and every height: every
\* bundle the handshake makes, sends, submits or includes is bound by the
\* deadlines of both parties, hostile or not.
THEOREM Invariance == Spec => []FundingInv
  <1>1. FundingInv /\ [Next]_vars => FundingInv'
      BY NextKeeps, StutterKeeps
  <1> QED
      BY <1>1, InitFunding, PTL DEF Spec

\* For every channel_timeout: once the funding can reach the chain, each party that
\* follows the protocol holds the peer's signatures and has finished the handshake
\* (OVERVIEW.md, signature symmetry).
THEOREM FundedHolds == Spec => []FundedIsRecoverable
  <1>1. FundingInv => FundedIsRecoverable
    <2> SUFFICES ASSUME FundingInv,
                        chain.pool # 0 \/ chain.made # 0 \/ (\E q \in Party : outbox[q] # 0),
                        NEW p \in Party, hostile # p
                 PROVE  hs[p].sigs /\ hs[p].st \in {"Finished", "Done"}
        BY DEF FundedIsRecoverable
    <2>1. \E b : Bound(b)
        BY DEF FundingInv, Funding
    <2>2. hs[p].st \in {"Finished", "Done"}
        BY <2>1, Parties DEF Bound, Past
    <2> QED
        BY <2>2, Parties DEF FundingInv, Signed
  <1> QED
      BY <1>1, Invariance, PTL

\* For every channel_timeout: a channel check_channel_creation_expiry has given up
\* is never created.
THEOREM ExpiredHolds == Spec => []ExpiredIsFinal
  <1>1. FundingInv => ExpiredIsFinal
      BY DEF FundingInv, Expiries, ExpiredIsFinal
  <1> QED
      BY <1>1, Invariance, PTL
=============================================================================
