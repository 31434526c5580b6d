----------------------------- MODULE Handshake -----------------------------
(***************************************************************************)
(* Opening a channel: HandshakeInitiatorPhase and HandshakeReceiverPhase   *)
(* (src/session_phases/handshake_*.rs), driven by their GameSessions, with *)
(* the wallets that are asked for the funding and the chain it lands on.   *)
(* The transport between the two is reliable and ordered.                  *)
(*                                                                         *)
(*   initiator                 receiver                                    *)
(*      A: keys, contributions -->                                         *)
(*                             <-- B: keys, contributions                  *)
(*      C: launcher coin -->                                               *)
(*                             <-- D: signatures of state 0                *)
(*      E: signatures, half of the funding -->                             *)
(*                             <-- F: the whole funding                    *)
(*                                                                         *)
(* A spend bundle stands for the height before which it has to be          *)
(* included, and 0 for no bundle.                                          *)
(***************************************************************************)
EXTENDS Naturals, Sequences

CONSTANTS
    ChannelTimeout,   \* channel_timeout
    MaxHeight,        \* bound on the height of the chain
    MaxPlay,          \* bound on the messages of a party once off chain
    MaxUpsets         \* bound on the failures of wallets, requests of users to stop
                      \* and messages a hostile party makes up

ASSUME HandshakeAssumption ==
    /\ ChannelTimeout \in Nat \ {0} /\ MaxHeight \in Nat \ {0}
    /\ MaxPlay \in Nat /\ MaxUpsets \in Nat

Party == {"initiator", "receiver"}

Peer(p) == IF p = "initiator" THEN "receiver" ELSE "initiator"

VARIABLES
    hs,       \* [Party -> the phase and what its session keeps], see States
    queue,    \* [Party -> incoming_messages]
    net,      \* [Party -> messages on the way to the party]
    wallet,   \* [Party -> what the wallet is asked for]
    outbox,   \* [Party -> the funding to be pushed]
    chain,    \* height, pool: the funding in the mempool, made: the height the
              \* channel coin was created at, or 0
    sent,     \* [Party -> off-chain messages sent]
    heard,    \* [Party -> off-chain messages taken up, in order]
    hostile,  \* the party that need not follow the protocol, or "nobody"
    upsets    \* upsets so far

vars == <<hs, queue, net, wallet, outbox, chain, sent, heard, hostile, upsets>>

\* InitiatorState and ReceiverState.  Done: the OffChainPhase has taken over.
States ==
    [initiator |-> {"WaitingForStart", "SentA", "WaitingForLauncher", "SentC",
                    "WaitingForOffer", "Finished", "Done"},
     receiver  |-> {"WaitingForA", "SentB", "SentD", "WaitingForCompletion",
                    "Finished", "Done"}]

Heights == 0..MaxHeight

Bundles == 0..(MaxHeight + ChannelTimeout)

\* Phases: st is the state, sigs: the peer's signatures of state 0 are stored,
\* theirs is the initiator's half as the receiver has it, own the
\* channel_initiation_transaction or channel_finished_transaction, opened is
\* ~waiting_to_start, gone the session's peer_disconnected, unrolling: the
\* OffChainPhase has gone on chain.
Phases(p) ==
    [st : States[p], sigs : BOOLEAN, height : Heights, pending : BOOLEAN,
     deadline : Bundles, theirs : Bundles, own : Bundles, opened : BOOLEAN,
     failed : BOOLEAN, gone : BOOLEAN, left : BOOLEAN, unrolling : BOOLEAN,
     expiry : Bundles, established : BOOLEAN, expired : BOOLEAN]

\* HandshakePhase::new
NewPhase(st) ==
    [st |-> st, sigs |-> FALSE, height |-> 0, pending |-> FALSE, deadline |-> 0,
     theirs |-> 0, own |-> 0, opened |-> FALSE, failed |-> FALSE, gone |-> FALSE,
     left |-> FALSE, unrolling |-> FALSE, expiry |-> 0, established |-> FALSE,
     expired |-> FALSE]

\* A message is its kind, whether what it carries verifies, its bundle, and
\* for an off-chain message its number.
Msg(k, ok, bundle, n) == [k |-> k, ok |-> ok, bundle |-> bundle, n |-> n]

Kinds == {"A", "B", "C", "D", "E", "F", "Play"}

Messages == [k : Kinds, ok : BOOLEAN, bundle : Bundles, n : 0..MaxPlay]

Init ==
    /\ hs = [p \in Party |-> NewPhase(IF p = "initiator" THEN "WaitingForStart"
                                     ELSE "WaitingForA")]
    /\ queue = [p \in Party |-> << >>]
    /\ net = [p \in Party |-> << >>]
    /\ wallet = [p \in Party |-> "none"]
    /\ outbox = [p \in Party |-> 0]
    /\ chain = [height |-> 1, pool |-> 0, made |-> 0]
    /\ sent = [p \in Party |-> 0]
    /\ heard = [p \in Party |-> << >>]
    /\ hostile \in Party \cup {"nobody"}
    /\ upsets = 0

-----------------------------------------------------------------------------
(***************************************************************************)
(* Parts of handlers.                                                      *)
(***************************************************************************)

\* channel_state is there.
HasChannel(s) ==
    s.st \in {"SentC", "WaitingForOffer", "SentD", "WaitingForCompletion",
              "Finished", "Done"}

\* send_message: nothing is sent to a peer that is gone.
Send(p, k, bundle) ==
    net' = IF hs[p].gone THEN net
           ELSE [net EXCEPT ![Peer(p)] = Append(@, Msg(k, TRUE, bundle, 0))]

\* compute_not_valid_after_height
NotValidAfter(s) == s.height + ChannelTimeout

\* NeedCoinSpend, or pending_coin_spend while no height is known.
RequestSpend(s) ==
    IF s.height > 0 THEN [s EXCEPT !.deadline = NotValidAfter(s)]
    ELSE [s EXCEPT !.pending = TRUE]

\* new_block of the phase: a request that waited for a height is made.
AtHeight(s, h) ==
    IF s.pending /\ s.st # "Done"
    THEN [s EXCEPT !.height = h, !.pending = FALSE, !.deadline = h + ChannelTimeout]
    ELSE [s EXCEPT !.height = h]

\* spend_transaction_and_add_fee
Spending(s) == [s EXCEPT !.expiry = IF s.deadline # 0 THEN s.deadline ELSE @]

\* go_on_chain: a handshake fails, an OffChainPhase unrolls.
GoOnChain(s) ==
    [s EXCEPT !.gone      = TRUE,
              !.failed    = @ \/ s.st # "Done",
              !.unrolling = @ \/ s.st = "Done"]

\* try_transition_to_potato and the end of process_effects: the off-chain
\* phase of a session whose peer is gone goes on chain at once.
Transition(s) ==
    IF s.opened /\ s.st = "Finished"
    THEN [s EXCEPT !.st = "Done", !.failed = FALSE, !.unrolling = s.gone]
    ELSE s

\* The host of a session that was abandoned, has failed or was told that the
\* funding expired: is_fully_resolved makes the drain terminal, stopProtocolWork
\* stops the poller, and results of later calls are thrown away.  What has been
\* handed to it for submission is submitted still.
Stopped(p) == hs[p].left \/ hs[p].failed \/ hs[p].expired

\* Nothing the peer sends is processed any more.
Deaf(p) == hs[p].gone \/ Stopped(p)

\* Where the off-chain phase pauses in a queue: it takes up the messages of
\* play until one has no effect, which is a late F, or is an error.
Pause(q) ==
    CHOOSE i \in 1..(Len(q) + 1) :
        /\ \A j \in 1..(i - 1) : q[j].k = "Play"
        /\ i <= Len(q) => q[i].k # "Play"

\* Mutant: the messages that waited are dropped.
TakeUpNothing(p, s, q) ==
    /\ heard' = heard
    /\ queue' = [queue EXCEPT ![p] = << >>]
    /\ hs' = [hs EXCEPT ![p] = s]

\* The off-chain phase of s takes up the messages q.
TakeUp(p, s, q) ==
    /\ heard' = [heard EXCEPT ![p] = @ \o SubSeq(q, 1, Pause(q) - 1)]
    /\ queue' = [queue EXCEPT ![p] = SubSeq(q, Pause(q) + 1, Len(q))]
    /\ hs' = [hs EXCEPT ![p] = IF Pause(q) <= Len(q) /\ q[Pause(q)].k # "F"
                               THEN GoOnChain(s) ELSE s]

\* The phase becomes s.  The messages that waited for it to be off chain are
\* taken up unless it goes on chain.
Become(p, s) ==
    IF s.st = "Done" /\ ~s.unrolling THEN TakeUp(p, s, queue[p])
    ELSE hs' = [hs EXCEPT ![p] = s] /\ UNCHANGED <<queue, heard>>

-----------------------------------------------------------------------------
(***************************************************************************)
(* Messages: deliver_message, received_message, process_queued_message.    *)
(* The message that arrives goes to the end of the queue and the one at    *)
(* the front is processed.                                                 *)
(***************************************************************************)

Listening(p) == net[p] # << >> /\ ~Deaf(p)

Arrived(p) == Append(queue[p], Head(net[p]))

Front(p) == Head(Arrived(p))

\* The front message is consumed.
Consume(p) == queue' = [queue EXCEPT ![p] = Tail(Arrived(p))]

Deliver(p) == net' = [net EXCEPT ![p] = Tail(@)]

\* The message is consumed, and k is sent in return.
Reply(p, k) ==
    /\ Consume(p)
    /\ net' = [q \in Party |-> IF q = p THEN Tail(net[p])
                               ELSE Append(net[q], Msg(k, TRUE, 0, 0))]

Expects(p, st, k) ==
    Listening(p) /\ hs[p].st = st /\ Front(p).k = k /\ Front(p).ok

\* start_handshake
Start ==
    /\ hs["initiator"].st = "WaitingForStart" /\ ~Stopped("initiator")
    /\ hs' = [hs EXCEPT !["initiator"].st = "SentA"]
    /\ Send("initiator", "A", 0)
    /\ UNCHANGED <<queue, wallet, outbox, chain, sent, heard, hostile, upsets>>

ReceiveA ==
    /\ Expects("receiver", "WaitingForA", "A")
    /\ hs' = [hs EXCEPT !["receiver"].st = "SentB"]
    /\ Reply("receiver", "B")
    /\ UNCHANGED <<wallet, outbox, chain, sent, heard, hostile, upsets>>

ReceiveB ==
    /\ Expects("initiator", "SentA", "B")
    /\ hs' = [hs EXCEPT !["initiator"].st = "WaitingForLauncher"]
    /\ wallet' = [wallet EXCEPT !["initiator"] = "launcher"]
    /\ Consume("initiator") /\ Deliver("initiator")
    /\ UNCHANGED <<outbox, chain, sent, heard, hostile, upsets>>

ReceiveC ==
    /\ Expects("receiver", "SentB", "C")
    /\ hs' = [hs EXCEPT !["receiver"].st = "SentD"]
    /\ Reply("receiver", "D")
    /\ UNCHANGED <<wallet, outbox, chain, sent, heard, hostile, upsets>>

\* Mutant: the signatures that came with the message are not stored.
StoreNothing(s) == RequestSpend(s)

\* verify_and_store_initial_peer_signatures, and the request that follows.
StoreSignatures(s) == RequestSpend([s EXCEPT !.sigs = TRUE])

\* The wallet is asked only once a height is known.
AskForSpend(p, s) ==
    wallet' = [wallet EXCEPT ![p] = IF s.pending THEN @ ELSE "spend"]

ReceiveD ==
    /\ Expects("initiator", "SentC", "D")
    /\ \E s \in {StoreSignatures(hs["initiator"])} :
          /\ hs' = [hs EXCEPT !["initiator"] = [s EXCEPT !.st = "WaitingForOffer"]]
          /\ AskForSpend("initiator", s)
    /\ Consume("initiator") /\ Deliver("initiator")
    /\ UNCHANGED <<outbox, chain, sent, heard, hostile, upsets>>

\* try_send_step_f has nothing to send yet: the wallet is asked here.
ReceiveE ==
    /\ Expects("receiver", "SentD", "E") /\ Front("receiver").bundle # 0
    /\ \E s \in {StoreSignatures(hs["receiver"])} :
          /\ hs' = [hs EXCEPT !["receiver"] =
                       [s EXCEPT !.st = "WaitingForCompletion",
                                 !.theirs = Front("receiver").bundle]]
          /\ AskForSpend("receiver", s)
    /\ Consume("receiver") /\ Deliver("receiver")
    /\ UNCHANGED <<outbox, chain, sent, heard, hostile, upsets>>

\* Both parties push the funding.  What a hostile receiver sends may be no
\* funding at all.
ReceiveF ==
    /\ Listening("initiator") /\ hs["initiator"].st = "Finished"
    /\ Front("initiator").k = "F"
    /\ hs' = [hs EXCEPT !["initiator"] = Spending(@)]
    /\ outbox' = [outbox EXCEPT !["initiator"] = Front("initiator").bundle]
    /\ Consume("initiator") /\ Deliver("initiator")
    /\ UNCHANGED <<wallet, chain, sent, heard, hostile, upsets>>

\* Mutant: a receiver that has finished does not wait.
WaitsUntilFinished(p) ==
    \/ hs[p].st \in {"WaitingForLauncher", "WaitingForOffer", "WaitingForCompletion"}
    \/ hs[p].st = "SentD" /\ Front(p).k # "E"
    \/ hs[p].st = "Finished" /\ p = "initiator" /\ Front(p).k # "F"

\* States that put the message back.
Waits(p) ==
    \/ hs[p].st \in {"WaitingForLauncher", "WaitingForOffer", "WaitingForCompletion"}
    \/ hs[p].st = "SentD" /\ Front(p).k # "E"
    \/ hs[p].st = "Finished" /\ (p = "receiver" \/ Front(p).k # "F")

ReceiveEarly(p) ==
    /\ Listening(p) /\ Waits(p)
    /\ queue' = [queue EXCEPT ![p] = Arrived(p)]
    /\ Deliver(p)
    /\ UNCHANGED <<hs, wallet, outbox, chain, sent, heard, hostile, upsets>>

\* The message a state that does not wait has to get.
Wanted(p) ==
    CASE hs[p].st = "WaitingForStart" -> "none"
      [] hs[p].st = "SentA"           -> "B"
      [] hs[p].st = "SentC"           -> "D"
      [] hs[p].st = "WaitingForA"     -> "A"
      [] hs[p].st = "SentB"           -> "C"
      [] hs[p].st = "SentD"           -> "E"
      [] OTHER                        -> "F"

\* A wrong message is an error of the peer.  Signatures that came with an
\* empty bundle have been stored by then, and the effects are lost.
ReceiveWrong(p) ==
    /\ Listening(p) /\ hs[p].st # "Done" /\ ~Waits(p)
    /\ \/ Front(p).k # Wanted(p)
       \/ ~Front(p).ok /\ Front(p).k # "F"
       \/ Front(p).k = "E" /\ Front(p).bundle = 0
    /\ hs' = [hs EXCEPT ![p] = GoOnChain(IF Front(p).k = "E" /\ Front(p).ok
                                              /\ hs[p].st = "SentD"
                                         THEN StoreSignatures(@) ELSE @)]
    /\ Consume(p) /\ Deliver(p)
    /\ UNCHANGED <<wallet, outbox, chain, sent, heard, hostile, upsets>>

\* Once off chain a late F is ignored and the rest of the handshake an error.
ReceiveOffChain(p) ==
    /\ Listening(p) /\ hs[p].st = "Done" /\ ~hs[p].unrolling
    /\ TakeUp(p, hs[p], IF Front(p).k = "F" THEN Tail(Arrived(p)) ELSE Arrived(p))
    /\ Deliver(p)
    /\ UNCHANGED <<wallet, outbox, chain, sent, hostile, upsets>>

\* deliver_message to a session that has cut its peer off, or of a stopped host.
Drop(p) ==
    /\ net[p] # << >> /\ Deaf(p)
    /\ Deliver(p)
    /\ UNCHANGED <<hs, queue, wallet, outbox, chain, sent, heard, hostile, upsets>>

-----------------------------------------------------------------------------
(***************************************************************************)
(* The wallet and the user.                                                *)
(***************************************************************************)

ProvideLauncherCoin ==
    /\ wallet["initiator"] = "launcher" /\ ~Stopped("initiator")
    /\ wallet' = [wallet EXCEPT !["initiator"] = "none"]
    /\ hs' = [hs EXCEPT !["initiator"].st = "SentC"]
    /\ Send("initiator", "C", 0)
    /\ UNCHANGED <<queue, outbox, chain, sent, heard, hostile, upsets>>

Answered(p) ==
    /\ wallet[p] = "spend" /\ ~Stopped(p)
    /\ wallet' = [wallet EXCEPT ![p] = "none"]

\* provide_coin_spend_bundle of the initiator: E goes out.
ProvideOffer ==
    /\ Answered("initiator") /\ hs["initiator"].st = "WaitingForOffer"
    /\ Become("initiator", Transition([hs["initiator"] EXCEPT
                               !.own = hs["initiator"].deadline, !.st = "Finished"]))
    /\ Send("initiator", "E", hs["initiator"].deadline)
    /\ UNCHANGED <<outbox, chain, sent, hostile, upsets>>

\* Mutant: the receiver's half sets no deadline of its own.
TheirsOnly(a, b) == a

\* The aggregate of two halves is in time while both are.
Earlier(a, b) == IF a < b THEN a ELSE b

\* provide_coin_spend_bundle of the receiver: F goes out and the funding is
\* submitted.
ProvideCompletion ==
    /\ Answered("receiver") /\ hs["receiver"].st = "WaitingForCompletion"
    /\ \E s \in {hs["receiver"]} :
       \E whole \in {Earlier(s.theirs, s.deadline)} :
          /\ Become("receiver", Spending(Transition([s EXCEPT !.own = whole,
                                                              !.st = "Finished"])))
          /\ outbox' = [outbox EXCEPT !["receiver"] = whole]
          /\ Send("receiver", "F", whole)
    /\ UNCHANGED <<chain, sent, hostile, upsets>>

Upset == upsets < MaxUpsets /\ upsets' = upsets + 1

\* wallet_callback_failed
WalletFails(p) ==
    /\ wallet[p] # "none" /\ ~Stopped(p)
    /\ Upset
    /\ wallet' = [wallet EXCEPT ![p] = "none"]
    /\ hs' = [hs EXCEPT ![p].failed = TRUE]
    /\ UNCHANGED <<queue, net, outbox, chain, sent, heard, hostile>>

\* go_on_chain
UserGoesOnChain(p) ==
    /\ ~Deaf(p)
    /\ Upset
    /\ hs' = [hs EXCEPT ![p] = GoOnChain(@)]
    /\ UNCHANGED <<queue, net, wallet, outbox, chain, sent, heard, hostile>>

\* abandon: what the transaction manager held is discarded.
Abandon(p) ==
    /\ ~hs[p].left
    /\ Upset
    /\ hs' = [hs EXCEPT ![p].left = TRUE, ![p].gone = TRUE]
    /\ outbox' = [outbox EXCEPT ![p] = 0]
    /\ UNCHANGED <<queue, net, wallet, chain, sent, heard, hostile>>

\* An off-chain phase sends.
Play(p) ==
    /\ hs[p].st = "Done" /\ ~Deaf(p)
    /\ sent[p] < MaxPlay
    /\ sent' = [sent EXCEPT ![p] = @ + 1]
    /\ net' = [net EXCEPT ![Peer(p)] = Append(@, Msg("Play", TRUE, 0, sent[p] + 1))]
    /\ UNCHANGED <<hs, queue, wallet, outbox, chain, heard, hostile, upsets>>

-----------------------------------------------------------------------------
(***************************************************************************)
(* Reports of the chain.  A party's node may lag.                          *)
(***************************************************************************)

\* Mutant: a request made before a height is known is forgotten.
AskAtHeightNothing(p) == wallet' = wallet

\* A request that waited for a height goes to the wallet.
AskAtHeight(p) ==
    wallet' = IF hs[p].pending /\ hs[p].st # "Done"
              THEN [wallet EXCEPT ![p] = "spend"] ELSE wallet

\* new_block_height_only
NewHeight(p, h) ==
    /\ ~Stopped(p) /\ h > hs[p].height
    /\ hs' = [hs EXCEPT ![p] = AtHeight(@, h)]
    /\ AskAtHeight(p)
    /\ UNCHANGED <<queue, net, outbox, chain, sent, heard, hostile, upsets>>

\* Mutant: the funding is given up while the next block may hold it.
CheckExpiryEarly(s, h, created) ==
    IF s.expired \/ s.established THEN s
    ELSE IF created THEN [s EXCEPT !.established = TRUE]
    ELSE IF s.expiry # 0 /\ h + 1 >= s.expiry
    THEN [s EXCEPT !.expired = TRUE]
    ELSE s

\* Mutant: the deadline is looked at only while the handshake is under way.
CheckExpiryWhileShaking(s, h, created) ==
    IF s.expired \/ s.established \/ s.st = "Finished" THEN s
    ELSE IF created THEN [s EXCEPT !.established = TRUE]
    ELSE IF s.expiry # 0 /\ h >= s.expiry
    THEN [s EXCEPT !.expired = TRUE]
    ELSE s

\* check_channel_creation_expiry
CheckExpiry(s, h, created) ==
    IF s.expired \/ s.established THEN s
    ELSE IF created THEN [s EXCEPT !.established = TRUE]
    ELSE IF s.expiry # 0 /\ h >= s.expiry
    THEN [s EXCEPT !.expired = TRUE]
    ELSE s

\* coin_created
CoinCreated(s) == IF HasChannel(s) THEN Transition([s EXCEPT !.opened = TRUE]) ELSE s

\* new_block with the coins as they are now, which is no earlier than h.  The
\* coin is reported when it is first seen.
NewBlock(p, h) ==
    /\ ~Stopped(p) /\ HasChannel(hs[p]) /\ h >= hs[p].height
    /\ \E created \in {chain.made # 0 /\ ~hs[p].opened} :
          IF created
          THEN Become(p, CheckExpiry(AtHeight(CoinCreated(hs[p]), h), h, TRUE))
          ELSE /\ hs' = [hs EXCEPT ![p] = CheckExpiry(AtHeight(hs[p], h), h, FALSE)]
               /\ UNCHANGED <<queue, heard>>
    /\ AskAtHeight(p)
    /\ UNCHANGED <<net, outbox, chain, sent, hostile, upsets>>

-----------------------------------------------------------------------------
(***************************************************************************)
(* The network (external).                                                 *)
(***************************************************************************)

\* ASSERT_BEFORE_HEIGHT_ABSOLUTE, against the block before.
Includable(bundle) == chain.height < bundle

Push(p) ==
    /\ outbox[p] # 0
    /\ outbox' = [outbox EXCEPT ![p] = 0]
    /\ chain' = IF Includable(outbox[p]) /\ chain.made = 0
                THEN [chain EXCEPT !.pool = outbox[p]] ELSE chain
    /\ UNCHANGED <<hs, queue, net, wallet, sent, heard, hostile, upsets>>

\* A block, with or without the funding.
Farm ==
    /\ chain.height < MaxHeight
    /\ \E take \in BOOLEAN :
          /\ take => chain.pool # 0
          /\ chain' = [height |-> chain.height + 1,
                       made   |-> IF take THEN chain.height + 1 ELSE chain.made,
                       pool   |-> IF take \/ chain.height + 1 >= chain.pool THEN 0
                                  ELSE chain.pool]
    /\ UNCHANGED <<hs, queue, net, wallet, outbox, sent, heard, hostile, upsets>>

\* A hostile party makes a message up, or keeps the funding to itself.
MakeUp(p) ==
    /\ hostile = p
    /\ Upset
    /\ \E k \in Kinds \ {"Play"}, ok \in BOOLEAN :
          net' = [net EXCEPT ![Peer(p)] = Append(@, Msg(k, ok, 0, 0))]
    /\ UNCHANGED <<hs, queue, wallet, outbox, chain, sent, heard, hostile>>

FundSilently ==
    /\ hostile = "receiver" /\ hs["receiver"].st = "WaitingForCompletion"
    /\ Answered("receiver")
    /\ outbox' = [outbox EXCEPT !["receiver"] =
                     Earlier(hs["receiver"].theirs, hs["receiver"].deadline)]
    /\ UNCHANGED <<hs, queue, net, chain, sent, heard, hostile, upsets>>

Next ==
    \/ Start \/ ReceiveA \/ ReceiveB \/ ReceiveC \/ ReceiveD \/ ReceiveE \/ ReceiveF
    \/ ProvideLauncherCoin \/ ProvideOffer \/ ProvideCompletion
    \/ \E p \in Party :
          \/ ReceiveEarly(p) \/ ReceiveWrong(p) \/ ReceiveOffChain(p) \/ Drop(p)
          \/ WalletFails(p) \/ UserGoesOnChain(p) \/ Abandon(p) \/ Play(p)
          \/ Push(p) \/ MakeUp(p)
          \/ \E h \in 1..chain.height : NewHeight(p, h) \/ NewBlock(p, h)
    \/ Farm \/ FundSilently

Spec == Init /\ [][Next]_vars

Receive(p) ==
    \/ p = "receiver"  /\ (ReceiveA \/ ReceiveC \/ ReceiveE)
    \/ p = "initiator" /\ (ReceiveB \/ ReceiveD \/ ReceiveF)
    \/ ReceiveEarly(p) \/ ReceiveWrong(p) \/ ReceiveOffChain(p) \/ Drop(p)

Provide(p) ==
    \/ p = "initiator" /\ (ProvideLauncherCoin \/ ProvideOffer)
    \/ p = "receiver"  /\ ProvideCompletion

\* The transport delivers, wallets answer, the poller reports the peak, and
\* blocks keep coming.  A hostile party owes nothing.  Every one of these steps
\* uses something up, so fairness of them together is fairness of each.
Progress ==
    \/ Start \/ Farm
    \/ \E p \in Party :
          \/ hostile # p /\ (Receive(p) \/ Provide(p))
          \/ hostile # p /\ NewBlock(p, chain.height) /\ hs'[p] # hs[p]
          \/ NewHeight(p, chain.height) \/ Push(p)

Fairness == WF_vars(Progress)

FairSpec == Spec /\ Fairness

-----------------------------------------------------------------------------
\* The fields hold what the code's fields can hold.
TypeOK ==
    /\ \A p \in Party : hs[p] \in Phases(p)
    /\ queue \in [Party -> Seq(Messages)] /\ net \in [Party -> Seq(Messages)]
    /\ wallet \in [Party -> {"none", "launcher", "spend"}]
    /\ outbox \in [Party -> Bundles]
    /\ chain \in [height : Heights, pool : Bundles, made : Heights]
    /\ sent \in [Party -> 0..MaxPlay] /\ heard \in [Party -> Seq(Messages)]
    /\ hostile \in Party \cup {"nobody"} /\ upsets \in 0..MaxUpsets

\* OVERVIEW.md, signature symmetry: once the funding can reach the chain, each
\* party that follows the protocol holds what it takes to close the channel
\* alone, and is ready to go on when the coin appears.
FundedIsRecoverable ==
    chain.pool # 0 \/ chain.made # 0 \/ (\E q \in Party : outbox[q] # 0) =>
        \A p \in Party : hostile # p =>
            hs[p].sigs /\ hs[p].st \in {"Finished", "Done"}

\* A channel reported as not confirmed in time is never created, though the
\* parties set different deadlines and see the chain at different heights.
ExpiredIsFinal == \A p \in Party : hs[p].expired => chain.made = 0

\* What a party has heard, keeps for later and is about to receive.
Coming(p) == heard[p] \o queue[p] \o net[p]

\* What the peer sends as soon as it sees the coin is taken up in order by a
\* party that sees it later: a party has heard or will hear every message of
\* play once, in order, after what is left of the handshake.
PlayKept ==
    \A p \in Party : ~Deaf(p) /\ hostile = "nobody" =>
        \E rest \in 0..Len(Coming(p)) :
            /\ Len(Coming(p)) = rest + sent[Peer(p)]
            /\ \A i \in 1..Len(Coming(p)) :
                   IF i <= rest THEN Coming(p)[i].k # "Play"
                   ELSE Coming(p)[i].k = "Play" /\ Coming(p)[i].n = i - rest

\* Between honest parties no message is taken for an error.
NoFalseError ==
    [][\A p \in Party : ReceiveWrong(p) => hostile # "nobody"]_vars

\* A party that has submitted the funding comes to see the channel open or is
\* told that it will not, unless it has left or given the handshake up.
FundingSettles ==
    \A p \in Party :
        hs[p].expiry \in 1..MaxHeight /\ hostile # p ~>
            hs[p].st = "Done" \/ Stopped(p)

\* INTERNALS.md, peer error escalation: when the coin appears after all, a
\* party that had given its peer up disputes it.  It does not: its host has
\* stopped.
GivenUpIsDisputed ==
    \A p \in Party :
        chain.made # 0 /\ hs[p].gone /\ hostile # p ~> hs[p].unrolling \/ hs[p].left

\* Two honest parties open the channel unless one of them stops, a wallet
\* fails or the funding is too late.
HonestOpen ==
    hostile = "nobody" =>
        <>(\/ \A p \in Party : hs[p].st = "Done"
           \/ \E p \in Party : \/ hs[p].failed \/ hs[p].gone \/ hs[p].expired
                                \/ hs[p].deadline > MaxHeight)
=============================================================================
