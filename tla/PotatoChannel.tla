---------------------------- MODULE PotatoChannel ----------------------------
(***************************************************************************)
(* Two sessions of one channel, from the end of the handshake to the       *)
(* observed spend of the channel coin: the hosts' API calls, the ordered   *)
(* message stream the relay keeps in each direction, and the chain, which  *)
(* confirms one spend of the channel coin.                                 *)
(***************************************************************************)
EXTENDS OffChainPhase, FiniteSets

CONSTANTS
    Calls,     \* the API calls the hosts make in this instance
    MaxCalls,  \* [Party -> Nat]: how many calls each host makes
    Moves,     \* the moves a game handler can produce
    Eager      \* the hosts that act on a game before it is their turn

ASSUME MaxCallsAssumption == MaxCalls \in [Party -> Nat]

ASSUME MovesAssumption ==
    Moves \subseteq [give : BOOLEAN, final : BOOLEAN, legal : BOOLEAN,
                     rejected : BOOLEAN, note : BOOLEAN]

VARIABLES
    peer,       \* [Party -> session record]
    wire,       \* [Party -> Seq(message)]: the stream towards that party
    published,  \* [Party -> set of spends it handed to the chain]
    chain,      \* the confirmed spend of the channel coin, or NoSpend
    calls       \* [Party -> Nat]: API calls made so far

vars == <<peer, wire, published, chain, calls>>

Init ==
    /\ peer = [p \in Party |-> FromCompletedHandshake(p)]
    /\ wire = [p \in Party |-> << >>]
    /\ published = [p \in Party |-> {}]
    /\ chain = NoSpend
    /\ calls = [p \in Party |-> 0]

\* A session step of p: its messages and transactions leave with it.
Step(p, s) ==
    /\ peer' = [peer EXCEPT ![p] = Collected(s)]
    /\ published' = [published EXCEPT ![p] = @ \cup s.tx]

Emit(p, s) == wire' = [wire EXCEPT ![Other(p)] = @ \o Outgoing(s)]

StepAndEmit(p, s) == Step(p, s) /\ Emit(p, s)

(***************************************************************************)
(* API calls, each followed by flush_and_collect (with_game_drain).        *)
(***************************************************************************)
Call(p, kind, s) ==
    /\ kind \in Calls
    /\ calls[p] < MaxCalls[p]
    /\ calls' = [calls EXCEPT ![p] = @ + 1]
    /\ Step(p, s)
    /\ Emit(p, s)
    /\ UNCHANGED chain

OffChain(p) == peer[p].phase = "OffChain"

Propose(p) == \E t \in GameTypesOf[p] :
    OffChain(p) /\ Call(p, "Propose", Flush(ProposeGames(peer[p], t)))

\* The front end answers a proposal once and acts on a game on its turn, once;
\* the API takes these calls at any time.
Unqueued(p, id) ==
    \A i \in DOMAIN peer[p].queue :
        peer[p].queue[i].k \notin {"ProposeGroup", "CleanShutdown"} =>
            peer[p].queue[i].id # id

\* Once the user has asked to close the channel no proposal is offered any more.
Closing(p) == \E i \in DOMAIN peer[p].queue : peer[p].queue[i].k = "CleanShutdown"

Answerable(p) ==
    {id \in Ids(peer[p].ch.proposed) :
        p \in Eager \/ (Unqueued(p, id) /\ ~Closing(p))}

Playable(p, ids) ==
    {id \in ids : p \in Eager \/ (GameIsMyTurn(peer[p].ch, id) /\ Unqueued(p, id))}

\* The host accepts what the peer proposed and cancels what either did.
PeerProposals(p) ==
    {id \in Answerable(p) : ~IsOurNonceParity(peer[p].ch, id)}

Accept(p) == \E id \in PeerProposals(p) :
    OffChain(p) /\ Call(p, "Accept", Flush(AcceptProposal(peer[p], id)))

\* accept_proposal_and_move: both are queued before the flush.
AcceptAndMove(p) == \E id \in Playable(p, PeerProposals(p)), mv \in Moves :
    /\ OffChain(p)
    /\ Call(p, "AcceptAndMove",
            Flush(MakeMove(AcceptProposal(peer[p], id), id, mv)))

Cancel(p) == \E id \in Answerable(p) :
    OffChain(p) /\ Call(p, "Cancel", Flush(CancelProposal(peer[p], id)))

Move(p) == \E id \in Playable(p, Ids(peer[p].ch.live)), mv \in Moves :
    OffChain(p) /\ Call(p, "Move", Flush(MakeMove(peer[p], id, mv)))

AcceptSettle(p) == \E id \in Playable(p, Ids(peer[p].ch.live)) :
    OffChain(p) /\ Call(p, "Settle", Flush(AcceptSettlement(peer[p], id)))

\* The front end offers to close the channel between hands.
Shut(p) ==
    /\ OffChain(p)
    /\ p \in Eager \/ (~HasActiveGames(peer[p].ch) /\ peer[p].queue = << >>)
    /\ Call(p, "ShutDown", Flush(ShutDown(peer[p])))

\* The user, or a host that lost its peer, calls go_on_chain.
UserGoOnChain(p) ==
    /\ peer[p].phase \in {"OffChain", "CleanShutdown", "ChannelSpend"}
    /\ Call(p, "GoOnChain", GoOnChain(peer[p]))

\* GameSession::abandon, refused while a terminal handoff is pending.
Abandon(p) ==
    /\ peer[p].phase \notin {"AwaitTerminal", "Abandoned"}
    /\ Call(p, "Abandon", [peer[p] EXCEPT !.phase = "Abandoned"])

-----------------------------------------------------------------------------

Consume(p, s) ==
    /\ Step(p, s)
    /\ wire' = [wire EXCEPT ![p] = Tail(@), ![Other(p)] = @ \o Outgoing(s)]

\* The relay hands over the oldest message of the stream.
Deliver(p) ==
    /\ wire[p] # << >>
    /\ Consume(p, DeliverMessage(peer[p], Head(wire[p])))
    /\ UNCHANGED <<chain, calls>>

CanPoll(p) == OffChain(p) /\ peer[p].have_potato = "Present" /\ peer[p].queue # << >>

\* Every report the host makes, a block without news included, flushes.
Poll(p) ==
    /\ CanPoll(p)
    /\ StepAndEmit(p, Flush(peer[p]))
    /\ UNCHANGED <<chain, calls>>

\* Mutant: the session ends without handing the shutdown over.
CompleteHandoffSilently(p) ==
    /\ peer[p].phase = "AwaitTerminal"
    /\ Step(p, [peer[p] EXCEPT !.phase = "Abandoned"])
    /\ UNCHANGED <<wire, chain, calls>>

\* The host has stored the close command for the peer:
\* complete_outbound_terminal_handoff.
CompleteHandoff(p) ==
    /\ peer[p].phase = "AwaitTerminal"
    /\ StepAndEmit(p, Send([peer[p] EXCEPT !.phase = "Abandoned"],
                           [k |-> "CleanShutdownComplete",
                            clean |-> peer[p].expected]))
    /\ UNCHANGED <<chain, calls>>

\* The chain confirms one of the spends of the channel coin.
Mine ==
    /\ chain = NoSpend
    /\ chain' \in published["alice"] \cup published["bob"]
    /\ UNCHANGED <<peer, wire, published, calls>>

Watching == {"OffChain", "ChannelSpend", "CleanShutdown"}

CanObserve(p) == chain # NoSpend /\ peer[p].phase \in Watching

\* new_block reports the spend and report_puzzle_and_solution its solution.
Observe(p) ==
    /\ CanObserve(p)
    /\ StepAndEmit(p, ChannelSpent(peer[p], chain))
    /\ UNCHANGED <<chain, calls>>

Next ==
    \/ \E p \in Party :
          \/ Propose(p) \/ Accept(p) \/ AcceptAndMove(p) \/ Cancel(p)
          \/ Move(p) \/ AcceptSettle(p) \/ Shut(p)
          \/ UserGoOnChain(p) \/ Abandon(p)
          \/ Deliver(p) \/ Poll(p) \/ CompleteHandoff(p) \/ Observe(p)
    \/ Mine

Spec == Init /\ [][Next]_vars

\* The relay keeps delivering, the hosts keep storing, polling and watching,
\* and the chain keeps confirming; nothing is assumed of the players.  Each
\* conjunct is the weak fairness of one action, with the action's guard
\* written out in place of ENABLED.
Fairness ==
    /\ \A p \in Party :
          /\ []<>(wire[p] = << >>) \/ []<><<Deliver(p)>>_vars
          /\ []<>~(CanPoll(p) /\ Flush(peer[p]) # peer[p])
                \/ []<><<Poll(p)>>_vars
          /\ []<>(peer[p].phase # "AwaitTerminal") \/ []<><<CompleteHandoff(p)>>_vars
          /\ []<>~CanObserve(p) \/ []<><<Observe(p)>>_vars
    /\ []<>(chain # NoSpend \/ \A p \in Party : published[p] = {})
          \/ []<><<Mine>>_vars

FairSpec == Spec /\ Fairness

-----------------------------------------------------------------------------
Phases == {"OffChain", "ChannelSpend", "CleanShutdown", "AwaitTerminal",
           "Unrolling", "Completed", "Failed", "Abandoned"}

\* Every field of every session is of its Rust type; in particular no balance
\* or share of a live game goes below zero (Amount is unsigned).
TypeOK ==
    /\ \A p \in Party :
          LET s == peer[p] IN
          /\ s.phase \in Phases
          /\ s.have_potato \in {"Absent", "Requested", "Present"}
          /\ s.ch.sn \in Nat /\ s.ch.have_potato \in BOOLEAN
          /\ s.ch.bal \in [Party -> Nat] /\ s.ch.alloc \in [Party -> Nat]
          /\ \A i \in DOMAIN s.ch.live : Shares(s.ch.live[i]) \in [Party -> Nat]
          /\ s.out = << >> /\ s.tx = {} /\ ~s.err /\ ~s.blame
    /\ calls \in [Party -> Nat]
    /\ chain = NoSpend \/ chain \in published["alice"] \cup published["bob"]

BatchesTo(p) == {i \in DOMAIN wire[p] : wire[p][i].k = "Batch"}

InFlight == Cardinality(BatchesTo("alice")) + Cardinality(BatchesTo("bob"))

BothOffChain == \A p \in Party : OffChain(p)

\* Nothing on the wire can still change a ledger.
Quiet == BothOffChain /\ InFlight = 0

\* While both play off chain there is one potato: one player holds it or one
\* batch carries it.  With a game live, the phase's flag and the channel
\* state's own flag, which send_accept_settlement_no_finalize asserts, agree
\* (they start out different for both players).
PotatoUnique ==
    BothOffChain =>
        /\ Cardinality({p \in Party : peer[p].have_potato = "Present"}) + InFlight = 1
        /\ \A p \in Party :
              HasActiveGames(peer[p].ch) =>
                  (peer[p].have_potato = "Present" <=> peer[p].ch.have_potato)

\* Whoever has the potato has the newest state: the players' state numbers
\* are equal when no batch is in flight, and the sender of the one in flight
\* is exactly one ahead.
StateNumbersInStep ==
    BothOffChain =>
        \A p \in Party :
            peer[Other(p)].ch.sn =
                peer[p].ch.sn + Cardinality(BatchesTo(p)) - Cardinality(BatchesTo(Other(p)))

\* What the exchange of batches rests on.
ExchangeInv == TypeOK /\ PotatoUnique /\ StateNumbersInStep

\* The proposals that p made, as q has them.
MadeBy(p, q) == {g \in ToSet(peer[q].ch.proposed) : IsOurNonceParity(peer[p].ch, g.id)}

\* With no batch in flight both players have the same balances and games.  A
\* failed local flush leaves its own effects in the ledger (torn).
QuietAndWhole == Quiet /\ \A p \in Party : ~peer[p].torn

BalancesMirror ==
    QuietAndWhole =>
        /\ peer["alice"].ch.bal = peer["bob"].ch.bal
        /\ peer["alice"].ch.live = peer["bob"].ch.live
        /\ peer["alice"].ch.alloc = peer["bob"].ch.alloc

\* The ledgers mirror each other, and a player has open what the other
\* proposed, but for types it does not know.
LedgersMirror ==
    /\ BalancesMirror
    /\ QuietAndWhole =>
          \A p \in Party :
              /\ MadeBy(p, Other(p)) \subseteq MadeBy(p, p)
              /\ GameTypesOf[p] \subseteq GameTypesOf[Other(p)] =>
                    MadeBy(p, p) = MadeBy(p, Other(p))

Pool(f) == f["alice"] + f["bob"]

\* No operation, a failed one included, makes or loses money: what is
\* allocated is what the live games hold, and with the out-of-game balances
\* it is what the two players deposited.
FundsConserved ==
    \A p \in Party :
        LET ch == peer[p].ch IN
        /\ ch.alloc = Total(ch.live)
        /\ Pool(ch.bal) + Pool(ch.alloc) = Pool(Deposit)

\* No two different states carry one number: every state number that both
\* players have on record stands for the same balances and games, so each
\* recognises, on chain, every state the other can publish.
KnownStatesAgree ==
    \A c \in peer["alice"].ch.known, d \in peer["bob"].ch.known :
        c.sn = d.sn => c = d

\* A player is told of one settlement per game, and the two amounts the two
\* players are told add up to the pot.
SettlementsAgree ==
    /\ \A p \in Party : \A e, f \in peer[p].settled : e.id = f.id => e = f
    /\ \A e \in peer["alice"].settled, f \in peer["bob"].settled :
          e.id = f.id => e.amt + f.amt = e.pot /\ e.pot = f.pot

\* An advisory message about a game reaches a player who has that game, if
\* it is still playing off chain when the message is the next to be read.
AdvisoryFindsGame ==
    \A p \in Party :
        OffChain(p) /\ wire[p] # << >> /\ Head(wire[p]).k = "Message" =>
            Head(wire[p]).id \in Ids(peer[p].ch.live)

\* No player accuses the other of a protocol violation: the potato leaves no
\* room for a race, so an honest peer's batch is always accepted.
NoAccusation == \A p \in Party : ~peer[p].accused

\* Rule A, at most once: no proposal is resolved twice for one player.
ResolvedAtMostOnce == \A p \in Party : ~peer[p].dup

QueuedIds(p) ==
    UNION {ToSet(peer[p].queue[i].ids) : i \in
              {j \in DOMAIN peer[p].queue : peer[p].queue[j].k = "ProposeGroup"}}

OwnIds(p) == {id \in 0 .. (peer[p].ch.my_nonce - 1) :
                 IsOurNonceParity(peer[p].ch, id)}

\* Rule A while playing: a game id that propose_games handed out is queued,
\* open at the peer, or resolved for the player; it never just vanishes.
NoProposalVanishes ==
    \A p \in Party : OffChain(p) =>
        OwnIds(p) \subseteq
            peer[p].told \cup Ids(peer[p].ch.proposed) \cup QueuedIds(p)

\* A confirmed clean shutdown resolves both players' sessions cleanly.
CleanResolvesClean ==
    \A p \in Party : peer[p].phase = "Failed" => chain.k # "Clean"

\* Every unroll that can be published is on record ("every unroll puzzle hash
\* we've sent or received"), so none is reported as a failure.
UnrollsRecognised ==
    \A p \in Party : peer[p].phase = "Failed" => chain.k # "Unroll"

UrgentAction(p) ==
    OffChain(p) /\ \E i \in DOMAIN peer[p].queue :
                       peer[p].queue[i].k \notin {"Move", "Cheat"}

\* A queued action that does not wait for its turn has a potato coming: the
\* player holds it or has asked for it.
QueueHasPotatoComing ==
    \A p \in Party : UrgentAction(p) => peer[p].have_potato # "Absent"

\* Nothing is left stranded between two polite hosts: not a queued action, not
\* a proposal, not an advisory message.
NothingStranded == QueueHasPotatoComing /\ NoProposalVanishes /\ AdvisoryFindsGame

-----------------------------------------------------------------------------
\* A requested potato comes, or the session leaves the off-chain phase.
RequestAnswered ==
    \A p \in Party :
        (OffChain(p) /\ peer[p].have_potato = "Requested")
            ~> ~(OffChain(p) /\ peer[p].have_potato = "Requested")

\* A queued action other than a move that waits for its turn goes out, or
\* fails, or the session leaves the off-chain phase.
ActionsLeaveQueue == \A p \in Party : UrgentAction(p) ~> ~UrgentAction(p)

\* A player who sent its clean shutdown, or left the off-chain phase any other
\* way, reaches the end of its session.
Ended == {"Completed", "Abandoned", "Unrolling", "Failed"}

LeavingEnds ==
    \A p \in Party :
        (peer[p].expected # NoSpend \/ ~OffChain(p)) ~> peer[p].phase \in Ended
=============================================================================
