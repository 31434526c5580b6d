---------------------------- MODULE OffChainPhase ----------------------------
(***************************************************************************)
(* One player's off-chain phase: struct OffChainPhase of                   *)
(* src/session_phases/mod.rs with the parts of GameSession                 *)
(* (src/game_session.rs) that drive it.  A session record holds            *)
(*                                                                         *)
(*   ch           the ChannelState                                         *)
(*   queue        game_action_queue                                        *)
(*   have_potato  "Absent", "Requested" or "Present"                       *)
(*   peer_wants   peer_wants_potato                                        *)
(*   spend        last_channel_coin_spend_info: the state whose channel    *)
(*                spend this player can publish                            *)
(*   expected     pending_clean_shutdown, and in the spend phase           *)
(*                expected_clean_shutdown_solution                         *)
(*   phase        the PeerLifecyclePhase, or how the session ended         *)
(*                                                                         *)
(* what one step produces (out, tx, err, blame) and what the player has    *)
(* been told so far (told, settled, dup, torn).                            *)
(***************************************************************************)
EXTENDS ChannelState

CONSTANT GameTypesOf   \* [Party -> SUBSET GameTypes]: the game_types map

ASSUME GameTypesOfAssumption == GameTypesOf \in [Party -> SUBSET GameTypes]

NoSpend == [k |-> "None"]

Unroll(c) == [k |-> "Unroll", c |-> c]

CleanSpend(bal) == [k |-> "Clean", bal |-> bal]

\* from_completed_handshake: the initiator holds the potato, and both have
\* the peer's signatures on state 0.
FromCompletedHandshake(p) ==
    LET ch == NewChannelState(p) IN
    [ch          |-> ch,
     queue       |-> << >>,
     have_potato |-> IF p = "alice" THEN "Present" ELSE "Absent",
     peer_wants  |-> FALSE,
     spend       |-> Unroll(ch.received),
     expected    |-> NoSpend,
     phase       |-> "OffChain",
     out         |-> << >>,
     tx          |-> {},
     err         |-> FALSE,
     blame       |-> FALSE,
     told        |-> {},
     settled     |-> {},
     dup         |-> FALSE,
     torn        |-> FALSE,
     accused     |-> FALSE]

\* The step's products are handed to the host at the end of every call.
Collected(s) == [s EXCEPT !.out = << >>, !.tx = {}, !.err = FALSE, !.blame = FALSE]

Send(s, m) == [s EXCEPT !.out = Append(@, m)]

Fail(s, blame) == [s EXCEPT !.err = TRUE, !.blame = blame]

\* ProposalAccepted and ProposalCancelled resolve a proposal for the player.
Tell(s, ids) ==
    [s EXCEPT !.dup = @ \/ ids \cap s.told # {}, !.told = @ \cup ids]

\* GameSettled: our amount of the pot.
TellSettled(s, id, amt, pot) ==
    [s EXCEPT !.dup = @ \/ \E e \in s.settled : e.id = id,
              !.settled = @ \cup {[id |-> id, amt |-> amt, pot |-> pot]}]

\* The GameSettled notifications for drain_cached_accept_settlements.
SettleCached(s) ==
    LET cached == CachedSettlements(s.ch)
        again == \/ \E e \in cached, f \in s.settled : e.id = f.id
                 \/ \E i, j \in DOMAIN s.ch.redo :
                       /\ i # j /\ {s.ch.redo[i], s.ch.redo[j]} \subseteq cached
                       /\ s.ch.redo[i].id = s.ch.redo[j].id
    IN  [s EXCEPT !.ch = DrainCachedSettlements(@), !.dup = @ \/ again,
                  !.settled = @ \cup {[id |-> e.id, amt |-> e.amt, pot |-> e.pot] :
                                         e \in cached}]

\* The messages of a step, in the order the code pushed their effects.
Outgoing(s) == s.out

QueueWithout(s, kind) ==
    [s EXCEPT !.queue = Among(@, {a \in ToSet(@) : a.k # kind})]

-----------------------------------------------------------------------------
(***************************************************************************)
(* Sending: drain_queue_into_batch.  d is the session with the batch       *)
(* being built: its actions, the deferred local actions, the actions not   *)
(* yet popped when an error stopped the loop, and the shutdown.            *)
(***************************************************************************)

Push(d, ch, action) == [d EXCEPT !.ch = ch, !.batch = Append(@, action)]

DrainMove(d, a) ==
    IF ~GameIsMyTurn(d.ch, a.id) THEN [d EXCEPT !.deferred = Append(@, a)]
    ELSE IF ~CanMove(d.ch, a.id) THEN Fail(d, a.k = "Move")
    ELSE IF a.mv.rejected THEN d
    ELSE Push(d, SendMove(d.ch, a.id, a.mv),
              [k |-> "Move", id |-> a.id, mv |-> a.mv])

DrainAcceptSettlement(d, a) ==
    IF CanSettle(d.ch, a.id)
    THEN Push(d, SendAcceptSettlement(d.ch, a.id),
              [k |-> "AcceptSettlement", id |-> a.id])
    ELSE Fail(d, TRUE)

Members(t, ids, sender) ==
    [i \in DOMAIN ids |-> GameStart(t, i, ids[i], ids[1], sender)]

DrainProposeGroup(d, a) ==
    Push(d, SendProposeGames(d.ch, Members(a.t, a.ids, d.ch.me)),
         [k |-> "ProposeGroup", t |-> a.t, ids |-> a.ids])

\* An accept that no longer fits the balances goes out as a cancel.
DrainAcceptProposal(d, a) ==
    IF ~IsProposed(d.ch, a.id) \/ IsOurNonceParity(d.ch, a.id)
    THEN Fail(d, FALSE)
    ELSE IF CanAccept(d.ch, a.id)
    THEN Push(Tell(d, {a.id}), SendAcceptProposal(d.ch, a.id),
              [k |-> "AcceptProposal", id |-> a.id])
    ELSE Push(Tell(d, {a.id}), RemoveProposal(d.ch, a.id),
              [k |-> "CancelProposal", id |-> a.id])

\* Mutant: the proposal is removed here and the peer not told.
DrainCancelProposalLocally(d, a) ==
    IF ~IsProposed(d.ch, a.id) THEN Fail(d, FALSE)
    ELSE [Tell(d, {a.id}) EXCEPT !.ch = RemoveProposal(@, a.id)]

\* A cancel the player asked for is announced; one that follows from an
\* insufficient balance (QueuedCancelProposalSilently) is not.
DrainCancelProposal(d, a) ==
    IF ~IsProposed(d.ch, a.id) THEN Fail(d, FALSE)
    ELSE Push(IF a.silent THEN d ELSE Tell(d, {a.id}),
              RemoveProposal(d.ch, a.id),
              [k |-> "CancelProposal", id |-> a.id])

DrainCleanShutdown(d) ==
    IF HasActiveGames(d.ch) THEN Fail(d, FALSE)
    ELSE [Tell(d, Ids(d.ch.proposed)) EXCEPT
              !.ch = CancelAllProposals(@), !.clean = CleanSpend(d.ch.bal)]

DrainStep(d, a) ==
    IF d.err THEN [d EXCEPT !.rest = Append(@, a)]
    ELSE CASE a.k \in {"Move", "Cheat"}    -> DrainMove(d, a)
           [] a.k = "AcceptSettlement"     -> DrainAcceptSettlement(d, a)
           [] a.k = "ProposeGroup"         -> DrainProposeGroup(d, a)
           [] a.k = "AcceptProposal"       -> DrainAcceptProposal(d, a)
           [] a.k = "CancelProposal"       -> DrainCancelProposal(d, a)
           [] a.k = "CleanShutdown"        -> DrainCleanShutdown(d)

\* Mutant: the sender of a batch keeps the potato.
SendBatchKeepingPotato(s, actions, clean) ==
    LET ch == UpdateCachedUnrollState(s.ch) IN
    Send([s EXCEPT !.ch = ch],
         [k |-> "Batch", actions |-> actions, sig |-> ch.sent, clean |-> clean])

\* Package a batch: number and sign the new state and give the potato away.
SendBatch(s, actions, clean) ==
    LET ch == UpdateCachedUnrollState(s.ch) IN
    Send([s EXCEPT !.ch = ch, !.have_potato = "Absent"],
         [k |-> "Batch", actions |-> actions, sig |-> ch.sent, clean |-> clean])

SendEmptyPotato(s) == SendBatch(s, << >>, NoSpend)

\* What is left of session s when its queue has been drained into d.  An
\* error leaves what the popped actions did to the channel in place, and
\* loses them: neither the batch nor the deferred actions survive.
PackageBatch(s, d) ==
    IF d.err
    THEN [s EXCEPT !.ch = d.ch, !.queue = d.rest, !.err = TRUE,
                   !.blame = d.blame,
                   !.torn = @ \/ d.batch # << >> \/ d.clean # NoSpend]
    ELSE LET drained == [s EXCEPT !.ch = d.ch, !.told = d.told, !.dup = d.dup,
                                  !.queue = d.deferred,
                                  !.expected = IF d.clean = NoSpend THEN @
                                               ELSE d.clean]
         IN IF d.batch = << >> /\ d.clean = NoSpend THEN drained
            ELSE SendBatch(drained, d.batch, d.clean)

DrainQueueIntoBatch(s) ==
    LET fresh == [ch |-> s.ch, told |-> s.told, dup |-> s.dup,
                  batch |-> << >>, deferred |-> << >>, rest |-> << >>,
                  clean |-> NoSpend, err |-> FALSE, blame |-> FALSE]
        run[i \in 0..Len(s.queue)] ==
            IF i = 0 THEN fresh ELSE DrainStep(run[i - 1], s.queue[i])
    IN PackageBatch(s, run[Len(s.queue)])

\* flush_pending_actions, whose error flush_and_collect turns into an
\* ActionFailed notification.
Flush(s) ==
    IF s.have_potato = "Present" /\ s.queue # << >>
    THEN [DrainQueueIntoBatch(s) EXCEPT !.err = FALSE, !.blame = FALSE]
    ELSE s

-----------------------------------------------------------------------------
(***************************************************************************)
(* Receiving: process_received_batch.  Each BatchAction is applied to the  *)
(* channel in order; the first error stops the batch.                      *)
(***************************************************************************)

\* Accepting or cancelling a group must name every member in the batch.
WholeGroups(ch, actions) ==
    \A kind \in {"AcceptProposal", "CancelProposal"} :
        LET named == {actions[i].id : i \in
                         {j \in DOMAIN actions : actions[j].k = kind}}
        IN \A id \in named :
               /\ IsProposed(ch, id)
               /\ \A j \in DOMAIN GroupMemberIds(ch, id) :
                      GroupMemberIds(ch, id)[j] \in named

QueuedProposals(s) ==
    {s.queue[i].ids[1] : i \in
        {j \in DOMAIN s.queue : s.queue[j].k = "ProposeGroup"}}

\* Mutant: superseded proposals are dropped without a word.
ApplyProposeGroupSilently(s, a) ==
    LET s1 == QueueWithout(s, "ProposeGroup")
        games == Members(a.t, a.ids, Other(s.ch.me))
    IN IF CanApplyProposals(s.ch, games)
       THEN [s1 EXCEPT !.ch = ApplyReceivedProposals(@, games)] ELSE Fail(s1, FALSE)

\* An incoming proposal supersedes our own queued ones, and is dropped when
\* we do not have its game type.
ApplyProposeGroup(s, a) ==
    LET s1 == QueueWithout(Tell(s, QueuedProposals(s)), "ProposeGroup")
        games == Members(a.t, a.ids, Other(s.ch.me))
    IN IF a.t \notin GameTypesOf[s.ch.me] THEN s1
       ELSE IF CanApplyProposals(s.ch, games)
       THEN [s1 EXCEPT !.ch = ApplyReceivedProposals(@, games)]
       ELSE Fail(s1, FALSE)

ApplyAcceptProposal(s, a) ==
    IF CanApplyAccept(s.ch, a.id)
    THEN [Tell(s, {a.id}) EXCEPT !.ch = AcceptProposalInner(@, a.id)]
    ELSE Fail(s, FALSE)

\* Mutant: a cancelled proposal stays open.
ApplyCancelProposalLeftOpen(s, a) ==
    IF IsProposed(s.ch, a.id) THEN Tell(s, {a.id}) ELSE Fail(s, FALSE)

ApplyCancelProposal(s, a) ==
    IF IsProposed(s.ch, a.id)
    THEN [Tell(s, {a.id}) EXCEPT !.ch = RemoveProposal(@, a.id)]
    ELSE Fail(s, FALSE)

\* The handler may answer a move with an advisory message, and the move that
\* finishes the game queues its settlement.
ApplyMove(s, a) ==
    IF ~CanApplyMove(s.ch, a.id, a.mv) THEN Fail(s, FALSE)
    ELSE LET s1 == [s EXCEPT !.ch = ApplyReceivedMove(@, a.id, a.mv)]
             s2 == IF a.mv.note THEN Send(s1, [k |-> "Message", id |-> a.id])
                   ELSE s1
         IN IF IsGameFinished(s1.ch, a.id)
            THEN [s2 EXCEPT !.queue =
                     Append(@, [k |-> "AcceptSettlement", id |-> a.id])]
            ELSE s2

ApplyAcceptSettlement(s, a) ==
    IF ~CanApplySettlement(s.ch, a.id) THEN Fail(s, FALSE)
    ELSE LET g == Find(s.ch.live, a.id)
         IN [TellSettled(s, a.id, CurrentShare(g, s.ch.me), Amount(g)) EXCEPT
                !.ch = Settle(@, a.id)]

ApplyAction(s, a) ==
    IF s.err THEN s
    ELSE CASE a.k = "ProposeGroup"     -> ApplyProposeGroup(s, a)
           [] a.k = "AcceptProposal"   -> ApplyAcceptProposal(s, a)
           [] a.k = "CancelProposal"   -> ApplyCancelProposal(s, a)
           [] a.k = "Move"             -> ApplyMove(s, a)
           [] a.k = "AcceptSettlement" -> ApplyAcceptSettlement(s, a)

HasAction(actions, kinds) == \E i \in DOMAIN actions : actions[i].k \in kinds

\* new_for_clean_shutdown: submit the shutdown and wait for the channel spend.
ForCleanShutdown(s, clean) == [s EXCEPT !.phase = "CleanShutdown", !.tx = {clean}]

\* A batch with a clean shutdown: check the payout, co-sign the spend, submit
\* it and hand it to the peer.  With nothing to be paid we only hand it over
\* (QueueTerminalHandoff) and leave the publication to the peer.
AcceptCleanShutdown(s, clean) ==
    IF HasActiveGames(s.ch) \/ clean # CleanSpend(s.ch.bal) THEN Fail(s, FALSE)
    ELSE LET s1 == SettleCached([Tell(s, Ids(s.ch.proposed)) EXCEPT
                                    !.ch = CancelAllProposals(@)])
             s2 == [s1 EXCEPT !.expected = clean, !.have_potato = "Present"]
         IN IF HasZeroPayout(s.ch) THEN [s2 EXCEPT !.phase = "AwaitTerminal"]
            ELSE Send(ForCleanShutdown(s2, clean),
                      [k |-> "CleanShutdownComplete", clean |-> clean])

\* With nothing left to the peer and no game live, the channel is closed.
CloseIfPeerSpent(s, send_back) ==
    IF send_back /\ s.ch.bal[Other(s.ch.me)] = 0 /\ ~HasActiveGames(s.ch)
    THEN [s EXCEPT !.queue = Append(@, [k |-> "CleanShutdown"])]
    ELSE s

\* A drain that sent nothing gives the potato to a peer that asked for it or
\* that settled a game; one that failed is an error unless a move or a
\* settlement is to blame.
ReturnPotato(s, send_back) ==
    CASE s.err -> [s EXCEPT !.err = ~s.blame, !.blame = FALSE]
      [] ~s.err /\ s.have_potato = "Present" /\ (s.peer_wants \/ send_back) ->
           SendEmptyPotato([s EXCEPT !.peer_wants = FALSE])
      [] OTHER -> s

\* update_channel_coin_after_receive: the potato is ours, for our queued
\* actions first.
UpdateChannelCoinAfterReceive(s, send_back) ==
    ReturnPotato(
        DrainQueueIntoBatch(
            CloseIfPeerSpent(
                SettleCached([s EXCEPT !.have_potato = "Present",
                                       !.spend = Unroll(s.ch.received)]),
                send_back)),
        send_back)

\* The actions of m are applied: close the channel, or verify the new state.
ConcludeBatch(s, m) ==
    CASE s.err -> s
      [] ~s.err /\ m.clean # NoSpend -> AcceptCleanShutdown(s, m.clean)
      [] ~s.err /\ m.clean = NoSpend /\ ~CanVerify(s.ch, m.sig) -> Fail(s, FALSE)
      [] OTHER -> UpdateChannelCoinAfterReceive(
                      [s EXCEPT !.ch = ReceiveSignedState(@)],
                      HasAction(m.actions, {"AcceptSettlement"}))

\* The actions of a batch, one after the other.
Applied(s, actions) ==
    LET run[i \in 0..Len(actions)] ==
            IF i = 0 THEN s ELSE ApplyAction(run[i - 1], actions[i])
    IN run[Len(actions)]

\* A new game withdraws our queued shutdown.
ProcessReceivedBatch(s, m) ==
    LET applied == IF WholeGroups(s.ch, m.actions)
                   THEN Applied(s, m.actions) ELSE Fail(s, FALSE)
    IN ConcludeBatch(IF HasAction(m.actions, {"ProposeGroup", "AcceptProposal"})
                     THEN QueueWithout(applied, "CleanShutdown") ELSE applied, m)

\* On error the channel and the queue are put back, the effects are dropped,
\* and the other fields stay as they are.
RollBack(s, r) ==
    IF r.err THEN [s EXCEPT !.have_potato = r.have_potato, !.spend = r.spend,
                            !.err = TRUE]
    ELSE r

\* pass_on_channel_state_message
PassOnBatch(s, m) == RollBack(s, ProcessReceivedBatch(s, m))

PassOnMessage(s, m) == IF m.id \in Ids(s.ch.live) THEN s ELSE Fail(s, FALSE)

\* The peer's co-signed shutdown: submit it too, unless nothing is ours.
PassOnShutdownComplete(s, m) ==
    IF HasZeroPayout(s.ch) THEN [s EXCEPT !.phase = "Abandoned"]
    ELSE IF s.expected = NoSpend THEN [s EXCEPT !.tx = {m.clean}]
    ELSE ForCleanShutdown(s, m.clean)

\* Mutant: a request is noted, and answered only after the next batch.
ProcessRequestPotatoLater(s) == [s EXCEPT !.peer_wants = TRUE]

ProcessRequestPotato(s) ==
    IF s.have_potato = "Present"
    THEN SendEmptyPotato([s EXCEPT !.peer_wants = FALSE])
    ELSE [s EXCEPT !.peer_wants = TRUE]

\* process_queued_message
ProcessMessage(s, m) ==
    IF s.expected # NoSpend
    THEN CASE m.k = "CleanShutdownComplete" -> PassOnShutdownComplete(s, m)
           [] m.k = "RequestPotato" -> s
           [] OTHER -> Fail(s, FALSE)
    ELSE CASE m.k = "RequestPotato" -> ProcessRequestPotato(s)
           [] m.k = "Batch" /\ s.have_potato = "Present" -> Fail(s, FALSE)
           [] m.k = "Batch" /\ s.have_potato # "Present" -> PassOnBatch(s, m)
           [] m.k = "Message" -> PassOnMessage(s, m)
           [] m.k = "CleanShutdownComplete" -> PassOnShutdownComplete(s, m)

-----------------------------------------------------------------------------
(***************************************************************************)
(* Leaving: GameSession::go_on_chain and the spend of the channel coin.    *)
(***************************************************************************)

\* The spend phase for the state last received.
ForChannelSpend(s) == [s EXCEPT !.tx = {s.spend}, !.spend = NoSpend,
                                !.expected = NoSpend, !.phase = "ChannelSpend"]

\* The impatience signal: the cached unroll is submitted while the channel coin
\* is watched, once.
Impatience(s) == [s EXCEPT !.tx = {s.spend} \ {NoSpend}, !.spend = NoSpend]

\* Nothing to be paid: abandon the session.  Off chain: publish the state
\* last received; process_effects then finds the peer disconnected and calls
\* go_on_chain again, which takes the spend and submits it once more.  Waiting
\* for the clean shutdown: submit the unroll as well, once.
GoOnChain(s) ==
    CASE HasZeroPayout(s.ch) -> [s EXCEPT !.phase = "Abandoned"]
      [] ~HasZeroPayout(s.ch) /\ s.phase = "OffChain" ->
           ForChannelSpend([Tell(s, Ids(s.ch.proposed)) EXCEPT
                                !.ch = CancelAllProposals(@)])
      [] OTHER -> Impatience(s)

\* An error of any kind is blamed on the peer and sends us on chain.
HandlePeerError(s) ==
    IF s.err THEN GoOnChain([s EXCEPT !.accused = TRUE, !.err = FALSE]) ELSE s

ReceivedMessage(s, m) == HandlePeerError(ProcessMessage(s, m))

FlushOffChain(s) == IF s.phase = "OffChain" THEN Flush(s) ELSE s

\* deliver_message and flush_and_collect.  A phase that waits for the channel
\* spend only submits a shutdown it is handed; a session that went on chain
\* has disconnected its peer.
DeliverMessage(s, m) ==
    CASE s.phase = "OffChain" -> FlushOffChain(ReceivedMessage(s, m))
      [] s.phase = "CleanShutdown" /\ m.k = "CleanShutdownComplete" ->
           [s EXCEPT !.tx = {m.clean}]
      [] OTHER -> s

\* emit_failure_cleanup: what is open ends with the channel.
FailureCleanup(s) ==
    [Tell(s, Ids(s.ch.proposed)) EXCEPT !.ch = CancelAllProposals(@),
                                        !.phase = "Failed"]

\* transition_to_completed_terminal, for the clean shutdown.
CompletedTerminal(s) == [SettleCached(s) EXCEPT !.phase = "Completed"]

\* handle_channel_coin_spent, once the spend of the channel coin is known.
\* Entering Unrolling disconnects the peer, and so goes through go_on_chain.
HandleChannelCoinSpent(s, spend) ==
    CASE s.expected # NoSpend /\ spend = s.expected -> CompletedTerminal(s)
      [] spend # s.expected /\ spend.k = "Unroll" /\ spend.c \in s.ch.known ->
           [Tell(s, Ids(s.ch.proposed)) EXCEPT
                !.ch = CancelAllProposals(@),
                !.phase = IF HasZeroPayout(s.ch) THEN "Abandoned" ELSE "Unrolling"]
      [] OTHER -> FailureCleanup(s)

\* check_channel_spent in front of it, when we were still off chain.
ChannelSpent(s, spend) ==
    IF s.phase = "OffChain" /\ HasZeroPayout(s.ch) /\ s.expected = NoSpend
    THEN [s EXCEPT !.phase = "Abandoned"]
    ELSE HandleChannelCoinSpent(s, spend)

-----------------------------------------------------------------------------
(***************************************************************************)
(* The local API: FromLocalUI for OffChainPhase.  Every call queues        *)
(* actions, asks for the potato if it is absent, and is followed by a      *)
(* flush.                                                                  *)
(***************************************************************************)

\* Mutant: the request is noted and not sent.
RequestUnsent(s) ==
    [s EXCEPT !.have_potato = IF @ = "Absent" THEN "Requested" ELSE @]

SendPotatoRequestIfNeeded(s) ==
    IF s.have_potato = "Absent"
    THEN Send([s EXCEPT !.have_potato = "Requested"], [k |-> "RequestPotato"])
    ELSE s

DoGameActions(s, actions) ==
    SendPotatoRequestIfNeeded([s EXCEPT !.queue = @ \o actions])

DoGameAction(s, a) == DoGameActions(s, << a >>)

\* Mutant: the game ids are not used up.
ProposeGamesSameIds(s, t) ==
    LET n == s.ch.my_nonce
        ids == [i \in DOMAIN Factory[t] |-> n + 2 * (i - 1)]
    IN DoGameAction(QueueWithout(s, "CleanShutdown"),
                    [k |-> "ProposeGroup", t |-> t, ids |-> ids])

\* A call with a proposal of the peer's pending only burns a game id.
ProposeGames(s, t) ==
    LET s1 == QueueWithout(s, "CleanShutdown")
        n == s.ch.my_nonce
        ids == [i \in DOMAIN Factory[t] |-> n + 2 * (i - 1)]
    IN IF PendingPeerProposal(s.ch)
       THEN Tell([s1 EXCEPT !.ch.my_nonce = @ + 2], {n})
       ELSE DoGameAction([s1 EXCEPT !.ch.my_nonce = @ + 2 * Len(ids)],
                         [k |-> "ProposeGroup", t |-> t, ids |-> ids])

GroupStakes(s, id) == Total(Group(s.ch, id))

\* The whole group must fit both balances; a group that does not is announced
\* as accepted and short, and cancelled silently.
AcceptProposal(s, id) ==
    LET ids == GroupMemberIds(s.ch, id)
    IN IF Covers(s.ch.bal, GroupStakes(s, id))
       THEN DoGameActions(s, [i \in DOMAIN ids |->
                                 [k |-> "AcceptProposal", id |-> ids[i]]])
       ELSE DoGameActions(Tell(s, ToSet(ids)),
                          [i \in DOMAIN ids |->
                              [k |-> "CancelProposal", id |-> ids[i], silent |-> TRUE]])

CancelProposal(s, id) ==
    LET ids == GroupMemberIds(s.ch, id)
    IN DoGameActions(s, [i \in DOMAIN ids |->
                            [k |-> "CancelProposal", id |-> ids[i], silent |-> FALSE]])

MakeMove(s, id, mv) ==
    DoGameAction(s, [k |-> IF mv.legal THEN "Move" ELSE "Cheat",
                     id |-> id, mv |-> mv])

AcceptSettlement(s, id) ==
    DoGameAction(s, [k |-> "AcceptSettlement", id |-> id])

ShutDown(s) == DoGameAction(s, [k |-> "CleanShutdown"])
=============================================================================
