---------------------------- MODULE OnChainPhase ----------------------------
(***************************************************************************)
(* One player's games on chain: struct OnChainPhase of                     *)
(* src/session_phases/on_chain.rs, and the step of SpendChannelCoinPhase   *)
(* that creates it.  A session record holds                                *)
(*                                                                         *)
(*   me       the player                                                   *)
(*   map      game_map, by game: the OnChainGameState and its coin         *)
(*   ref      the referee of the LiveGame (or of the pending settlement)   *)
(*   last     last_referee_puzzle_hash                                     *)
(*   pend     pending_moves, by game                                       *)
(*   queue    game_action_queue                                            *)
(*                                                                         *)
(* and what one call produces:                                             *)
(*                                                                         *)
(*   told     the terminal notifications, by game                          *)
(*   spends   the moves and slashes to submit, by game                     *)
(*   watch    the coins registered with the transaction manager            *)
(*   claims   the timeout claims that go with a RegisterCoin               *)
(*   err      the call returns Err: it keeps the state, loses the effects  *)
(*   stop     an action of the queue had an effect or failed               *)
(***************************************************************************)
EXTENDS Referee, Sequences

CONSTANT Games

\* Absent: no entry in game_map or pending_moves.
Absent == [k |-> "Absent"]

\* OnChainGameState
Entry(coin, our_turn, finished, armed) ==
    [k |-> "Entry", coin |-> coin, our_turn |-> our_turn,
     finished |-> finished, armed |-> armed,
     slash |-> FALSE, cheat_share |-> 0]

\* PendingMoveSavedState, and the coin it is stored under.
Pending(coin, ref) ==
    [k |-> "Pending", coin |-> coin, expected |-> ref.spend, ref |-> ref]

Tracked(s, g) == s.map[g] # Absent

Tracks(s, g, coin) == Tracked(s, g) /\ s.map[g].coin = coin

HasPending(s, g, coin) == s.pend[g] # Absent /\ s.pend[g].coin = coin

-----------------------------------------------------------------------------
(***************************************************************************)
(* Effects.                                                                *)
(***************************************************************************)

\* SettlementOutcome, and the two GameStatusKinds that end a game.
Outcomes == {"AcceptSettlement", "SettledCleanly", "OpponentTimedOut",
             "ForfeitedSkippedReveal", "ForfeitedOpponentWon",
             "ForfeitedWeAccepted", "WeAccepted", "AttemptToMoveFailed",
             "TimedOutWaitingForOurMove", "SlashedOpponent",
             "OpponentSlashedUs", "OpponentCheated",
             "EndedCancelled", "EndedError"}

\* A call starts and, once they are carried out, ends with no effects.
NoEffects(s) ==
    [s EXCEPT !.told = [g \in Games |-> << >>], !.spends = [g \in Games |-> {}],
              !.watch = {}, !.claims = {}, !.err = FALSE, !.stop = FALSE]

\* GameSettled, or GameStatus with EndedError.
Settled(s, g, outcome, share) ==
    [s EXCEPT !.told[g] = Append(@, [outcome |-> outcome, share |-> share]),
              !.stop = TRUE]

SpendTransaction(s, g, sp) == [s EXCEPT !.spends[g] = @ \cup {sp}, !.stop = TRUE]

\* The call returns Err.  (Status notifications that end nothing are left out:
\* no action of the queue produces them alone, so the queue does not stop at
\* them.)
Fail(s) == [s EXCEPT !.err = TRUE, !.stop = TRUE]

PaysUs(s, args) == TimeoutSpend(args).pay[s.me] > 0

\* RegisterCoin has the transaction manager watch the coin.
Watch(s, g, coin) ==
    [s EXCEPT !.watch = @ \cup {[g |-> g, coin |-> coin]}, !.stop = TRUE]

\* build_timeout_claim and the RegisterCoin that carries it: no claim unless
\* the timeout pays us.
RegisterClaim(s, g, coin) ==
    LET args == TimeoutArgs(s.ref[g], coin) IN
    IF PaysUs(s, args)
    THEN [Watch(s, g, coin) EXCEPT
            !.claims = @ \cup {[g |-> g, coin |-> coin, args |-> args]}]
    ELSE s

\* A RegisterCoin with the claim, if there is one.
RegisterCoin(s, g, coin) == Watch(RegisterClaim(s, g, coin), g, coin)

\* Mutant: the entry outlives the game.
DropNothing(s, g) == s

Drop(s, g) == [s EXCEPT !.map[g] = Absent]

\* The referee goes on from the coin to.
Follow(s, g, ref, to) == [s EXCEPT !.ref[g] = ref, !.last[g] = to]

-----------------------------------------------------------------------------
(***************************************************************************)
(* Actions: do_on_chain_action.  An action is [k, g, mv].                  *)
(***************************************************************************)

\* on_chain_our_move asserts that the coin is the one the referee left off at.
MoveAsserts(s, g) == s.last[g] = s.map[g].coin

\* do_on_chain_move: a move that leaves the opponent everything is not made.
DoOnChainMove(s, g, mv, k) ==
    LET post == MyTurnMakeMove(s.ref[g], mv, k)
        coin == s.map[g].coin IN
    IF ~s.map[g].our_turn \/ ~s.ref[g].mine \/ IsGameOver(s.ref[g]) THEN Fail(s)
    ELSE IF ~s.map[g].slash /\ mv.share = Amount
    THEN Settled(Drop(s, g), g, "ForfeitedSkippedReveal", 0)
    ELSE IF ~MoveAsserts(s, g) THEN Fail(s)
    ELSE SpendTransaction([s EXCEPT !.pend[g] = Pending(coin, post)],
                          g, Move(s.ref[g].spend, post.spend))

DoMove(s, a) ==
    IF ~Tracked(s, a.g) THEN Fail(s)
    ELSE IF HasPending(s, a.g, s.map[a.g].coin) THEN Fail(s)
    ELSE DoOnChainMove(s, a.g, a.mv, a.k)

\* An accept with nothing to claim is a forfeit.  Otherwise the claim, if there
\* is one, is registered and the entry marked.
DoAcceptSettlement(s, g) ==
    IF ~Tracked(s, g) THEN Fail(s)
    ELSE IF s.map[g].our_turn /\ OurCurrentShare(s.ref[g]) = 0
    THEN Settled(Drop(s, g), g, "ForfeitedWeAccepted", 0)
    ELSE [RegisterClaim(s, g, s.map[g].coin)
            EXCEPT !.map[g].armed = TRUE, !.map[g].finished = TRUE]

\* A choice the game's handler rejects is an Err of on_chain_our_move, after
\* checks that return Err as well.
DoOnChainAction(s, a) ==
    CASE a.k \in {"Move", "Cheat", "Garble"} -> DoMove(s, a)
      [] a.k = "AcceptSettlement" -> DoAcceptSettlement(s, a.g)
      [] a.k = "Rejected"         -> Fail(s)

\* One action of the queue, unless an earlier one had an effect or failed.
RunQueued(s, a) ==
    IF s.stop THEN s ELSE DoOnChainAction([s EXCEPT !.queue = Tail(@)], a)

\* process_queued_action
ProcessQueuedAction(s) ==
    LET run[i \in 0..Len(s.queue)] ==
            IF i = 0 THEN [s EXCEPT !.stop = FALSE]
            ELSE RunQueued(run[i - 1], s.queue[i]) IN
    run[Len(s.queue)]

\* A turn of the loop of process_effects that takes what is left of the queue:
\* an action with effects is followed by a loop of its own, and one that
\* returns Err ends the loop it is in and has no effects.
DrainStep(r, a) ==
    LET popped == [r.s EXCEPT !.queue = Tail(@), !.stop = FALSE]
        done   == DoOnChainAction(popped, a) IN
    IF r.loops = 0 THEN r
    ELSE IF done.err THEN [s |-> popped, loops |-> r.loops - 1]
    ELSE [s |-> done, loops |-> IF done.stop THEN r.loops + 1 ELSE r.loops]

Drain(s, loops) ==
    LET run[i \in 0..Len(s.queue)] ==
            IF i = 0 THEN [s |-> s, loops |-> loops]
            ELSE DrainStep(run[i - 1], s.queue[i]) IN
    run[Len(s.queue)].s

\* What the host does with the result of a call: its effects are processed,
\* unless it returned Err, and flush_and_collect processes once more.
Flush(s) == IF s.err THEN Drain(NoEffects(s), 1) ELSE Drain(s, 2)

-----------------------------------------------------------------------------
(***************************************************************************)
(* A game coin is spent: handle_game_coin_spent.  s is the session, sp the *)
(* spend of the coin of g's entry, old the entry.                          *)
(***************************************************************************)

\* should_auto_settle, on our turn.
ShouldAutoSettle(ref) ==
    \/ OurCurrentShare(ref) = Amount
    \/ IsGameOver(ref) /\ OurCurrentShare(ref) > 0

\* emit_loser_forfeit_terminal
LoserForfeit(s, g) == Settled(Drop(s, g), g, "ForfeitedOpponentWon", 0)

\* The Expected and Moved arms, once the referee is up to date: the coin to
\* is tracked, and a game that is over with nothing for us is given up.
TrackNext(s, g, old, to, our_turn) ==
    LET ref      == s.ref[g]
        auto     == our_turn /\ ShouldAutoSettle(ref)
        forfeit  == our_turn /\ ~auto /\ IsGameOver(ref) /\ OurCurrentShare(ref) = 0
        tracked  == [s EXCEPT !.map[g] =
                        [old EXCEPT !.coin = to, !.our_turn = our_turn,
                            !.finished = old.finished \/ IsGameOver(ref) \/ auto]]
        register == RegisterCoin(tracked, g, to) IN
    IF forfeit THEN LoserForfeit(s, g)
    ELSE IF auto
    THEN [register EXCEPT !.queue = Append(@, [k |-> "AcceptSettlement", g |-> g])]
    ELSE register

\* The outcome of a timeout, by whose turn the entry says it was.
TimeoutOutcome(old) ==
    IF old.finished THEN "SettledCleanly"
    ELSE IF old.our_turn THEN "TimedOutWaitingForOurMove"
    ELSE "OpponentTimedOut"

\* Mutant: every Timedout result is reported as a timeout.
TimedoutAsTimeout(s, g, old, sp) ==
    Settled(s, g, TimeoutOutcome(old), OurCurrentShare(s.ref[g]))

\* The Timedout arm: the reward is what the referee says we have.
Timedout(s, g, old, sp) ==
    IF sp.k = "Slash" /\ ~old.our_turn
    THEN Settled(s, g, "OpponentSlashedUs", 0)
    ELSE Settled(s, g, TimeoutOutcome(old), OurCurrentShare(s.ref[g]))

\* Mutant: the share the cheat left us is not kept.
SlashForgetsShare(s, g, old, to) ==
    SpendTransaction(
        Watch([s EXCEPT !.map[g] = [old EXCEPT !.coin = to, !.our_turn = FALSE,
                                               !.slash = TRUE]], g, to),
        g, SlashSpend(to))

\* The Slash arm: the slash is submitted and its coin watched, without a claim.
\* The queue waits.
Slash(s, g, old, to) ==
    SpendTransaction(
        Watch([s EXCEPT !.map[g] =
                  [old EXCEPT !.coin = to, !.our_turn = FALSE, !.slash = TRUE,
                              !.cheat_share = to.share]], g, to),
        g, SlashSpend(to))

EndedError(s, g) == Settled(s, g, "EndedError", 0)

\* game_coin_spent for a move: the new coin is one our referee knows of, or
\* the opponent's move is given to it.  An Err of the referee ends the game.
MovedTo(s, g, old, to) ==
    LET ref == s.ref[g] IN
    IF (to \in {ref.create, ref.spend} /\ to # old.coin) \/ IsGameOver(ref)
    THEN ProcessQueuedAction(
             TrackNext(Follow(s, g, ref, to), g, old, to, ~old.our_turn))
    ELSE IF ref.mine \/ old.our_turn \/ to.raises
    THEN ProcessQueuedAction(EndedError(s, g))
    ELSE IF ~to.legal THEN Slash(s, g, old, to)
    ELSE ProcessQueuedAction(
             TrackNext(Follow(s, g, TheirMoveOnChain(to), to), g, old, to, TRUE))

\* game_coin_spent for a spend that pays out: what pays us first is our
\* reward, whatever path of the puzzle paid it.
PaidOut(s, g, old, sp) ==
    ProcessQueuedAction(
        IF FirstPaid(sp) = s.me
        THEN Settled(s, g, TimeoutOutcome(old), sp.pay[s.me])
        ELSE Timedout(s, g, old, sp))

\* We were slashing: the opponent's timeout may have come first.
SlashResolved(s, g, old, sp) ==
    ProcessQueuedAction(
        IF sp.pay[Other(s.me)] > 0
        THEN Settled(s, g, "OpponentCheated", old.cheat_share)
        ELSE IF sp.pay[s.me] > 0
        THEN Settled(s, g, "SlashedOpponent", sp.pay[s.me])
        ELSE EndedError(s, g))

\* timeout_claim_armed: we accepted, and the coin is paid out or has moved on.
ArmedSpent(s, g, old, sp) ==
    ProcessQueuedAction(
        IF sp.k # "Move"
        THEN Settled(s, g, IF old.finished THEN "SettledCleanly" ELSE "WeAccepted",
                     sp.pay[s.me])
        ELSE RegisterCoin([s EXCEPT !.map[g] = [old EXCEPT !.coin = sp.to,
                                                !.our_turn = ~old.our_turn]],
                          g, sp.to))

Resolve(s, g, old, sp) ==
    CASE old.slash     -> SlashResolved(s, g, old, sp)
      [] ~old.slash /\ old.armed -> ArmedSpent(s, g, old, sp)
      [] ~old.slash /\ ~old.armed /\ sp.k = "Move" -> MovedTo(s, g, old, sp.to)
      [] ~old.slash /\ ~old.armed /\ sp.k # "Move" -> PaidOut(s, g, old, sp)

\* Mutant: it is still our turn.
MoveLandedKeepsTurn(s, g, old, ref) ==
    ProcessQueuedAction(
        RegisterCoin(
            [Follow(s, g, ref, ref.spend) EXCEPT
                !.map[g] = [old EXCEPT !.coin = ref.spend,
                                       !.finished = IsGameOver(ref)]],
            g, ref.spend))

\* Our pending move landed: the referee saved with it becomes the game's.
MoveLanded(s, g, old, ref) ==
    ProcessQueuedAction(
        RegisterCoin(
            [Follow(s, g, ref, ref.spend) EXCEPT
                !.map[g] = [old EXCEPT !.coin = ref.spend, !.our_turn = FALSE,
                                       !.finished = IsGameOver(ref)]],
            g, ref.spend))

MoveOvertaken(s, g, old) ==
    ProcessQueuedAction(
        Settled(s, g, IF old.finished THEN "SettledCleanly" ELSE "AttemptToMoveFailed", 0))

\* Mutant: a pending move is taken to have landed whatever spent its coin.
PendingLandedAlways(pend, sp) == TRUE

PendingLanded(pend, sp) == sp.k = "Move" /\ sp.to = pend.expected

\* A coin that is not in the map is ignored, unless a move is pending on it.
HandleGameCoinSpent(s, g, sp) ==
    LET old     == s.map[g]
        pend    == s.pend[g]
        cleared == [Drop(s, g) EXCEPT !.pend[g] = Absent] IN
    IF ~Tracks(s, g, sp.coin)
    THEN IF HasPending(s, g, sp.coin) THEN Fail([s EXCEPT !.pend[g] = Absent]) ELSE s
    ELSE IF ~HasPending(s, g, sp.coin) THEN Resolve(Drop(s, g), g, old, sp)
    ELSE IF PendingLanded(pend, sp) THEN MoveLanded(cleared, g, old, pend.ref)
    ELSE IF sp.k # "Move" /\ FirstPaid(sp) # s.me THEN MoveOvertaken(cleared, g, old)
    ELSE Resolve(cleared, g, [old EXCEPT !.our_turn = FALSE], sp)

\* coin_puzzle_and_solution without an answer from the node.
CoinSpentUnknown(s, g) == ProcessQueuedAction(EndedError(Drop(s, g), g))

-----------------------------------------------------------------------------
(***************************************************************************)
(* The unroll coin is spent: set_state_for_coins and                       *)
(* finish_on_chain_transition.  start says how the game g stood off chain: *)
(*   coin   the position of the game coin                                  *)
(*   ref    our referee                                                    *)
(*   how    "Latest": the coin is where our referee is; "Redo": we have    *)
(*          moved on and the opponent has not seen it; "Settling": we      *)
(*          accepted and the opponent has not seen it.  The unroll may     *)
(*          have no coin of the game at all: "Resolved" when it already    *)
(*          has our accept, "InFlight" when it is older than the game's    *)
(*          acceptance, "Missing" when a live game is gone, "Unheard" when *)
(*          we had no such game                                            *)
(***************************************************************************)

OffChain == {"Resolved", "InFlight", "Missing", "Unheard"}

\* Mutant: a game to redo is taken to be where our referee is.
InitialEntryRedoWaits(start) ==
    CASE start.how \in {"Latest", "Redo"} -> Entry(start.coin, start.ref.mine,
                                                   IsGameOver(start.ref), FALSE)
      [] start.how = "Settling" -> Entry(start.coin, TRUE, FALSE, TRUE)

InitialEntry(start) ==
    CASE start.how = "Latest"   -> Entry(start.coin, start.ref.mine,
                                         IsGameOver(start.ref), FALSE)
      [] start.how = "Redo"     -> Entry(start.coin, TRUE, IsGameOver(start.ref), FALSE)
      [] start.how = "Settling" -> Entry(start.coin, TRUE, FALSE, TRUE)

\* Zero-reward early-out: nothing to be gained from this game.
NothingToGain(start) ==
    OurCurrentShare(start.ref) = 0 /\
        (start.how # "Latest" \/ ~start.ref.mine)

ZeroRewardOutcome(start) ==
    CASE start.how = "Settling" -> "ForfeitedWeAccepted"
      [] start.how = "Redo"     -> "ForfeitedSkippedReveal"
      [] start.how = "Latest"   -> "ForfeitedOpponentWon"

\* A game without a coin ends here.  The unroll's own reward pays what an
\* accepted settlement left us.
GoneOffChain(s, g, start) ==
    CASE start.how = "Resolved" -> Settled(s, g, "AcceptSettlement",
                                           OurCurrentShare(start.ref))
      [] start.how = "InFlight" -> Settled(s, g, "EndedCancelled", 0)
      [] start.how = "Missing"  -> EndedError(s, g)
      [] start.how = "Unheard"  -> s

\* One game's part of the transition.
StartGame(s, g, start) ==
    LET entered == [s EXCEPT !.map[g] = InitialEntry(start)] IN
    IF start.how \in OffChain THEN GoneOffChain(s, g, start)
    ELSE IF NothingToGain(start) THEN Settled(s, g, ZeroRewardOutcome(start), 0)
    ELSE IF start.how = "Redo"
    THEN RegisterCoin(
             SpendTransaction([entered EXCEPT !.pend[g] = Pending(start.coin, start.ref)],
                              g, Move(start.coin, start.ref.spend)),
             g, start.coin)
    ELSE RegisterCoin(entered, g, start.coin)

\* The session before it, with the actions the player has parked.
Parked(p, starts) ==
    [me     |-> p,
     map    |-> [g \in Games |-> Absent],
     ref    |-> [g \in Games |-> starts[g].ref],
     last   |-> [g \in Games |-> starts[g].ref.spend],
     pend   |-> [g \in Games |-> Absent],
     queue  |-> << >>,
     told   |-> [g \in Games |-> << >>],
     spends |-> [g \in Games |-> {}],
     watch  |-> {}, claims |-> {}, err |-> FALSE, stop |-> FALSE]

\* The games are gone through one by one; none touches what is another's.
StartGames(s, starts) ==
    LET of(g) == StartGame(s, g, starts[g]) IN
    [s EXCEPT !.map    = [g \in Games |-> of(g).map[g]],
              !.pend   = [g \in Games |-> of(g).pend[g]],
              !.told   = [g \in Games |-> of(g).told[g]],
              !.spends = [g \in Games |-> of(g).spends[g]],
              !.watch  = UNION {of(g).watch : g \in Games},
              !.claims = UNION {of(g).claims : g \in Games}]

\* new_terminal: with no game left there is nothing to queue for.
NewTerminal(s) == [s EXCEPT !.queue = << >>]

FinishOnChainTransition(s, starts) ==
    LET started == StartGames(s, starts) IN
    IF \A g \in Games : ~Tracked(started, g) THEN NewTerminal(started)
    ELSE ProcessQueuedAction(started)
=============================================================================
