# chia-gaming: a verification project

chia-gaming plays two-player games inside a state channel on the Chia
blockchain. Two sessions exchange signed channel states off chain; when they
disagree, or one of them disappears, the channel coin is spent on chain and the
latest signed state is enforced. This directory models the channel from its
handshake to the last game coin in TLA+, with the transport and the transaction
manager below it, model-checks it with TLC, and proves with TLAPS the central
facts about the off-chain channel, the dispute, the games on chain, the handshake,
the transport and the transaction manager.
Paths below are relative to the repository.

## 1. Inventory

| Component | State | Operations | Correct when |
|---|---|---|---|
| Channel state (`src/channel_state/mod.rs`) | balances in and out of games, proposals, live games, state number, last sent and received unroll, map of known unrolls, potato flag, redo cache | propose, accept, cancel, move, settle, sign the next state, verify a received state | both players compute the same state from the same batches; money is conserved; a number stands for one state |
| Off-chain phase (`src/session_phases/mod.rs`) | action queue, potato (`Absent`, `Requested`, `Present`), `peer_wants_potato`, last channel spend, pending clean shutdown | local calls, drain into a batch, receive a batch with rollback, answer a potato request, clean shutdown, go on chain | one potato; an honest peer's batch is accepted; every proposal is resolved once; queued actions go out |
| Game session (`src/game_session.rs`) | inbound stream, disposition, peer-disconnected flag, current phase | call / flush / collect, effects, phase change, abandon, terminal handoff | a session that starts to leave ends |
| Channel-spend phase (`src/session_phases/spend_channel_coin_phase.rs`, `handler_base.rs`) | expected clean shutdown, unroll coin, its state, preemption or timeout, `was_stale` | classify the spend, preempt, wait, finish | every spend of the channel coin is recognised; an old state does not prevail |
| Unroll puzzle (`clsp/unroll/unroll_puzzle.clsp`) | state number, default conditions | timeout path, preemption path | only a higher number of the other parity preempts |
| Referee and handlers (`src/referee`, `src/channel_state/game_handler.rs`) | turn, mover share, move and validator | move, accept a move, slash, timeout | shares add up to the pot |
| Handshake (`src/session_phases/handshake_*.rs`, funding and expiry in `src/game_session.rs`) | handshake step, first signatures, the two halves of the funding, deadline, early messages | messages A to F, wallet callbacks, reports of the chain | funding that can land can be recovered by both; a channel given up as expired never appears; nothing the peer sends early is lost |
| On-chain phase (`src/session_phases/on_chain.rs`) | game coin map with turn, finished, armed and slash flags, pending moves, queue | move, cheat, accept, redo, slash, time out, settle | every game ends once for each player, as it was paid |
| Referee puzzle (`clsp/referee/onchain/referee.clsp`) | curried arguments of the coin | move, timeout, slash | before the timeout a move, after it the agreed split, and the pot for an illegal move |
| Transaction manager (`src/transaction_manager.rs`) | watched coins with birthday, spend height and claim, retained submissions, last heights, vanished coins | register, submit, report of height, report of coins, drain, requeue, discard | handlers see the chain without its reorganisations; no needed transaction is lost |
| Poller (`front-end/src/hooks/BlockchainPoller.ts`) | peak, previous peak, coins seen | height poll, coin poll, submission | a failing node is not taken for a reorganisation |
| Peer transport and persistence (`front-end/src/hooks/SessionController.ts`, `blobSingleton.ts`, `save.ts`) | message numbers, unacknowledged messages, reorder queue, event queue, pending sends and acks, the saved record | dispatch, deliver, acknowledge, retransmit, save, restore, terminal handoff | one ordered stream each way across loss and reloads; nothing is acknowledged before it is saved |
| Hosts: WASM bridge, user interface, hub, simulator, agent | presentation | API calls, relay | at most one step at a time |

Interaction. The host calls the session (WASM `with_game_drain`), which runs one
step to completion, then flushes queued actions and hands back messages,
transactions and notifications. A session is single threaded: what interleaves
is the two sessions, the two message streams, the polls of the chain and the
chain itself. The hub relays frames
and may lose them; the host's transport makes ordered streams of them. Only the holder of the *potato* may send a batch, which carries
the potato and the signatures of the next state.

What is hard: requests that cross batches; queued actions that a received batch
makes stale; a batch that fails half way on either side; leaving (shutdown, go on
chain, abandon, nothing left to be paid) at any point of the above; two spends of
the channel coin that race; unrolls of old states, one apart or further; late
moves, slashes and timeout claims that race for a game coin; a redone move, whose
coin and referee are a position apart; reorganisations seen by two polls that do
not agree on the height; a channel coin that one party sees before the other, or
after it has given up. The
`hazards` of `PROJECT.json` list these at their lines.

## 2. Modules

| Module | What it models |
|---|---|
| `ChannelState` | struct `ChannelState` as a record, its operations as operators on it; `Can…` says when an operation returns `Ok` |
| `OffChainPhase` | one session: struct `OffChainPhase` with the part of `GameSession` that drives it; the drain, the receive path, leaving, the local API |
| `PotatoChannel` | two sessions, the two ordered streams, the chain; actions are API calls, delivery, poll, handoff, mining and observing; properties |
| `PotatoInvariant` | the inductive invariant `PotatoInv` |
| `LedgerProofs` | lemmas about `ChannelState`: folds, records, ledgers |
| `PotatoProofs` | theorems about `PotatoChannel` |
| `MCPotato` | deposits, game factories, moves and call budgets of the instances |
| `Unroll` | the dispute: numbered states off chain, publication, preemption, timeout, faulty players |
| `UnrollInvariant` | the inductive invariant `IInv` |
| `UnrollProofs` | the theorems |
| `MCUnroll` | instance of `Unroll` with its invariant |
| `Referee` | the referee puzzle, and a player's referee: positions, spends, timeout arguments |
| `OnChainPhase` | one session on chain: struct `OnChainPhase` as a record, `do_on_chain_action`, the queue, `handle_game_coin_spent`, the step that creates it from the unroll |
| `GameOnChain` | two of them, their game coins, the transactions that race for them; properties |
| `GameInvariant` | the inductive invariant `GamesInv` |
| `GameProofs` | theorems about `GameOnChain` |
| `MCGame` | instance of `GameOnChain` with its invariant |
| `Chain` | the chain of the simulator: two coins, mempool, timelocks, blocks, reorganisations |
| `TransactionManager` | struct `TransactionManager` as a record, its operations |
| `ChainWatch` | the manager between a session, a poller and the chain; properties |
| `CoinView` | abstract: what handlers are told follows the chain |
| `WatchInvariant` | the inductive invariant `FullWatchInv` and its part `BasicInv` |
| `WatchProofs` | theorems about `ChainWatch`, the refinement of `CoinView` among them |
| `MCWatch` | instance of `ChainWatch` with its invariant |
| `Handshake` | both handshake phases with their sessions, wallets, funding and the chain |
| `HandshakeInvariant` | the inductive invariants `FundingInv` and `InStep` |
| `HandshakeProofs` | theorems about the funding of `Handshake` |
| `HandshakeOrderProofs` | theorems about the order of its messages |
| `MCHandshake` | instance of `Handshake` with its invariant |
| `Transport` | two pages and the relay: numbered messages, acknowledgements, retransmission, durability flushes, reloads from the last save |
| `TransportInvariant` | the inductive invariants `TransportInv` and `FullTransportInv` |
| `TransportProofs` | theorems about `Transport` |
| `MCTransport` | `Transport` with its invariant, and the symmetry of the two pages |

### Correspondence

* Records are written from a neutral side: the code's `my_…`/`their_…` pairs are
  functions on `Party`, so that mirrored states are equal. `alice` is the
  handshake's initiator, `bob` its receiver.
* A signature is the commitment it signs (number, balances, game coins):
  verifying is comparing.
* A game is its stakes, turn, share, length and whether the handler is used up.
  A move is a record that says whether it gives the pot away or keeps it, ends
  the game, is legal, is rejected by our own handler, or triggers an advisory
  message. This keeps every branch of the code and drops the rules of the games.
* One API call or one delivered message is one action, including the flush,
  the effects, and the escalation to `go_on_chain`.
* An error in `drain_queue_into_batch` leaves applied actions applied and loses
  them (`torn`), as the code does. An error in a received batch restores the
  channel state and the queue and nothing else.
* `told`, `settled`, `dup`, `torn` and `accused` are history: what the player has
  been told, and whether an error was blamed on the peer.
* In `Unroll` a state is its number; `KnownStatesAgree` of `PotatoChannel` is
  what justifies it. `Faulty` players may submit any state they ever held both
  signatures of; what they cannot do is sign for the other.
* A proposal that a receiver does not know the type of, a proposal beyond
  `MaxProposals`, a batch that crosses a request, a cheat and a refused move are
  all reachable in the instances.

* In `Transport` a page is one record, `SessionController`'s fields under short
  names (`next` is `messageNumber`, `remote` is `remoteNumber`, `sends` and `acks`
  the pending lists, `dirty` is `needsImmediateDurability`). The cradle is what it
  consumed and what it made. `unackedMessages` is a set, since the code keeps it in
  the order of the numbers and `net` is a set anyway. `book`, `undrained`, `left`, `forked` and `torn` are
  history. Init is a session whose cradle exists and has been saved.
* A frame is never taken out of `net`: loss is a frame that is never delivered,
  retransmission one delivered again, reordering a later one delivered first.
  The hub is kinder than that.
* Timers are left out: a flush may start whenever one is needed. The branch of
  `performDurabilityFlushAndSend` that sends without saving is left out too:
  `TypeOK` says that pending frames always need a save. The end of the write and
  the sends after it are one step; a page that dies between them is one whose
  socket was closed. Messages stored while a page loads are frames not delivered
  yet.

* In `GameOnChain` a coin is its position (the curried arguments of the puzzle),
  so a claim built from the wrong arguments is a claim the chain refuses.
  `start` gives, for each game, every way the unroll may find it: where both
  referees are, one move of ours behind (`Redo`), with our accept unseen
  (`Settling`), or without a coin (`Resolved`, `InFlight`, `Missing`, `Unheard`).
  A session collects the effects of a call by game, in `told`, `spends`, `watch` and
  `claims`, and `Deliver` carries them out; a call that returns `Err` keeps the state it has
  changed and loses its effects (`lost`), as in `on_chain.rs`. `Misled` players have a node that
  may return no puzzle and solution. A move that the player makes is any share and
  end, or one that the game's handler rejects (`Rejected`); a faulty player may also make one
  that the other referee raises on (`raises`: an error of the validation program, of the
  handler, or a hash that does not fit), which ends the game with `EndedError` there.
* A call of the session ends with the loop of `process_effects`, and the host's
  `flush_and_collect` runs that loop again: what is left of the queue is taken until
  an action fails or nothing happens (`Flush`, `Drain`, `DrainStep`). An action with
  effects is processed by a call with a loop of its own, so a failing one ends only the
  innermost loop; `loops` counts those left. `new_block` has one loop for each coin it reports and one for the height. `NewBlock`
  has the last one and the flush; since it may also be taken with no coin to report, every way
  the longer sequence takes the queue is a sequence of `NewBlock` steps.
* `ChainWatch` has one coin a session spends and the coin that makes, with or
  without a timeout claim, so that parent, child, claim, rival and replay all
  occur. The two polls are separate actions; a coin poll reads the chain as it is
  and reports it with the peak of the last height poll. `Attentive` restricts the
  poller as described under Runs. A reload keeps the manager as it is, where the code restores the
  last debounced save; from then on the host may resubmit (`resubmit_submitted` and the drain
  that follows it), after a coin snapshot, any number of times; that is not counted as an upset,
  so a reload and the resubmission after it meet. `view` is what the handlers were told, and
  `CoinView` the promise made to them.
* In `Handshake` a spend bundle is the height before which it must be included.
  One wallet answer, delivered message or report of the chain is one action; the
  queue of messages that arrive before the phase can take them is
  `incoming_messages`. A hostile party may make up any message of the handshake,
  keep the funding to itself, and stop. A party's node may lag, so `NewBlock`
  reports any height from the party's own to the chain's. The host of a session that was
  abandoned, has failed or was told of the expiry has stopped (`Stopped`): `is_fully_resolved`
  makes the drain terminal (`game_session.rs:713`, `wasm/src/mod.rs:1389`) and
  `stopProtocolWork` stops the poller and ignores wallet answers (`SessionController.ts:704`, 747).
  What was handed over for submission still goes out. Left out: messages of such a
  host that are not acknowledged yet are dropped with it (the model's stream delivers
  them); the abandonment of `go_on_chain` with nothing to be paid
  (`game_session.rs:1692`), whose condition is false while both parties fund the channel;
  and a hostile E whose deadline is later or missing, since the receiver's own half bounds
  the funding anyway. In `Transition` a party that had cut its peer off would unroll at once;
  with this host it never gets there (`given_up`).

External to the code, and marked so in the map: the chain's confirmations, the
passing of timelocks in `Unroll` and `GameOnChain`, and what faulty players submit.

## 3. Runs

Deadlock checking is off for the channel and the dispute: a session may end, or
its host may have nothing more to do. The transport is checked for deadlock.

| Run | Instance | Shows |
|---|---|---|
| `channel` | every API call at any time, 3 calls of alice and 2 of bob; a single game and a two-game group that bob does not know; a final move, a rejected move and a cheat; ample balances | `ExchangeInv` (types, one potato, numbers in step), `LedgersMirror`, `FundsConserved`, `ResolvedAtMostOnce`, `PotatoInv` (among others: a number stands for one state, `KnownStatesAgree`) |
| `polite` | two single games that differ in who moves first, 3 calls of alice and 2 of bob, by hosts that act on their turn, answer once, close the channel between games and answer nothing after that, and may go on chain at any point; no cancel; with fairness | `NoAccusation`, `NothingStranded` (queued actions, proposals, advisory messages), `UnrollsRecognised`, `SettlementsAgree`, `RequestAnswered`, `ActionsLeaveQueue`, `LeavingEnds` |
| `unroll` | states 0 to 4, bob faulty, with fairness | `IInv`, `NoRollback`, `SpendResolves` |
| `transport` | 2 messages, in either direction or one in each, and one upset: a reload, a departure on chain, or an end | `FullTransportInv` (among others: what is acknowledged is saved, what is not is kept), `SameStream`, `NumberedAsMade`, `HandoffReachesPeer` |
| `games` | one game of up to 4 moves for a pot of 2, one parked action, moves the handler rejects, bob may cheat or make a move that raises, and bob's node may not answer, with fairness | `OneTerminal`, `ReportedIsPaid`, `TurnsComplementary`, `GamesInv` (among others: the claims held are those the coins need, and valid), `NoEndedError`, `StoriesTrue`, `GamesEnd` |
| `watch` | heights to 5, one reorganisation of up to 2 blocks, confirmation depth 3, one reload or lost submission, resubmission after it, a rival spend of the claimed coin, an attentive poller, with fairness | `FullWatchInv`, `ClaimsSubmitted`, `LaunchReplayed`, `SpendsTold`, `ClaimsRipe`, `ViewFollows` |
| `handshake` | heights to 3, a deadline of 2 blocks, one off-chain message each, one upset: a wallet that fails, a user who stops, or a made-up message; nobody, or either party, hostile; with fairness | `FundingInv`, `FundedIsRecoverable`, `ExpiredIsFinal`, `PlayKept`, `NoFalseError`, `FundingSettles`, `HonestOpen` |

The passing runs have between 17,000 and 720,000 states (`unroll` 17,836,
`channel` 718,853, `transport` 337,371, `polite` 139,262, `games` 23,613, `watch` 186,706,
`handshake` 212,966) and end within three minutes.

Bounds. Budgets of API calls (`MaxCalls`) bound everything else: a call adds at
most one group to the queue, and a batch is sent for a call or for a request.
Three calls and two are enough for a proposal, its acceptance, a move or
settlement by either and a shutdown, with a proposal of the other player crossing them; the
recorded counterexamples need at most that. The invariants of `polite` also hold with three
calls each (978,311 states), which is too long a run with its temporal properties. Balances of 2 and 1 (`MCDeposit`)
make a second acceptance run short and a lost game leave a player with nothing.
`MaxProposals` is 2 or 3 in place of 100. The dispute needs two states per
player beyond state 0, hence 4. Two messages of one page reach the reorder queue,
and a drain cut by its budget (`DrainBudget`, 1 in place of 100); one message each
way reaches an answer made in the step that consumes its question, and a terminal
handoff. A handoff acknowledged by a peer is not counted as an upset, so that it
meets a reload of either page. `MaxAcks` bounds the queued acks of duplicates.
Four moves, the first of them made off chain, let both players move on chain and
a move follow a redone one; a pot of 2 tells nothing, half and everything apart,
which are the cases of the settlement rules. A reorganisation is
shallower than the confirmation depth (`WatchAssumption`), which is what the depth is
for: `LetGoIsBuried` in `FullWatchInv` fails otherwise. Within it the instance has a
rollback past the creation of the second coin, past its spend, and to the height
of the last report. Heights to 3 with a timeout of 2 have a deadline that the
chain reaches and one that it does not, since each party adds the timeout to the
height it saw; a bundle whose deadline lies beyond the last height is set apart
in `FundingSettles` and `HonestOpen`.

The poller of `watch` is `Attentive`: between a reorganisation and the next block
it asks for the height and then for the coins, it had seen the chain before, and its
first answer is a height (the two timers of the code are independent, and
`runCoinPoll` does not wait for the other).
A poller that is slower than the chain meets `phantom_spend`; that run drops
the restriction.

`ViewFollows` is a refinement: `ChainWatch` implements `CoinView` with the state
of each coin on chain for `real` and the manager's watched coins for `watch`.
`CoinView` allows a handler to be told only the state a coin has at the
report; a rolled-back creation is not told at all, and a coin is let go of only
when it is spent.

### Disagreements

Each of these runs has one property, stating what a document or a comment of the
repository says, and a counterexample.

| Run | The code | The text |
|---|---|---|
| `forgotten_unroll` | when answering a batch fails the channel state is put back, `last_channel_coin_spend_info` is not (`session_phases/mod.rs:456`, 563), so go on chain publishes a state that the session does not recognise | `channel_state/mod.rs:122`, INTERNALS.md:329 |
| `shutdown_race` | after go on chain our own confirmed clean shutdown is a failure | ON_CHAIN.md:268 |
| `rejected_move` | a move parked during the unroll that the game's handler rejects fails the transition to the on-chain phase, which has been entered by then, and the watches, claims and redo moves of the transition are lost (`spend_channel_coin_phase.rs:1074`) | UX_NOTIFICATIONS.md:369 |
| `phantom_spend` | a coin whose creation is rolled back is reported as spent when it was first seen in a snapshot fresher than its height | `transaction_manager.rs:789` |
| `given_up` | a handshake that fails after its funding went out is terminal for the host, which stops its poller (`SessionController.ts:747`), so the channel coin that appears is not disputed | INTERNALS.md:270 |

`given_up` is a temporal counterexample under `FairSpec`. The poller is fair there for as
long as it runs, and the behaviour is one in which the host stopped it.

Met while modelling and not kept as runs:

* A queued cancel whose proposal is gone is an error of the drain, and blamed on
  the peer when a batch is being answered (`session_phases/mod.rs:1141`;
  GAME_LIFECYCLE.md:82 says it is skipped). The counterexample of
  `forgotten_unroll` starts with one.
* A queued move whose game is gone is an `Err` of the call that pops it
  (`on_chain.rs:1480`, 1578; ON_CHAIN.md:926 says that it is discarded). In the loop of
  `process_effects` nothing else is lost with it; in `process_queued_action` at the
  end of a handler, the effects of the handler are. `GameOnChain` has both.
* A player whose own clock ran out with a move pending is told `OpponentTimedOut`
  when the timeout pays it (`on_chain.rs:749`, 770, 1431), although
  UX_NOTIFICATIONS.md:466 and 471 and `effects.rs:134` keep that outcome for the
  opponent's clock and have `attempt_to_move_failed` for this one. `Story` states it as the one
  exception, `MoveTooLate`, and asks of every other `OpponentTimedOut` that the
  opponent was the mover.
* A proposal still queued when the session goes on chain is dropped by the
  on-chain phase (`on_chain.rs:1680`) and never resolved for its proposer
  (UX_NOTIFICATIONS.md:526).
* The initiator receives even states only, so it cannot preempt the unroll of
  state 0 (`channel_state/mod.rs:1693`; OVERVIEW.md:101). `NoRollback` states the
  exception.
* `resendUnacked` sends messages that no save holds yet
  (`SessionController.ts:1087`; FRONTEND_ARCHITECTURE.md:532).
* With a rival that spends the first coin (`Rivals = {"steal"}`) `SpendsTold`
  fails after a reorganisation; the header of `transaction_manager.rs` lists such
  cases as a current limitation.
* `requeue_submitted` discards a transaction past its expiry although a
  reorganisation can make it valid again, and a replayed creation is told to the
  handlers again (`transaction_manager.rs:17` says that repeated events should not
  be surfaced); INTERNALS.md:145-172 describes a `resubmit_pending` and an
  `auto_resubmit` that the code does not have.
* An initiator that never receives message F has no expiry: it is told nothing if
  the funding does not land, hence the condition on `expiry` in `FundingSettles`.
  `channel_established` (`game_session.rs:1075`) is not reset by a
  reorganisation.

The passing runs are restricted where the code is known to differ from what
their properties say:

* `polite` has no cancel, for the stale ones above, and its hosts answer no proposal after
  they asked to close the channel, as the front end has it (`GameSession.tsx:1228`). A
  host that does queues its accept behind the shutdown, which withdraws the proposal: the accept
  is then, like a stale cancel, blamed on the peer when a batch is being answered
  (`session_phases/mod.rs:488`; INTERNALS.md:325 calls it a local problem).
* `polite` has groups of one game: a queued group that an incoming proposal
  supersedes is cancelled for its first member only (`mod.rs:690`;
  UX_NOTIFICATIONS.md:524 promises it for each).
* `polite` has hosts that wait for their turn: the settlement that the receive
  path queues for a finished game (`mod.rs:795`) asks for no potato, and with an
  eager host it can wait without one (OVERVIEW.md:322 says that received
  messages queue nothing).
* `channel` has ample balances: an accept that runs short is told as accepted
  at once and, if the player leaves before its silent cancel is sent, told again
  as cancelled (`mod.rs:1635`).
* `HonestNeverStale`, a theorem of `Unroll`, says who is to blame for a stale resolution and not that the
  old state prevailed: `is_stale` looks at the unroll coin's state also when the
  coin was preempted (`spend_channel_coin_phase.rs:790`; ON_CHAIN.md:350
  describes the opposite).
* `UnrollsRecognised` holds in `polite`, where no drain fails while a batch is
  being answered; with one that does it is `forgotten_unroll`.
* `SameStream` excludes a page that was reloaded after the peer had seen a number
  its save does not hold (`forked`), which `resendUnacked` makes possible.
  `NumberedAsMade` excludes a page reloaded from a save taken while events were
  queued (`torn`): neither the debounced save nor `persistFullSession`
  (`useGameSession.ts:1059`) waits for the event queue, and the message that the
  saved cradle believes it sent is lost. It also sets the terminal command
  apart, which is numbered at once and may overtake queued messages
  (`SessionController.ts:729`).
* `RequestAnswered` and `ActionsLeaveQueue` ask that a request or a queued action is left behind, which an
  accusation, and so the end of the off-chain phase, also does.
* `games` has one game; what the queue does with actions of several games is covered by
  the theorems, which hold for any set of games and any `MaxPark`.
  `ReportedIsPaid` leaves out forfeits, which are told before the coin is paid.
  `GamesEnd` counts a game as ended for a player that gave it up: the coin may then
  stay unspent when its timeout pays only such players. It exempts a player that
  lost the effects of a call (`rejected_move`), who may not watch the coin at all.
* `NoEndedError` sets aside games that an old unroll lacks (`Missing`) and games in which
  a faulty opponent made a move that the player's referee raises on (`Garbled`): the
  code answers any `Err` of the referee with `EndedError` and does not slash
  (`on_chain.rs:1002`).
* `FundingSettles` asks nothing for a party whose host has stopped, and `PlayKept` nothing of
  what such a party would have heard.
* `ClaimsSubmitted` and `LaunchReplayed` set aside what the host drained and lost
  (`lost`): the manager takes a drained submission for submitted.

### Fairness

`PotatoChannel!Fairness`: the relay delivers what is in a stream, a host polls
while the poll changes something (every block does), stores the terminal handoff,
observes a confirmed spend, and the chain confirms one of the submitted spends.
Nothing is assumed of the players: no API call is fair. Each conjunct is weak
fairness with the guard written out, which TLC evaluates much faster.
`Unroll!Fairness`: the chain confirms, the unroll coin matures, an honest host
watches and its registered timeout claim is submitted.
`GameOnChain!Fairness`: the sessions see spends, claims are submitted once ripe and
the chain confirms; no player has to move. `ChainWatch!Fairness`: the poller's two
timers, the host's drain and the blocks. `Handshake!Fairness`: the transport
delivers, wallets answer (or fail), the poller reports the peak and blocks come; a
hostile party owes nothing, and a host that has stopped (failed, expired or left) neither polls nor
answers, since `NewBlock`, `NewHeight` and the wallet's actions are not enabled for it. In `GameOnChain` and `Handshake` every fair step uses
something up (a game has finitely many moves, a message is delivered once), so
weak fairness of their disjunction is weak fairness of each.

## 4. Proofs

### The off-chain channel

`PotatoProofs` proves that `Spec` implies `[]PotatoInv`, for every deposit, list of
game types and factories, choice of the types a player knows, set of moves, set of
API calls, budget of calls, limit on proposals and set of eager hosts. From it
follow `[]ExchangeInv`, `[]BalancesMirror` (the first half of `LedgersMirror`),
`[]FundsConserved`, `[]KnownStatesAgree` and `[]RecognisedUnlessAccused`, which the run
`channel` checks by themselves or as parts of `PotatoInv`. The last one bounds the disagreement
`forgotten_unroll`: a player who has not blamed its peer recognises every unroll.

What is assumed of the constants is their type, and that the first mover's share a
factory names is within the pot (`FactoryAssumption`). The code checks this of moves
and not of the factory's answer; without it a settlement could pay more than the
game holds.

`ExchangeInv` speaks of the potato and the numbers, and neither it nor the ledgers
can be carried from step to step alone: that a received batch leaves both sides with
one ledger depends on the signature being that of the sender's newest state, and that a
number stands for one state on who may make the next. `PotatoInv` says

* of one session: the states on record have different numbers, none above its own, and
  contain the last one sent and received (`RecordInv`); what is allocated is what
  the live games hold and the sum is the deposits (`LedgerInv`); the two potato
  flags agree, or nothing has come from the peer yet (`FlagsInv`: they start out
  different); the ledger is that of the state last sent, or, with the potato here and no
  failed drain, of the state last received (`HeldInv`);
* of both: there is never a second potato, whoever has left (`AtMostOne`), and there is one
  while both play (`AtLeastOne`); a batch in flight carries its sender's newest state,
  one ahead of its reader (`BatchInv`); nobody is ahead of the holder (`HolderInv`);
  the peer has on record what a player may publish (`SpendInv`).

The argument is about kinds of step. Seen from the peer, a step of a session leaves
the exchange alone (`Rests`), signs and sends a state (`Sends`), takes one up (`Receives`),
does both (`Answers`), or refuses one, or closes on it, and leaves (`Quits`). Each kind keeps the two
sessions together whatever else the step does, and each action is of one of
the kinds. That it is rests on what every operator of `ChannelState` keeps of a
record (`LedgerProofs`) and every operator of `OffChainPhase` of a session. The drain
and the application of a batch are recursive functions on positions; what they keep
follows from a least position at which they would not (`AlongIndices`), and so
does what the sum over the live games is after one is added, replaced or removed.

### The dispute

`UnrollProofs` proves, for every `MaxState` in `Nat` and every `Faulty` subset
of the players, that `Spec` implies `[]IInv`, and from it `[]TypeOK`,
`[]PreemptionAccepted`, `[]NoRollback`, `[]NeverFromFuture` and
`[]HonestNeverStale`. The run `unroll` checks `IInv` and `NoRollback`; the other
three follow from `IInv`.

The safety properties are not inductive. `NoRollback`, for instance, says nothing
of how an honest player in `UnrollTimeoutOrSpend` came to let the timeout pass.
`IInv` adds

* `ParityRule`: alice receives even states and bob odd ones, apart from state 0,
  because the potato alternates and each pass adds one;
* `Numbers`: a player is at most one state ahead of what it last received, and
  nobody holds what the other has not signed;
* `Submitted`: what is submitted was held, and an honest player submits the
  state it last received, after which it receives no more;
* `Reactions`: what an honest player's phase says of the unroll coin it saw;
* `OnChain`: where the coin came from, and, once it is settled, that it is not
  below what an honest player received.

The argument for `NoRollback`: an unroll older than the last received state is
either of the other parity, then it is preempted, and the unroll coin does not
mature while that preemption is pending; or of the same parity, which only
the receiver itself can have published, and an honest player publishes its
latest, unless it is state 0. The lemmas give one preservation proof per action.

Assumptions: signatures cannot be forged (a player holds only what it was
sent), and `unroll_timeout` is long enough for an honest player to see the
unroll coin and get an acceptable preemption confirmed (`Mature`); the code's
default of 15 blocks is meant to be (INTERNALS.md:46).

### The handshake

`HandshakeProofs` proves, for every `ChannelTimeout` and `MaxHeight` above 0 and
every `MaxPlay` and `MaxUpsets`, that `Spec` implies `[]FundingInv`, and from it
`[]FundedIsRecoverable` and `[]ExpiredIsFinal`. The run `handshake` checks all
three. Neither property is inductive: that an expired channel is never created
depends on which bundles are still somewhere, in a message, a queue, the receiver's
hands, an outbox or the mempool. `FundingInv` adds

* `Asking`: in which states a request to the wallet, or one that waits for a
  height, can be outstanding;
* `Signed`: the peer's signatures are stored before a party commits money;
* `Funding`: a half on its way holds until the initiator's deadline (`Offered`),
  and a whole funding anywhere is bound by the deadlines of both parties, which have
  finished, unless a hostile receiver kept it to itself (`Bound`);
* `Expiries`: what a session says of the coin; the expiry it goes by is its
  deadline, and once it gives up that deadline has passed and there is no coin.

The argument for `ExpiredIsFinal`: a party's deadline does not change once its part
of the funding is out, so whatever is in the mempool must be included before the
deadline of either party, and a party gives up only at a height the chain has
reached. A step that does not touch deadlines or states keeps every bundle bound
(`Steady`), so each action's lemma is about the bundle it makes or moves.

`HandshakeOrderProofs` proves, from the same assumptions, `Spec => []InStep`, and from
`InStep` together with `FundingInv` the properties `[]PlayKept` and `NoFalseError`, which
the run `handshake` checks as well. The
three places a message can be in (`heard`, `queue`, `net`) are read as one sequence
(`Coming`). `InStep` says that while both parties are honest, and a party has not cut
its peer off, this sequence is what the peer has made after the messages the party has
taken up: message by message the rest of A, C, E or B, D, F, then the play with its
numbers (`Due`, `InOrder`). The count of what is taken up and made is read off the
states (`Takes`, `Sends`). The delicate places are the initiator that has finished, for
which F may or may not have come, and a peer that moved on after it cut the party off,
which has made messages it never sent. A step either leaves the sequence alone (a
message is put back, or moves from the queue to what is heard), takes its first
message, or adds the one that is due; `StreamKept`, `ConsumeKeeps`, `BecomeOrdered` and
`OtherKeeps` prove these once and each action's lemma says which of them it is.

### The transaction manager

`WatchProofs` proves, for every `ChannelTimeout`, expiry, `ConfirmationDepth`, set
of rivals and number of reorganisations and upsets that `WatchAssumption` allows:

* for any poller, `[]BasicInv` and `[]AbandonedIsQuiet`: an abandoned session
  watches nothing, holds nothing to submit and hands nothing to the network;
* for an attentive one (`ASSUME Attentive` in the theorem), `[]FullWatchInv`, and
  from it `[]ManagerInv`, `ClaimsRipe` (an action property) and `ViewFollows`, the
  refinement of `CoinView`.

`Attentive` cannot be dropped: `phantom_spend` is a counterexample to the
refinement without it. It is an assumption about the host and not about the
manager, and every theorem that needs it says so.

The properties speak of what the manager tells and submits; that they hold depends
on what it remembers of a chain that may have changed since. `WatchInv` says

* `PollerKnows`: how the poller's two peaks and the manager's last height relate to
  the chain, and that an unseen reorganisation is one the next height poll shows;
* `BirthdaysTrue`, `SpendsTrue`: a birthday or a spend in the manager is the chain's,
  or lies above an unseen rollback, and above the height that rollback fell to;
* `SnapshotCovers`, `RollbackEpoch`: the heights that `report_coins` compares
  when it looks for a rollback cover all birthdays, and a rollback is dealt with once;
* `LiveIsTold`: the live set is what the session was told;
* `LetGoIsBuried`: a coin no longer watched was spent deeper than a
  reorganisation reaches.

The argument: a reorganisation leaves stale heights in the manager, each of them above
the new peak. An attentive poller reports that peak before the chain grows past
them, so `report_height` and then `report_coins` find them stale and forget them;
a report that finds no rollback therefore compares the coins with a memory that is
true. The refinement then goes step by step: a report leaves each watched coin told
as the chain has it, and every other step of `ChainWatch` leaves what was told alone.

### The transport

`TransportProofs` proves, for every number of messages, upsets and queued
duplicates and every drain budget, that `Spec` implies `[]TransportInv`, and from it
`[]DeliveryInv`, `[]SameStream` and `HandoffReachesPeer` (an action property).
Nothing is assumed beyond the two peers and the types of the bounds: frames may be
lost, repeated, late and out of order, saves may fail, and a page may reload at
any point. `[]FullTransportInv`, which adds the numbering, gives `[]NumberedAsMade`.

The properties relate one page to the peer's disk, while a step moves a page, a
snapshot of it that is being written, and the frames. `TransportInv` says

* `PagesOK`: the save on disk, the save being written and the page are states of one
  history, in that order; what is pending is in the book; the handoff number is that
  of the terminal message (`HandoffOK`); and the acknowledgement of a delivery that
  is not on disk is still queued, behind the ones that the flush in progress will
  send (`AcksWait`). The last part is what a failed or interrupted flush needs;
* `AckedIsSaved`: an acknowledgement on the wire is of a delivery on the disk of
  the page that sent it;
* `NothingDropped`: page, snapshot and save each hold as unacknowledged whatever
  the peer's disk lacks;
* `Streams`: what a peer consumed, queued for reordering, or is being sent is filed in
  the book under its number, unless a reload forked the numbering.

The argument: a step changes one peer's page, disk and outgoing frames
(`StepKeepsInv`), so it is enough that the page it makes is sound by itself and keeps
what the peer may still need. There is a lemma for each operator of `Transport`, and
an action composes them. A reload replaces the page by its save; unless the peer has seen
a number beyond that save (`forked`), whatever the peer holds is of the save's book.

The numbering is a fact about a page alone, but a reload makes the page from its
save, and the save was a snapshot. So `NumberingInv` says of each of the three that what
is in the book, then the events, is what the cradle made, in order (`InTurn`), and
that the terminal message, which may overtake, is still unacknowledged
(`HandoffKept`, `HandoffSaved`): a reload then finds it there (`QueueHandoff`) and does
not give it a second number. A message carries its place among those made
(`MadeInOrder`), so that no two are equal. The page that a reload makes is
whole unless the save held events (`torn`), which are not restored.

### The games on chain

`GameProofs` proves, for any set of games, any `Amount` and `MaxMoves` above 0, any
`MaxPark` and any sets of faulty and misled players, that `Spec` implies `[]GamesInv`,
and from it `[]OneTerminal`, `[]ReportedIsPaid`, `[]TurnsComplementary` and
`[]NoEndedError`. The run `games` checks all of them, and `StoriesTrue`.

`[]StoriesTrue` and `[](ClaimsHeld /\ ClaimsSound)` are proved under `ASSUME Orderly`:
a player parks at most one action during the unroll, or there is one game. With more, an
action that fails ends the loop that takes the queue, and the ones behind it wait for the next call, when
their game may have moved on: an accept may then arm a claim on a turn that is not the
player's. `ClaimsHeld` speaks of players who have lost nothing; that effects can be lost
with a single game, by a rejected move, is what `rejected_move` shows, and `GamesInv` holds
of such players as well.

The properties speak of what was told and claimed between calls; a call goes through
states in which none of it holds yet. So the invariant has two layers.
`GameInv(s, g)` is about a session `s` in the middle of a call, with the effects
collected so far:

* `TerminalInv`: nothing was told of a game that is tracked, and what the call is
  about to tell is one notification, and true (`TellingTrue`);
* `TurnInv`, `RefereeInv`, `PendingInv`: the entry's turn is that of its coin; the
  referee is at the coin, or one move of ours ahead, and then that move is the
  pending one;
* `MovesInv`: a player's submitted moves are of coins that come before the one it
  tracks, or the pending one of that coin. Without it a spend that answers a tracked
  coin could be an old move of the player's own, taken for the opponent's;
* `ArmedInv`, `ClaimInv`, `FinishedInv`: what an armed claim, an unspent coin and a
  finished game require.

`PoolInv` and `ChainInv` say what was submitted and what the chain confirmed of it, and
`UnrollInv` what a player may have parked. Each operator of `OnChainPhase` has a lemma
that it keeps `SessionInv` (`DoMoveKeeps`, `RegisterKeeps`, `SlashKeeps`,
`TrackNextKeeps`, …), the handler's are put together from them (`SpentKeeps`,
`FinishKeeps`, `QueueKeeps`, `DrainKeeps`, `FlushKeeps`), `DeliverKeeps` carries the result over to the state, and
`Undisturbed` says once that a player is not affected by what the other one submits
or the chain confirms. The queue is run by a recursive function on its positions;
what it keeps follows from a least position at which it would not, so no induction
over data is needed.

### Only model-checked

* Liveness: `SpendResolves`, `FundingSettles`, `HonestOpen`, `ClaimsSubmitted`,
  `LaunchReplayed`, `SpendsTold`, `GamesEnd`, `RequestAnswered`, `ActionsLeaveQueue` and
  `LeavingEnds`.
* The second half of `LedgersMirror`: proposals are not part of the signed state, so
  that they mirror follows from the batches themselves and not from the signatures
  that `PotatoInv` reasons with.
* `ResolvedAtMostOnce`, `NoAccusation`, `NothingStranded`, `UnrollsRecognised` and
  `SettlementsAgree` of `PotatoChannel`. They hold in the instances of their runs and
  not for all constants: see the restrictions above.

## 5. Not modelled

The rules of the games, encodings, hashing and CLVM, presentation, the hub's
matchmaking, the simulator's service; see `components` of `PROJECT.json`. The modules
meet at states and not in one composition: `Handshake` ends where
`PotatoChannel` begins (funded, state 0 signed by both), `PotatoChannel` ends where
the spend of the channel coin is recognised, `Unroll` where the unroll coin is spent, and
`GameOnChain` starts from every way in which that spend can find a game.
Consequences: actions still queued off chain are not carried into the on-chain
phase by one behaviour, a confirmed spend is reorganised away only in `ChainWatch`,
whose coins stand for those of the phases above it, and a session restarts from a
save only in `Transport`.

Liveness of the transport is not checked: after a failed send the flush is not
rescheduled until a keepalive, a duplicate or a reconnect (`SessionController.ts:1293`),
and frames are never removed from `net`, which makes its state space too large for
a temporal property with a useful bound.

## 6. Plan

1. The proposals of two sessions as one sequence of proposals, cancels and accepts,
   from which the second half of `LedgersMirror` follows for all constants.
2. An ordered stream as the abstract specification of `Transport`.
3. An abstract specification of the potato exchange, refined by `PotatoChannel` (by
   TLC) and by the exchange in `Unroll` (by proof).
