----------------------------- MODULE ChannelState -----------------------------
(***************************************************************************)
(* The state one player keeps about the channel (struct ChannelState of    *)
(* src/channel_state/mod.rs) and the operations that change it, as pure    *)
(* operators from a channel record to a channel record.                    *)
(*                                                                         *)
(* The code writes every record from the owner's side (my_..., their_...). *)
(* Here each such pair is a function on Party, so that a record of alice   *)
(* and a record of bob that describe the same state are equal.  A half     *)
(* signature is the commitment it signs: verifying it against the state    *)
(* the receiver computes is comparing two commitments.                     *)
(***************************************************************************)
EXTENDS Integers, Sequences, SequencesExt

CONSTANTS
    Deposit,      \* [Party -> Nat]: what each player puts in the channel coin
    Factory,      \* game type -> sequence of the games its factory returns
    MaxProposals  \* const MAX_PROPOSALS: outstanding proposals a receiver holds

\* alice is the handshake's initiator, bob its receiver.
Party == {"alice", "bob"}

Other(p) == IF p = "alice" THEN "bob" ELSE "alice"

GameTypes == DOMAIN Factory

ASSUME DepositAssumption == Deposit \in [Party -> Nat]

FactoryGames ==
    {f \in [sender : Nat, receiver : Nat, sender_goes_first : BOOLEAN, mover_share : Nat] :
        f.mover_share <= f.sender + f.receiver}

\* A factory that returns no games is refused.  That its first share is within
\* the pot is left to the factory: the code checks this of moves only.
ASSUME FactoryAssumption ==
    \A t \in GameTypes : /\ Len(Factory[t]) \in Nat \ {0}
                         /\ DOMAIN Factory[t] = 1..Len(Factory[t])
                         /\ \A i \in DOMAIN Factory[t] : Factory[t][i] \in FactoryGames

ASSUME MaxProposalsAssumption == MaxProposals \in Nat \ {0}

(***************************************************************************)
(* Games.  One record serves as ProposedGame and as LiveGame: the code     *)
(* moves the referee from the one into the other.  share is the            *)
(* mover_share of the last move, the part of the pot that belongs to the   *)
(* player whose turn it is; over says that the game handler is used up.    *)
(***************************************************************************)
GameStart(t, i, id, group, sender) ==
    LET f == Factory[t][i] IN
    [id      |-> id,
     group   |-> group,
     contrib |-> [q \in Party |-> IF q = sender THEN f.sender ELSE f.receiver],
     turn    |-> IF f.sender_goes_first THEN sender ELSE Other(sender),
     share   |-> f.mover_share,
     moves   |-> 0,
     over    |-> FALSE]

Amount(g) == g.contrib["alice"] + g.contrib["bob"]

\* Mutant: the share is read as ours whoever is to move.
CurrentShareAnyTurn(g, p) == g.share

\* Referee::get_our_current_share
CurrentShare(g, p) == IF g.turn = p THEN g.share ELSE Amount(g) - g.share

Shares(g) == [q \in Party |-> CurrentShare(g, q)]

Ids(games) == {games[i].id : i \in DOMAIN games}

Index(games, id) == CHOOSE i \in DOMAIN games : games[i].id = id

Find(games, id) == games[Index(games, id)]

Without(games, id) == RemoveAt(games, Index(games, id))

\* The members of s that are in T, in their order: SelectSeq, in a form that
\* can be reasoned about.
Among(s, T) ==
    LET kept[i \in 0..Len(s)] ==
            IF i = 0 THEN << >>
            ELSE IF s[i] \in T THEN Append(kept[i - 1], s[i]) ELSE kept[i - 1]
    IN  kept[Len(s)]

Plus(f, g) == [q \in Party |-> f[q] + g[q]]

Minus(f, g) == [q \in Party |-> f[q] - g[q]]

\* What the players have staked in games.
Total(games) ==
    LET sum[i \in 0..Len(games)] ==
            IF i = 0 THEN [q \in Party |-> 0] ELSE Plus(sum[i - 1], games[i].contrib)
    IN  sum[Len(games)]

Covers(f, g) == \A q \in Party : g[q] <= f[q]

(***************************************************************************)
(* The commitment a state update signs: the state number, both players'    *)
(* balances and the referee coins of the live games, in order.             *)
(***************************************************************************)
Commitment(ch, sn) == [sn |-> sn, bal |-> ch.bal, games |-> ch.live]

\* ChannelState::new followed by verify_and_store_initial_peer_signatures.
\* The receiver is created with we_start_with_potato and numbers its games
\* from 0; the initiator numbers its games from 1.
NewChannelState(p) ==
    LET start == [sn |-> 0, bal |-> Deposit, games |-> << >>] IN
    [me          |-> p,
     bal         |-> Deposit,
     alloc       |-> [q \in Party |-> 0],
     have_potato |-> p = "bob",
     redo        |-> << >>,
     sn          |-> 0,
     my_nonce    |-> IF p = "bob" THEN 0 ELSE 1,
     their_nonce |-> IF p = "bob" THEN 1 ELSE 0,
     sent        |-> start,
     received    |-> start,
     known       |-> {start},
     live        |-> << >>,
     pending     |-> {},
     proposed    |-> << >>]

IsOurNonceParity(ch, id) == id % 2 = ch.my_nonce % 2

HasActiveGames(ch) == ch.live # << >>

HasZeroPayout(ch) == ch.bal[ch.me] = 0 /\ ~HasActiveGames(ch)

IsProposed(ch, id) == id \in Ids(ch.proposed)

\* game_is_my_turn: Some(true) for a live game, or else a proposed one.
GameIsMyTurn(ch, id) ==
    IF id \in Ids(ch.live) THEN Find(ch.live, id).turn = ch.me
    ELSE IsProposed(ch, id) /\ Find(ch.proposed, id).turn = ch.me

Group(ch, id) ==
    Among(ch.proposed,
          {g \in ToSet(ch.proposed) : g.group = Find(ch.proposed, id).group})

GroupMemberIds(ch, id) == [i \in DOMAIN Group(ch, id) |-> Group(ch, id)[i].id]

PendingPeerProposal(ch) ==
    \E id \in Ids(ch.proposed) : ~IsOurNonceParity(ch, id)

IsGameFinished(ch, id) ==
    LET g == Find(ch.live, id) IN g.turn = ch.me /\ g.over

-----------------------------------------------------------------------------
(***************************************************************************)
(* Operations.  An operation that can fail in the code has a predicate     *)
(* Can... that says when it returns Ok.                                    *)
(***************************************************************************)

\* send_propose_game for each game of a group.
SendProposeGames(ch, games) == [ch EXCEPT !.proposed = @ \o games]

MaxNonceGap == 1000

\* apply_received_proposal for each game of a group, one failure of which
\* fails the batch: parity, monotonicity, no jump, and the proposal limit.
CanApplyProposals(ch, games) ==
    /\ \A i \in DOMAIN games :
          LET next == IF i = 1 THEN ch.their_nonce ELSE games[i - 1].id + 2 IN
          /\ games[i].id % 2 = ch.their_nonce % 2
          /\ games[i].id \in next .. (next + MaxNonceGap)
    /\ Len(ch.proposed) + Len(games) <= MaxProposals

ApplyReceivedProposals(ch, games) ==
    [ch EXCEPT !.their_nonce = games[Len(games)].id + 2, !.proposed = @ \o games]

\* accept_proposal_inner: both players' stakes must be free, and move from
\* the out-of-game balances to the allocated ones.
CanAccept(ch, id) ==
    IsProposed(ch, id) /\ Covers(ch.bal, Find(ch.proposed, id).contrib)

AcceptProposalInner(ch, id) ==
    LET g == Find(ch.proposed, id) IN
    [ch EXCEPT !.proposed = Without(@, id),
               !.bal      = Minus(@, g.contrib),
               !.alloc    = Plus(@, g.contrib),
               !.live     = Append(@, g)]

SendAcceptProposal(ch, id) ==
    [AcceptProposalInner(ch, id) EXCEPT !.redo =
        Append(@, [k |-> "ProposalAccepted", id |-> id])]

CanApplyAccept(ch, id) == IsOurNonceParity(ch, id) /\ CanAccept(ch, id)

\* send_cancel_proposal and received_cancel_proposal
RemoveProposal(ch, id) == [ch EXCEPT !.proposed = Without(@, id)]

CancelAllProposals(ch) == [ch EXCEPT !.proposed = << >>]

\* One move: the referee passes the turn, and the mover names the share of
\* the player who moves next: here, the whole pot (give) or nothing.
Advance(g, mv) == [g EXCEPT !.turn  = Other(@),
                            !.share = IF mv.give THEN Amount(g) ELSE 0,
                            !.moves = @ + 1,
                            !.over  = mv.final]

Played(games, id, mv) == [games EXCEPT ![Index(games, id)] = Advance(@, mv)]

\* send_move_no_finalize: no live game and a game that is over are errors.
CanMove(ch, id) ==
    /\ id \in Ids(ch.live)
    /\ Find(ch.live, id).turn = ch.me
    /\ ~Find(ch.live, id).over

SendMove(ch, id, mv) ==
    [ch EXCEPT !.live = Played(@, id, mv),
               !.redo = Append(@, [k |-> "CachedSendMove", id |-> id])]

\* apply_received_move: an illegal move (the validator's verdict, or a share
\* above the pot) is answered by a slash, which off chain is an error.
CanApplyMove(ch, id, mv) ==
    /\ id \in Ids(ch.live)
    /\ Find(ch.live, id).turn # ch.me
    /\ ~Find(ch.live, id).over
    /\ mv.legal

ApplyReceivedMove(ch, id, mv) == [ch EXCEPT !.live = Played(@, id, mv)]

\* Mutant: the stakes of a settled game stay allocated.
SettleKeepingStakes(ch, id) ==
    LET g == Find(ch.live, id) IN
    [ch EXCEPT !.live    = Without(@, id),
               !.bal     = Plus(@, Shares(g)),
               !.pending = @ \cup {id}]

\* A settled game pays both players their current shares.
Settle(ch, id) ==
    LET g == Find(ch.live, id) IN
    [ch EXCEPT !.live    = Without(@, id),
               !.alloc   = Minus(@, g.contrib),
               !.bal     = Plus(@, Shares(g)),
               !.pending = @ \cup {id}]

\* send_accept_settlement_no_finalize: with the potato, on our turn.
CanSettle(ch, id) ==
    /\ ch.have_potato
    /\ id \in Ids(ch.live)
    /\ Find(ch.live, id).turn = ch.me

SendAcceptSettlement(ch, id) ==
    LET g == Find(ch.live, id) IN
    [Settle(ch, id) EXCEPT !.redo =
        Append(@, [k   |-> "CachedAcceptSettlement",
                   id  |-> id,
                   amt |-> CurrentShare(g, ch.me),
                   pot |-> Amount(g)])]

CanApplySettlement(ch, id) ==
    id \in Ids(ch.live) /\ Find(ch.live, id).turn # ch.me

\* drain_cached_accept_settlements: the drained entries and what is left.
CachedSettlements(ch) == {e \in ToSet(ch.redo) : e.k = "CachedAcceptSettlement"}

DrainCachedSettlements(ch) ==
    [ch EXCEPT !.redo = Among(@, ToSet(@) \ CachedSettlements(ch))]

\* record_unroll_puzzle_hash_for: the peer may publish any state it was ever
\* sent, so every state is kept.
RecordUnroll(ch, c) == [ch EXCEPT !.known = @ \cup {c}]

\* Mutant: the state sent is not remembered in the unroll map.
UpdateCachedUnrollStateForgetting(ch) ==
    [ch EXCEPT !.sn = @ + 1, !.sent = Commitment(ch, ch.sn + 1),
               !.have_potato = FALSE]

\* update_cached_unroll_state: number, remember and sign the next state.
UpdateCachedUnrollState(ch) ==
    LET c == Commitment(ch, ch.sn + 1) IN
    [RecordUnroll(ch, c) EXCEPT !.sn = @ + 1, !.sent = c, !.have_potato = FALSE]

\* Mutant: a received state is not numbered.
ReceiveSignedStateUnnumbered(ch) ==
    LET c == Commitment(ch, ch.sn + 1) IN
    [RecordUnroll(ch, c) EXCEPT
        !.pending = {}, !.received = c, !.have_potato = TRUE,
        !.redo = Among(@, CachedSettlements(ch))]

\* verify_received_batch_signatures over received_potato_verify_signatures.
CanVerify(ch, sig) == sig = Commitment(ch, ch.sn + 1)

ReceiveSignedState(ch) ==
    LET c == Commitment(ch, ch.sn + 1) IN
    [RecordUnroll(ch, c) EXCEPT
        !.pending = {}, !.sn = @ + 1, !.received = c, !.have_potato = TRUE,
        !.redo = Among(@, CachedSettlements(ch))]
=============================================================================
