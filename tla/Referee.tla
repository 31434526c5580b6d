------------------------------ MODULE Referee ------------------------------
(***************************************************************************)
(* The referee: the puzzle that guards a game coin                         *)
(* (clsp/referee/onchain/referee.clsp) and each player's view of it        *)
(* (src/referee).                                                          *)
(*                                                                         *)
(* A position stands for the arguments curried into the puzzle, so two     *)
(* coins have the same puzzle hash exactly when they have the same         *)
(* position:                                                               *)
(*   n      moves made since the game began                                *)
(*   mover  whose turn it is (MOVER_PUBKEY)                                *)
(*   share  what the mover is paid by a timeout (MOVER_SHARE)              *)
(*   over   the last move ended the game (INFOHASH_B is nil)               *)
(*   legal  the validation program does not reject the last move           *)
(*   raises the last move makes the other player's referee raise: in the   *)
(*          validation program, in the handler or on a hash                *)
(*                                                                         *)
(* A referee is one player's:                                              *)
(*   mine    it is Referee::MyTurn                                         *)
(*   create  args_for_this_coin                                            *)
(*   spend   spend_this_coin, where the game goes on from                  *)
(***************************************************************************)
EXTENDS Naturals, FiniteSets

CONSTANTS
    Amount,    \* the game's amount
    MaxMoves   \* bound on the moves of a game; the last one ends it

Party == {"alice", "bob"}

Other(p) == IF p = "alice" THEN "bob" ELSE "alice"

ASSUME AmountAssumption == Amount \in Nat \ {0}

ASSUME MaxMovesAssumption == MaxMoves \in Nat \ {0}

Positions ==
    {pos \in [n : 0..MaxMoves, mover : Party, share : 0..Amount,
              over : BOOLEAN, legal : BOOLEAN, raises : BOOLEAN] :
        pos.n = MaxMoves => pos.over}

Referees == [mine : BOOLEAN, create : Positions, spend : Positions]

-----------------------------------------------------------------------------
(***************************************************************************)
(* The puzzle.  A spend of a game coin is                                  *)
(*   coin  the position spent                                              *)
(*   k     "Move", "Timeout" or "Slash"                                    *)
(*   to    the position a move creates                                     *)
(*   pay   what a timeout or a slash pays each player                      *)
(***************************************************************************)

Nothing == [p \in Party |-> 0]

Move(pos, to) == [coin |-> pos, k |-> "Move", to |-> to, pay |-> Nothing]

TimeoutSpend(pos) ==
    [coin |-> pos, k |-> "Timeout", to |-> pos,
     pay  |-> [p \in Party |-> IF p = pos.mover THEN pos.share
                               ELSE Amount - pos.share]]

SlashSpend(pos) ==
    [coin |-> pos, k |-> "Slash", to |-> pos,
     pay  |-> [Nothing EXCEPT ![pos.mover] = Amount]]

Spends ==
    [coin : Positions, k : {"Move", "Timeout", "Slash"}, to : Positions,
     pay : [Party -> 0..Amount]]

\* Whether the chain accepts the spend of a coin that has, or has not, reached
\* TIMEOUT blocks: ASSERT_HEIGHT_RELATIVE for a timeout,
\* ASSERT_BEFORE_HEIGHT_RELATIVE and a non-nil INFOHASH_B for a move, and for
\* a slash that the previous validation program rejects the move.
PuzzleAccepts(sp, mature) ==
    CASE sp.k = "Move"    -> ~mature /\ ~sp.coin.over
      [] sp.k = "Timeout" -> mature
      [] sp.k = "Slash"   -> ~sp.coin.legal

\* The player the first CREATE_COIN of a timeout or a slash pays: the mover
\* unless its share is zero.
FirstPaid(sp) ==
    IF sp.pay[sp.coin.mover] > 0 THEN sp.coin.mover ELSE Other(sp.coin.mover)

-----------------------------------------------------------------------------
(***************************************************************************)
(* A player's referee.                                                     *)
(***************************************************************************)

\* is_game_over: the last move consumed the game handler.
IsGameOver(ref) == ref.spend.over

\* get_our_current_share
OurCurrentShare(ref) ==
    IF ref.mine THEN ref.spend.share ELSE Amount - ref.spend.share

\* The position after a move from pos.  Games are finite.  k is "Move",
\* "Cheat" for a move the validation program rejects, or "Garble" for one the
\* other player's referee raises on.
After(pos, share, over, k) ==
    [n |-> pos.n + 1, mover |-> Other(pos.mover), share |-> share,
     over |-> over \/ pos.n + 1 = MaxMoves, legal |-> k # "Cheat",
     raises |-> k = "Garble"]

\* What the game's handler may make of a player's choice: the share left to
\* the next mover and whether the game is over.
GameMoves(pos) ==
    [share : 0..Amount, over : IF pos.n + 1 < MaxMoves THEN BOOLEAN ELSE {TRUE}]

\* my_turn_make_move.  With enable_cheating the handler is bypassed and kept,
\* so the game is never over after it.
MyTurnMakeMove(ref, mv, k) ==
    [mine   |-> FALSE,
     create |-> ref.spend,
     spend  |-> After(ref.spend, mv.share, mv.over, k)]

\* their_turn_coin_spent, for a move accepted on chain: the coin that the next
\* spend starts from is the one the move created.
TheirMoveOnChain(to) == [mine |-> TRUE, create |-> to, spend |-> to]

\* Mutant: the claim is always made for the position the game goes on from.
TimeoutArgsOutcome(ref, coin) == ref.spend

\* get_transaction_for_timeout: the position whose puzzle the claim of the
\* coin reveals.  The spend is valid only when that is the coin's own.
TimeoutArgs(ref, coin) ==
    IF coin = ref.spend /\ coin # ref.create THEN ref.spend ELSE ref.create
=============================================================================
