---------------------------- MODULE GameOnChain ----------------------------
(***************************************************************************)
(* Games played out on chain: two OnChainPhases and the coins between      *)
(* them.  The unroll coin has been spent and has created the game coins;   *)
(* each player comes to see that, and every later spend, in its own time.  *)
(* The chain spends a coin with any of the submitted spends the puzzle     *)
(* accepts, so a late move races the opponent's timeout claim and a slash  *)
(* races the cheat's.                                                      *)
(***************************************************************************)
EXTENDS OnChainPhase

CONSTANTS
    Faulty,    \* players who may cheat
    Misled,    \* players whose node may fail to return a spend
    MaxPark    \* bound on the actions a player parks during the unroll

ASSUME FaultyAssumption == Faulty \subseteq Party /\ Misled \subseteq Party

ASSUME MaxParkAssumption == MaxPark \in Nat

VARIABLES
    start,   \* how each game stood off chain, for each player
    phase,   \* [Party -> {"Unroll", "OnChain"}]
    sess,    \* the sessions
    asked,   \* [Party -> [Games -> BOOLEAN]]: RequestPuzzleAndSolution is out
    coin,    \* [Games -> the unspent coin, or how the last was paid out]
    mature,  \* [Games -> BOOLEAN]: the coin has reached its timeout
    spent,   \* [Games -> the spends confirmed]
    pool,    \* [Games -> the moves and slashes submitted]
    watched, \* [Party -> the coins the transaction manager watches]
    claims,  \* [Party -> the timeout claims it holds]
    told,    \* [Party -> [Games -> the terminal notifications]]
    lost     \* [Party -> BOOLEAN]: a call returned Err and lost its effects

chain == <<coin, mature, spent>>

vars == <<start, phase, sess, asked, coin, mature, spent, pool, watched, claims,
          told, lost>>

Honest == Party \ (Faulty \cup Misled)

\* A game the players have made one move in, so that the position its coin
\* was created at and the one the referees go on from differ.
Before(m) ==
    [n |-> 0, mover |-> Other(m), share |-> 0, over |-> FALSE, legal |-> TRUE,
     raises |-> FALSE]

StartPositions == {pos \in Positions : pos.n = 1 /\ pos.legal /\ ~pos.raises}

\* What the unroll finds of a game whose coin is at pos.  The waiter's referee
\* is where its own last move left it; the mover may have gone on.
Starts(pos) ==
    LET at(p) == [coin |-> pos, how |-> "Latest",
                  ref  |-> [mine |-> p = pos.mover, create |-> Before(pos.mover),
                            spend |-> pos]]
        with(st) == [p \in Party |-> IF p = pos.mover THEN st ELSE at(p)]
        redo(mv) == [coin |-> pos, how |-> "Redo",
                     ref  |-> MyTurnMakeMove(at(pos.mover).ref, mv, "Move")] IN
    {with(at(pos.mover)), with([at(pos.mover) EXCEPT !.how = "Settling"])}
        \cup (IF pos.over THEN {} ELSE {with(redo(mv)) : mv \in GameMoves(pos)})

\* A game the unroll has no coin of: the state from after its settlement,
\* from before its acceptance, or an old one that a faulty player published
\* while the other was away.
GoneStarts(pos) ==
    LET gone(p, how) == [how |-> how, coin |-> Absent,
                         ref |-> [mine |-> p = pos.mover, create |-> Before(pos.mover),
                                  spend |-> pos]] IN
    {[p \in Party |-> gone(p, IF p = pos.mover THEN how ELSE "Unheard")] :
        how \in {"Resolved", "InFlight"}}
    \cup {[p \in Party |-> gone(p, "Missing")] : x \in Faulty}

Init ==
    /\ start \in [Games -> UNION {Starts(pos) \cup GoneStarts(pos) :
                                     pos \in StartPositions}]
    /\ phase = [p \in Party |-> "Unroll"]
    /\ sess = [p \in Party |-> Parked(p, [g \in Games |-> start[g][p]])]
    /\ asked = [p \in Party |-> [g \in Games |-> FALSE]]
    /\ coin = [g \in Games |-> start[g]["alice"].coin]
    /\ mature = [g \in Games |-> FALSE]
    /\ spent = [g \in Games |-> {}]
    /\ pool = [g \in Games |-> {}]
    /\ watched = [p \in Party |-> {}]
    /\ claims = [p \in Party |-> {}]
    /\ told = [p \in Party |-> [g \in Games |-> << >>]]
    /\ lost = [p \in Party |-> FALSE]

-----------------------------------------------------------------------------
(***************************************************************************)
(* The players.                                                            *)
(***************************************************************************)

\* The effects of s are carried out.
CarryOut(p, s) ==
    /\ sess' = [sess EXCEPT ![p] = NoEffects(s)]
    /\ pool' = [g \in Games |-> pool[g] \cup s.spends[g]]
    /\ watched' = [watched EXCEPT ![p] = @ \cup s.watch]
    /\ claims' = [claims EXCEPT ![p] = @ \cup s.claims]
    /\ told' = [told EXCEPT ![p] = [g \in Games |-> told[p][g] \o s.told[g]]]

\* The host's part of a call: the effects of one that returns Err are lost,
\* and what is left of the queue is taken.
Deliver(p, result) ==
    \E r \in {result} : \E s \in {Flush(r)} :
        /\ CarryOut(p, s)
        /\ lost' = [lost EXCEPT ![p] = @ \/ r.err]

\* A call of the player's own.  One that returns Err (ActionFailed,
\* MoveRejected) is as if it had not been made.
Answer(p, result) ==
    \E r \in {result} : Deliver(p, IF r.err THEN sess[p] ELSE r)

\* What a player may choose in a game whose coin is at pos: a move, or
\* something the game's handler rejects.
Choices(g, pos) ==
    {[k |-> "Rejected", g |-> g]} \cup
        {[k |-> "Move", g |-> g, mv |-> mv] : mv \in GameMoves(pos)}

\* park_move and park_accept_settlement, offered on our turn.
Park(p) ==
    /\ phase[p] = "Unroll"
    /\ Len(sess[p].queue) < MaxPark
    /\ \E g \in Games :
          /\ start[g][p].how \in {"Latest", "Missing"} /\ start[g][p].ref.mine
          /\ \A i \in DOMAIN sess[p].queue : sess[p].queue[i].g # g
          /\ \E a \in {[k |-> "AcceptSettlement", g |-> g]} \cup
                      (IF start[g][p].ref.spend.over THEN {}
                       ELSE Choices(g, start[g][p].ref.spend)) :
                sess' = [sess EXCEPT ![p].queue = Append(@, a)]
    /\ UNCHANGED <<start, phase, asked, chain, pool, watched, claims, told, lost>>

\* The player learns of the unroll coin's spend.
Transition(p) ==
    /\ phase[p] = "Unroll"
    /\ phase' = [phase EXCEPT ![p] = "OnChain"]
    /\ Deliver(p, FinishOnChainTransition(sess[p], [g \in Games |-> start[g][p]]))
    /\ UNCHANGED <<start, asked, chain>>

\* The player's turn, as the interface shows it.
MayAct(p, g) ==
    /\ phase[p] = "OnChain"
    /\ Tracked(sess[p], g)
    /\ sess[p].map[g].our_turn /\ ~sess[p].map[g].armed
    /\ ~HasPending(sess[p], g, sess[p].map[g].coin)

\* make_move
MakeMove(p, g) ==
    /\ MayAct(p, g)
    /\ ~sess[p].map[g].finished
    /\ \E a \in Choices(g, sess[p].map[g].coin) :
          Answer(p, DoOnChainAction(sess[p], a))
    /\ UNCHANGED <<start, phase, asked, chain>>

\* cheat_game.  A faulty player may also make a move that no handler makes, one
\* the opponent's referee raises on.
CheatGame(p, g) ==
    /\ p \in Faulty
    /\ MayAct(p, g)
    /\ sess[p].map[g].coin.n + 1 < MaxMoves /\ ~sess[p].map[g].finished
    /\ \E share \in 0..Amount, k \in {"Cheat", "Garble"} :
          Answer(p, DoOnChainAction(sess[p], [k |-> k, g |-> g,
                        mv |-> [share |-> share, over |-> FALSE]]))
    /\ UNCHANGED <<start, phase, asked, chain>>

\* accept_settlement
AcceptSettlement(p, g) ==
    /\ MayAct(p, g)
    /\ Answer(p, DoOnChainAction(sess[p], [k |-> "AcceptSettlement", g |-> g]))
    /\ UNCHANGED <<start, phase, asked, chain>>

\* The transaction manager tells of the spend of a coin it watches, and
\* coin_spent asks about a coin of the map.
SeenSpent(p, g) ==
    /\ ~asked[p][g]
    /\ \E sp \in spent[g] :
          Tracks(sess[p], g, sp.coin) /\ [g |-> g, coin |-> sp.coin] \in watched[p]

\* new_block, with the spends of the coins of some games.
NewBlock(p) ==
    /\ phase[p] = "OnChain"
    /\ \E gs \in SUBSET {g \in Games : SeenSpent(p, g)} :
          asked' = [asked EXCEPT ![p] = [g \in Games |-> g \in gs \/ @[g]]]
    /\ Deliver(p, sess[p])
    /\ UNCHANGED <<start, phase, chain>>

\* coin_puzzle_and_solution
CoinPuzzleAndSolution(p, g) ==
    /\ asked[p][g]
    /\ asked' = [asked EXCEPT ![p][g] = FALSE]
    /\ \E sp \in spent[g] :
          /\ Tracks(sess[p], g, sp.coin)
          /\ Deliver(p, HandleGameCoinSpent(sess[p], g, sp))
    /\ UNCHANGED <<start, phase, chain>>

CoinUnanswered(p, g) ==
    /\ p \in Misled
    /\ asked[p][g]
    /\ Tracked(sess[p], g)
    /\ asked' = [asked EXCEPT ![p][g] = FALSE]
    /\ Deliver(p, CoinSpentUnknown(sess[p], g))
    /\ UNCHANGED <<start, phase, chain>>

\* The answer for a coin given up meanwhile is ignored.
CoinForgotten(p, g) ==
    /\ phase[p] = "OnChain"
    /\ asked[p][g] /\ ~Tracked(sess[p], g)
    /\ asked' = [asked EXCEPT ![p][g] = FALSE]
    /\ Deliver(p, sess[p])
    /\ UNCHANGED <<start, phase, chain>>

-----------------------------------------------------------------------------
(***************************************************************************)
(* The chain (external).                                                   *)
(***************************************************************************)

Unspent(g) == coin[g] \in Positions

Mature(g) ==
    /\ Unspent(g) /\ ~mature[g]
    /\ mature' = [mature EXCEPT ![g] = TRUE]
    /\ UNCHANGED <<start, phase, sess, asked, coin, spent, pool, watched, claims,
                   told, lost>>

Confirm(g, sp) ==
    /\ Unspent(g) /\ sp.coin = coin[g]
    /\ PuzzleAccepts(sp, mature[g])
    /\ coin' = [coin EXCEPT ![g] = IF sp.k = "Move" THEN sp.to ELSE sp]
    /\ mature' = [mature EXCEPT ![g] = FALSE]
    /\ spent' = [spent EXCEPT ![g] = @ \cup {sp}]
    /\ UNCHANGED <<start, phase, sess, asked, pool, watched, claims, told, lost>>

ConfirmSpend(g) == \E sp \in pool[g] : Confirm(g, sp)

\* A claim whose puzzle is not the coin's is not valid.
ConfirmClaim(p, g) ==
    \E c \in claims[p] :
        c.g = g /\ c.args = c.coin /\ Confirm(g, TimeoutSpend(c.coin))

Next ==
    \/ \E p \in Party : Park(p) \/ Transition(p) \/ NewBlock(p)
    \/ \E p \in Party, g \in Games :
          \/ MakeMove(p, g) \/ CheatGame(p, g) \/ AcceptSettlement(p, g)
          \/ CoinPuzzleAndSolution(p, g)
          \/ CoinUnanswered(p, g) \/ CoinForgotten(p, g)
          \/ ConfirmClaim(p, g)
    \/ \E g \in Games : Mature(g) \/ ConfirmSpend(g)

Spec == Init /\ [][Next]_vars

\* Hosts keep watching, the transaction manager keeps submitting and the chain
\* keeps confirming; nobody has to move.  A game is finite, so the steps of
\* Progress run out, and fairness of them together is fairness of each.
Progress ==
    \/ \E p \in Party : Transition(p) \/ NewBlock(p)
    \/ \E p \in Party, g \in Games :
          CoinPuzzleAndSolution(p, g) \/ CoinForgotten(p, g) \/ ConfirmClaim(p, g)
    \/ \E g \in Games : Mature(g) \/ ConfirmSpend(g)

Fairness == WF_vars(Progress)

FairSpec == Spec /\ Fairness

-----------------------------------------------------------------------------
Entries ==
    {Absent} \cup
    [k : {"Entry"}, coin : Positions, our_turn : BOOLEAN, finished : BOOLEAN,
     armed : BOOLEAN, slash : BOOLEAN, cheat_share : 0..Amount]

Pendings ==
    {Absent} \cup [k : {"Pending"}, coin : Positions, expected : Positions, ref : Referees]

Acts(moves) ==
    [k : {"AcceptSettlement", "Rejected"}, g : Games]
        \cup [k : moves, g : Games, mv : [share : 0..Amount, over : BOOLEAN]]

Actions == Acts({"Move", "Cheat", "Garble"})

Tellings == [outcome : Outcomes, share : 0..Amount]

Watches == [g : Games, coin : Positions]

Claims == [g : Games, coin : Positions, args : Positions]

\* Nobody cheats through the queue.
Sessions ==
    [me : Party, map : [Games -> Entries], ref : [Games -> Referees],
     last : [Games -> Positions], pend : [Games -> Pendings], queue : Seq(Acts({"Move"})),
     told : [Games -> Seq(Tellings)], spends : [Games -> SUBSET Spends],
     watch : SUBSET Watches, claims : SUBSET Claims, err : BOOLEAN, stop : BOOLEAN]

\* The sessions and the chain hold what the code's fields can hold.
TypeOK ==
    /\ phase \in [Party -> {"Unroll", "OnChain"}]
    /\ sess \in [Party -> Sessions]
    /\ asked \in [Party -> [Games -> BOOLEAN]]
    /\ coin \in [Games -> Positions \cup Spends \cup {Absent}]
    /\ mature \in [Games -> BOOLEAN]
    /\ spent \in [Games -> SUBSET Spends]
    /\ pool \in [Games -> SUBSET Spends]
    /\ watched \in [Party -> SUBSET Watches]
    /\ claims \in [Party -> SUBSET Claims]
    /\ told \in [Party -> [Games -> Seq(Tellings)]]
    /\ lost \in [Party -> BOOLEAN]

\* UX_NOTIFICATIONS.md, Rule B: a game ends at most once for each player,
\* however accepts, forfeits, late moves and slashes race.
OneTerminal == \A p \in Party, g \in Games : Len(told[p][g]) <= 1

Paid(g, p) == IF coin[g] \in Spends THEN coin[g].pay[p] ELSE 0

Forfeits == {"ForfeitedSkippedReveal", "ForfeitedOpponentWon", "ForfeitedWeAccepted"}

\* Outcomes that are not about how the game coin was paid out.
WithoutCoin == Forfeits \cup {"EndedError", "EndedCancelled", "AcceptSettlement"}

\* The share a player is told is what the chain paid it; only a forfeit, and
\* the end of a game that never reached the chain, is told before the coin is
\* paid out.
ReportedIsPaid ==
    \A p \in Party, g \in Games : \A i \in DOMAIN told[p][g] :
        told[p][g][i].outcome \notin WithoutCoin =>
            coin[g] \in Spends /\ told[p][g][i].share = Paid(g, p)

\* ON_CHAIN.md: both players have complementary our_turn values for a coin.
\* (While a player slashes, its flag is down though the turn is its own.)
TurnsComplementary ==
    \A g \in Games : \A p, q \in Party :
        p # q /\ Tracked(sess[p], g) /\ Tracked(sess[q], g) =>
            LET mine == sess[p].map[g]
                his  == sess[q].map[g] IN
            mine.coin = his.coin /\ ~mine.slash /\ ~his.slash =>
                mine.our_turn # his.our_turn

\* A tracked coin that would pay the player on timeout has a claim with the
\* transaction manager, and that claim is one the puzzle accepts.  A coin
\* being slashed has none, and a call that returned Err lost the claim it made.
ClaimsHeld ==
    \A p \in Party, g \in Games :
        LET e == sess[p].map[g] IN
        Tracked(sess[p], g) /\ ~e.slash /\ ~lost[p] =>
            \A c \in {TimeoutSpend(e.coin)} : c.pay[p] > 0 =>
                [g |-> g, coin |-> e.coin, args |-> e.coin] \in claims[p]

\* No claim is held that the puzzle would refuse, or that pays the player
\* nothing.
ClaimsSound ==
    \A p \in Party : \A c \in claims[p] :
        c.args = c.coin /\ TimeoutSpend(c.args).pay[p] > 0

\* The opponent of p made a move on chain that p's referee raises on.
Garbled(p, g) ==
    \E sp \in spent[g] :
        sp.k = "Move" /\ sp.to.raises /\ sp.coin.mover \in Faulty \ {p}

\* A player whose node answers sees a game with a coin end in an error only
\* when a faulty opponent made a move its referee raises on: never by the
\* races of moves, timeouts, cheats and slashes.
NoEndedError ==
    \A p \in Honest, g \in Games : \A i \in DOMAIN told[p][g] :
        told[p][g][i].outcome = "EndedError" =>
            start[g][p].how = "Missing" \/ Garbled(p, g)

\* p had a move of its own of the coin that the spend overtook (one that was
\* submitted, unless the call that made it returned Err).
MoveTooLate(p, g, sp) ==
    sp.coin.mover = p /\
        (lost[p] \/ \E m \in pool[g] : m.k = "Move" /\ m.coin = sp.coin)

\* The stories told of a settlement are true: who was slashed, who cheated
\* and who let the clock run out.  OpponentTimedOut says that the opponent
\* did, with one exception: a player whose own move came too late is told so
\* as well when the timeout pays it.
Story(p, g, sp, outcome) ==
    CASE outcome = "OpponentSlashedUs" -> sp.k = "Slash" /\ sp.coin.mover # p
      [] outcome = "SlashedOpponent"   -> sp.coin.mover = p /\ ~sp.coin.legal
      [] outcome = "OpponentCheated"   -> sp.k = "Timeout" /\ sp.coin.mover = p
                                              /\ ~sp.coin.legal
      [] outcome = "TimedOutWaitingForOurMove" -> sp.k = "Timeout" /\ sp.coin.mover = p
      [] outcome = "AttemptToMoveFailed" -> sp.k = "Timeout" /\ sp.coin.mover = p
      [] outcome = "OpponentTimedOut" ->
             sp.k = "Timeout" /\ (sp.coin.mover # p \/ MoveTooLate(p, g, sp))
      [] outcome \in {"SettledCleanly", "WeAccepted"} -> sp.k = "Timeout"
      [] OTHER -> TRUE

StoriesTrue ==
    \A p \in Party, g \in Games : \A i \in DOMAIN told[p][g] :
        coin[g] \in Spends => Story(p, g, coin[g], told[p][g][i].outcome)

\* UX_NOTIFICATIONS.md: a move the game's handler rejects is a recoverable
\* rejection.  No call loses the effects of what it has done.
NoEffectsLost == \A p \in Party : ~lost[p]

GivenUp(p, g) ==
    told[p][g] # << >> /\ told[p][g][1].outcome \in Forfeits \cup {"EndedError"}

\* Every game coin is paid out and both players are told how, unless those
\* its timeout would pay have given the game up.  A player that lost the
\* effects of a call may have lost its watch on the coin and its claim.
GamesEnd ==
    \A g \in Games :
        <>[](IF Unspent(g)
             THEN \A p \in Party :
                     TimeoutSpend(coin[g]).pay[p] > 0 => GivenUp(p, g) \/ lost[p]
             ELSE \A p \in Party :
                     start[g][p].how # "Unheard" => told[p][g] # << >> \/ lost[p])
=============================================================================
