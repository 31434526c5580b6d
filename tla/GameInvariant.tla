--------------------------- MODULE GameInvariant ---------------------------
(***************************************************************************)
(* What GameOnChain keeps true, strong enough to be carried from step to   *)
(* step.  GameInv(s, g) is about a session s in the middle of a call, with *)
(* the effects it has collected, and one of its games; between calls s is  *)
(* sess[p] and has none.                                                   *)
(***************************************************************************)
EXTENDS GameOnChain

\* The only game of the session.
SoleGame == \A g, h \in Games : g = h

\* A player parks at most one action during the unroll, so none is left in
\* the queue to be carried out later, when the game has moved on.
Orderly == MaxPark <= 1 \/ SoleGame

-----------------------------------------------------------------------------
(***************************************************************************)
(* The chain and what was submitted to it.                                 *)
(***************************************************************************)

\* The position to comes right after pos.
Succeeds(pos, to) == to.n = pos.n + 1 /\ to.mover = Other(pos.mover)

\* What the puzzle can pay out.
PayOut(sp) ==
    sp = TimeoutSpend(sp.coin) \/ (sp = SlashSpend(sp.coin) /\ ~sp.coin.legal)

\* A spend a player submits.
Submitted(sp) ==
    IF sp.k = "Move"
    THEN Succeeds(sp.coin, sp.to) /\ (sp.to.raises => sp.coin.mover \in Faulty)
    ELSE sp = SlashSpend(sp.coin)

PoolInv == \A g \in Games : \A sp \in pool[g] : Submitted(sp)

\* A coin is spent by moves that were submitted, until it is paid out.
ChainInv ==
    \A g \in Games : \A sp \in spent[g] :
        IF sp.k = "Move" THEN sp \in pool[g] /\ ~sp.coin.over
        ELSE sp = coin[g] /\ PayOut(sp)

-----------------------------------------------------------------------------
(***************************************************************************)
(* A player's sessions.                                                    *)
(***************************************************************************)

\* A terminal notification of p's for g is true.
TellingTrue(p, g, x) ==
    /\ x.outcome \notin WithoutCoin =>
          coin[g] \in Spends /\ x.share = coin[g].pay[p]
    /\ x.outcome = "EndedError" =>
          p \in Misled \/ start[g][p].how = "Missing" \/ Garbled(p, g)
    /\ Orderly /\ x.outcome \notin WithoutCoin => Story(p, g, coin[g], x.outcome)

ToldInv(p, g) == \A i \in DOMAIN told[p][g] : TellingTrue(p, g, told[p][g][i])

\* One terminal notification, and none while the game is tracked.
TerminalInv(s, g) ==
    /\ Tracked(s, g) => told[s.me][g] = << >> /\ s.told[g] = << >>
    /\ s.told[g] # << >> =>
          /\ told[s.me][g] = << >>
          /\ Len(s.told[g]) = 1
          /\ TellingTrue(s.me, g, s.told[g][1])

\* The move a player has submitted and not yet seen on chain.
PendingInv(s, g) ==
    LET pd == s.pend[g] IN
    pd # Absent =>
        /\ pd.expected = pd.ref.spend
        /\ Succeeds(pd.coin, pd.ref.spend)
        /\ ~pd.ref.mine
        /\ pd.ref.create = pd.coin
        /\ pd.coin.mover = s.me
        /\ pd.expected.raises => s.me \in Faulty
        /\ Orderly /\ ~lost[s.me] /\ ~s.err =>
              Move(pd.coin, pd.expected) \in pool[g] \cup s.spends[g]
        /\ Tracked(s, g) => s.map[g].coin = pd.coin /\ s.map[g].our_turn

\* The entry has the turn right, and a coin being slashed deserves it.
TurnInv(s, g) ==
    LET e == s.map[g] IN
    Tracked(s, g) =>
        IF e.slash
        THEN ~e.our_turn /\ e.coin.mover = s.me /\ ~e.coin.legal
                 /\ e.cheat_share = e.coin.share
        ELSE e.our_turn = (e.coin.mover = s.me)

\* The referee is where the entry's coin is, or one move of ours ahead of it.
AtCoin(s, g) ==
    LET e == s.map[g]
        r == s.ref[g] IN
    IF e.coin.mover = s.me
    THEN \/ r.mine /\ r.spend = e.coin
         \/ ~r.mine /\ s.pend[g] # Absent /\ r = s.pend[g].ref
    ELSE ~r.mine /\ r.spend = e.coin /\ r.create.n <= r.spend.n

RefereeInv(s, g) ==
    LET e == s.map[g] IN
    /\ s.last[g] = s.ref[g].spend
    /\ Tracked(s, g) /\ ~e.slash /\ ~e.armed =>
          AtCoin(s, g) /\ (e.coin.mover = s.me => e.coin.legal)

\* A player's moves are of coins it has left behind, or of the one it waits on.
MovesInv(s, g) ==
    Tracked(s, g) =>
        \A sp \in pool[g] \cup s.spends[g] : sp.k = "Move" /\ sp.coin.mover = s.me =>
            \/ sp.coin.n < s.map[g].coin.n
            \/ sp.coin = s.map[g].coin /\ s.pend[g] # Absent /\ s.pend[g].expected = sp.to

\* With nothing stale in the queue a player accepts on its own turn.
ArmedInv(s, g) ==
    LET e == s.map[g] IN
    Orderly /\ Tracked(s, g) /\ e.armed =>
        ~e.slash /\ e.our_turn /\ e.coin.legal /\ s.pend[g] = Absent /\ AtCoin(s, g)

\* The claim of the entry's coin.
ClaimInv(s, g) ==
    LET e == s.map[g] IN
    Orderly /\ Tracked(s, g) /\ ~e.slash /\ ~lost[s.me] /\ ~s.err =>
        (TimeoutSpend(e.coin).pay[s.me] > 0 =>
            [g |-> g, coin |-> e.coin, args |-> e.coin] \in claims[s.me] \cup s.claims)

\* A game that is over is marked finished on our turn.
FinishedInv(s, g) ==
    LET e == s.map[g] IN
    Tracked(s, g) /\ e.our_turn /\ ~e.armed /\ s.pend[g] = Absent /\ e.coin.over =>
        e.finished

\* What a call submits is the player's own.
SpendsInv(s, g) ==
    \A sp \in s.spends[g] : Submitted(sp) /\ (sp.k = "Move" => sp.coin.mover = s.me)

GameInv(s, g) ==
    /\ TerminalInv(s, g)
    /\ PendingInv(s, g)
    /\ TurnInv(s, g)
    /\ RefereeInv(s, g)
    /\ MovesInv(s, g)
    /\ ArmedInv(s, g)
    /\ ClaimInv(s, g)
    /\ FinishedInv(s, g)
    /\ SpendsInv(s, g)

\* The claims of a session are good ones.
ClaimsGood(p, cs) ==
    \A c \in cs : c.args = c.coin /\ TimeoutSpend(c.coin).pay[p] > 0

SessionInv(s) ==
    /\ \A g \in Games : GameInv(s, g)
    /\ Orderly => ClaimsGood(s.me, s.claims)

\* The session of a player still waiting for the unroll: it has done nothing
\* on chain.
Waiting(s) ==
    \A g \in Games :
        /\ s.map[g] = Absent /\ s.pend[g] = Absent /\ s.ref[g] = start[g][s.me].ref
        /\ told[s.me][g] = << >>
        /\ \A sp \in pool[g] : sp.k = "Move" => sp.coin.mover # s.me

\* What such a player may have parked: actions on its turn, and with Orderly
\* one at most.
Parks(s) ==
    /\ \A i \in DOMAIN s.queue :
          LET a  == s.queue[i]
              st == start[a.g][s.me] IN
          /\ st.how \in {"Latest", "Missing"} /\ st.ref.mine
          /\ a.k # "AcceptSettlement" => ~st.ref.spend.over
    /\ Orderly => Len(s.queue) <= 1

UnrollInv(p) == phase[p] = "Unroll" => Waiting(sess[p]) /\ Parks(sess[p]) /\ ~lost[p]

\* Between calls a session holds no effects.
Idle(s) ==
    s.err = FALSE /\ s.watch = {} /\ s.claims = {} /\ \A g \in Games : s.told[g] = << >> /\ s.spends[g] = {}

PlayerInv(p) ==
    /\ sess[p].me = p
    /\ Idle(sess[p])
    /\ SessionInv(sess[p])
    /\ \A g \in Games : ToldInv(p, g) /\ Len(told[p][g]) <= 1
    /\ UnrollInv(p)
    /\ Orderly => ClaimsGood(p, claims[p])
    /\ Orderly /\ phase[p] = "OnChain" => sess[p].queue = << >>

StartInv == start \in [Games -> UNION {Starts(pos) \cup GoneStarts(pos) : pos \in StartPositions}]

\* The inductive invariant.
GamesInv ==
    /\ TypeOK
    /\ StartInv
    /\ PoolInv
    /\ ChainInv
    /\ \A p \in Party : PlayerInv(p)
=============================================================================
