----------------------------- MODULE GameProofs -----------------------------
(***************************************************************************)
(* The safety of games played out on chain, for any number of games, any   *)
(* amount, any number of moves, and whoever cheats or is misled.  GamesInv *)
(* is inductive: the operators a call is put together from each keep       *)
(* SessionInv, Deliver carries it over to the state, and the chain's steps *)
(* change what no session relies on.                                       *)
(***************************************************************************)
EXTENDS GameInvariant, SequenceTheorems, WellFoundedInduction, TLAPS

-----------------------------------------------------------------------------
(***************************************************************************)
(* Positions, spends and referees.                                         *)
(***************************************************************************)

\* There are two players.
LEMMA OtherParty ==
    ASSUME NEW p \in Party
    PROVE  Other(p) \in Party /\ Other(p) # p /\ Other(Other(p)) = p
           /\ \A q \in Party : q = p \/ q = Other(p)
    BY DEF Party, Other

\* The fields of a position.
LEMMA PositionFields ==
    ASSUME NEW pos \in Positions
    PROVE  /\ pos.n \in 0..MaxMoves /\ pos.mover \in Party /\ pos.share \in 0..Amount
           /\ pos.over \in BOOLEAN /\ pos.legal \in BOOLEAN /\ pos.raises \in BOOLEAN
           /\ pos.n = MaxMoves => pos.over
           /\ pos.n \in Nat /\ pos.share \in Nat /\ Amount - pos.share \in 0..Amount
    BY AmountAssumption, MaxMovesAssumption DEF Positions

\* A timeout divides the whole amount by the mover's share.
LEMMA TimeoutPays ==
    ASSUME NEW pos \in Positions
    PROVE  /\ TimeoutSpend(pos) \in Spends
           /\ TimeoutSpend(pos).coin = pos /\ TimeoutSpend(pos).k = "Timeout"
           /\ TimeoutSpend(pos).pay[pos.mover] = pos.share
           /\ TimeoutSpend(pos).pay[Other(pos.mover)] = Amount - pos.share
           /\ TimeoutSpend(pos).pay["alice"] + TimeoutSpend(pos).pay["bob"] = Amount
  <1>1. /\ pos.mover \in Party /\ pos.share \in 0..Amount /\ Amount - pos.share \in 0..Amount
        /\ Amount \in Nat
      BY PositionFields, AmountAssumption
  <1>2. TimeoutSpend(pos).pay = [p \in Party |-> IF p = pos.mover THEN pos.share
                                                ELSE Amount - pos.share]
      BY DEF TimeoutSpend
  <1>3. TimeoutSpend(pos).pay \in [Party -> 0..Amount]
      BY <1>1, <1>2
  <1>4. TimeoutSpend(pos) \in Spends
      BY <1>3 DEF TimeoutSpend, Spends
  <1> QED
      BY <1>1, <1>2, <1>4 DEF TimeoutSpend, Party, Other

\* A slash pays everything to the mover.
LEMMA SlashPays ==
    ASSUME NEW pos \in Positions
    PROVE  /\ SlashSpend(pos) \in Spends
           /\ SlashSpend(pos).coin = pos /\ SlashSpend(pos).k = "Slash"
           /\ SlashSpend(pos).pay[pos.mover] = Amount
           /\ SlashSpend(pos).pay[Other(pos.mover)] = 0
  <1>1. pos.mover \in Party /\ Amount \in Nat
      BY PositionFields, AmountAssumption
  <1>2. SlashSpend(pos).pay = [[p \in Party |-> 0] EXCEPT ![pos.mover] = Amount]
      BY DEF SlashSpend, Nothing
  <1>3. SlashSpend(pos).pay \in [Party -> 0..Amount]
      BY <1>1, <1>2
  <1>4. SlashSpend(pos) \in Spends
      BY <1>3 DEF SlashSpend, Spends
  <1> QED
      BY <1>1, <1>2, <1>4, OtherParty DEF SlashSpend

LEMMA MoveFields ==
    ASSUME NEW pos \in Positions, NEW to \in Positions
    PROVE  /\ Move(pos, to) \in Spends
           /\ Move(pos, to).coin = pos /\ Move(pos, to).k = "Move" /\ Move(pos, to).to = to
  <1>1. Nothing \in [Party -> 0..Amount]
      BY AmountAssumption DEF Nothing
  <1> QED
      BY <1>1 DEF Move, Spends

LEMMA SpendFields ==
    ASSUME NEW sp \in Spends
    PROVE  /\ sp.coin \in Positions /\ sp.to \in Positions /\ sp.k \in {"Move", "Timeout", "Slash"}
           /\ sp.pay \in [Party -> 0..Amount]
           /\ \A p \in Party : sp.pay[p] \in 0..Amount /\ sp.pay[p] \in Nat
  <1>1. /\ sp.coin \in Positions /\ sp.to \in Positions /\ sp.k \in {"Move", "Timeout", "Slash"}
        /\ sp.pay \in [Party -> 0..Amount]
      BY DEF Spends
  <1>2. \A p \in Party : sp.pay[p] \in 0..Amount
      BY <1>1
  <1> QED
      BY <1>1, <1>2, AmountAssumption

\* A coin, a payout and no coin at all are not confused.
LEMMA CoinsApart ==
    /\ \A sp \in Spends : sp \notin Positions /\ sp # Absent
    /\ \A pos \in Positions : pos # Absent
  <1>1. \A sp \in Spends : DOMAIN sp = {"coin", "k", "to", "pay"}
      BY DEF Spends
  <1>2. \A pos \in Positions : DOMAIN pos = {"n", "mover", "share", "over", "legal", "raises"}
      BY DEF Positions
  <1>3. DOMAIN Absent = {"k"}
      BY DEF Absent
  <1>4. /\ "coin" \notin {"k"} /\ "n" \notin {"k"}
        /\ "n" \notin {"coin", "k", "to", "pay"}
      OBVIOUS
  <1> QED
      BY <1>1, <1>2, <1>3, <1>4, Zenon

\* The position a move leads to.
LEMMA AfterMove ==
    ASSUME NEW pos \in Positions, ~pos.over, NEW share \in 0..Amount,
           NEW over \in BOOLEAN, NEW k
    PROVE  /\ After(pos, share, over, k) \in Positions
           /\ Succeeds(pos, After(pos, share, over, k))
           /\ After(pos, share, over, k).raises => k = "Garble"
  <1>1. /\ pos.n \in 0..MaxMoves /\ pos.n # MaxMoves /\ MaxMoves \in Nat
        /\ pos.mover \in Party /\ Other(pos.mover) \in Party
      BY PositionFields, MaxMovesAssumption, OtherParty
  <1>2. pos.n + 1 \in 0..MaxMoves
      BY <1>1
  <1> DEFINE ov == over \/ pos.n + 1 = MaxMoves
  <1> DEFINE legal == k # "Cheat"
  <1> DEFINE raises == k = "Garble"
  <1> DEFINE a == After(pos, share, over, k)
  <1>3. ov \in BOOLEAN /\ legal \in BOOLEAN /\ raises \in BOOLEAN
      OBVIOUS
  <1>4. a = [n |-> pos.n + 1, mover |-> Other(pos.mover), share |-> share,
             over |-> ov, legal |-> legal, raises |-> raises]
      BY DEF After
  <1>5. pos.n + 1 = MaxMoves => ov
      OBVIOUS
  <1> HIDE DEF ov, legal, raises
  <1>6. a \in [n : 0..MaxMoves, mover : Party, share : 0..Amount,
               over : BOOLEAN, legal : BOOLEAN, raises : BOOLEAN]
      BY <1>1, <1>2, <1>3, <1>4
  <1>7. a.n = pos.n + 1 /\ a.mover = Other(pos.mover) /\ a.over = ov /\ a.raises = raises
      BY <1>3, <1>4
  <1>8. a.n = MaxMoves => a.over
      BY <1>5, <1>7
  <1> QED
      BY <1>6, <1>7, <1>8 DEF Positions, Succeeds, raises

LEMMA RefereeFields ==
    ASSUME NEW r \in Referees
    PROVE  r.mine \in BOOLEAN /\ r.create \in Positions /\ r.spend \in Positions
           /\ OurCurrentShare(r) \in 0..Amount
    BY PositionFields DEF Referees, OurCurrentShare

\* The referee after a move of ours.
LEMMA MadeMove ==
    ASSUME NEW r \in Referees, ~r.spend.over, NEW mv \in [share : 0..Amount, over : BOOLEAN],
           NEW k
    PROVE  LET post == MyTurnMakeMove(r, mv, k) IN
           /\ post \in Referees /\ ~post.mine /\ post.create = r.spend
           /\ Succeeds(r.spend, post.spend) /\ (post.spend.raises => k = "Garble")
  <1>1. r.spend \in Positions /\ mv.share \in 0..Amount /\ mv.over \in BOOLEAN
      BY RefereeFields
  <1>2. /\ After(r.spend, mv.share, mv.over, k) \in Positions
        /\ Succeeds(r.spend, After(r.spend, mv.share, mv.over, k))
        /\ After(r.spend, mv.share, mv.over, k).raises => k = "Garble"
      BY <1>1, AfterMove
  <1> QED
      BY <1>1, <1>2 DEF MyTurnMakeMove, Referees

\* A position is not the one that comes after it.
LEMMA SucceedsLater ==
    ASSUME NEW pos \in Positions, NEW to \in Positions, Succeeds(pos, to)
    PROVE  to # pos /\ to.n = pos.n + 1 /\ to.mover = Other(pos.mover) /\ to.mover # pos.mover
           /\ to.n \in Nat /\ pos.n \in Nat
    BY PositionFields, OtherParty DEF Succeeds

\* The claim of the coin a referee is at, or of the one its last move left,
\* reveals that coin's own puzzle.
LEMMA ClaimArgs ==
    ASSUME NEW r, NEW c, r.spend = c \/ (r.create = c /\ r.spend # c)
    PROVE  TimeoutArgs(r, c) = c
    BY DEF TimeoutArgs

\* What the puzzle pays out, it pays to somebody.
LEMMA PayOutPays ==
    ASSUME NEW sp \in Spends, PayOut(sp), NEW p \in Party
    PROVE  /\ sp.k # "Move" /\ sp.k \in {"Timeout", "Slash"}
           /\ sp.k = "Timeout" => sp = TimeoutSpend(sp.coin)
           /\ sp.k = "Slash" => sp = SlashSpend(sp.coin) /\ ~sp.coin.legal
           /\ sp.pay[p] + sp.pay[Other(p)] = Amount
           /\ sp.pay[sp.coin.mover] > 0 \/ sp.pay[Other(sp.coin.mover)] > 0
  <1>1. sp.coin \in Positions /\ sp.coin.mover \in Party
      BY SpendFields, PositionFields
  <1>2. \A q \in Party : sp.pay[q] \in Nat
      BY SpendFields
  <1>3. sp.k \in {"Timeout", "Slash"} /\ sp.k # "Move"
        /\ (sp.k = "Timeout" => sp = TimeoutSpend(sp.coin))
        /\ (sp.k = "Slash" => sp = SlashSpend(sp.coin) /\ ~sp.coin.legal)
      BY <1>1, TimeoutPays, SlashPays DEF PayOut
  <1> DEFINE m == sp.coin.mover
  <1>4. sp.pay[m] + sp.pay[Other(m)] = Amount
    <2>1. CASE sp.k = "Timeout"
      <3>1. sp.pay[m] = sp.coin.share /\ sp.pay[Other(m)] = Amount - sp.coin.share
          BY <2>1, <1>1, <1>3, TimeoutPays
      <3>2. sp.coin.share \in Nat /\ Amount \in Nat
          BY <1>1, PositionFields, AmountAssumption
      <3> QED
          BY <3>1, <3>2
    <2>2. CASE sp.k = "Slash"
      <3>1. sp.pay[m] = Amount /\ sp.pay[Other(m)] = 0
          BY <2>2, <1>1, <1>3, SlashPays
      <3> QED
          BY <3>1, AmountAssumption
    <2> QED
        BY <2>1, <2>2, <1>3
  <1>5. p = m \/ (p = Other(m) /\ Other(p) = m)
      BY <1>1, OtherParty
  <1>6. sp.pay[m] \in Nat /\ sp.pay[Other(m)] \in Nat
      BY <1>1, <1>2, OtherParty
  <1> HIDE DEF m
  <1>7. sp.pay[p] + sp.pay[Other(p)] = Amount
      BY <1>4, <1>5, <1>6
  <1>8. sp.pay[m] > 0 \/ sp.pay[Other(m)] > 0
      BY <1>4, <1>6, AmountAssumption
  <1> QED
      BY <1>3, <1>7, <1>8 DEF m

-----------------------------------------------------------------------------
(***************************************************************************)
(* The fields of a session, and what the operators on it change.           *)
(***************************************************************************)

LEMMA SessionFields ==
    ASSUME NEW s \in Sessions
    PROVE  /\ s.me \in Party /\ s.map \in [Games -> Entries]
           /\ s.ref \in [Games -> Referees] /\ s.last \in [Games -> Positions]
           /\ s.pend \in [Games -> Pendings] /\ s.queue \in Seq(Acts({"Move"}))
           /\ s.told \in [Games -> Seq(Tellings)] /\ s.spends \in [Games -> SUBSET Spends]
           /\ s.watch \in SUBSET Watches /\ s.claims \in SUBSET Claims
           /\ s.err \in BOOLEAN /\ s.stop \in BOOLEAN
    BY DEF Sessions

\* What the queue holds are actions, and no cheats.
LEMMA QueuedActs ==
    ASSUME NEW a \in Acts({"Move"})
    PROVE  a \in Actions /\ a.k # "Garble"
    BY DEF Acts, Actions

LEMMA EntryFields ==
    ASSUME NEW e \in Entries, e # Absent
    PROVE  /\ e \in [k : {"Entry"}, coin : Positions, our_turn : BOOLEAN, finished : BOOLEAN,
                     armed : BOOLEAN, slash : BOOLEAN, cheat_share : 0..Amount]
           /\ e.coin \in Positions /\ e.our_turn \in BOOLEAN /\ e.finished \in BOOLEAN
           /\ e.armed \in BOOLEAN /\ e.slash \in BOOLEAN /\ e.cheat_share \in 0..Amount
    BY DEF Entries

\* An entry is there.
LEMMA EntryThere ==
    ASSUME NEW e \in [k : {"Entry"}, coin : Positions, our_turn : BOOLEAN, finished : BOOLEAN,
                      armed : BOOLEAN, slash : BOOLEAN, cheat_share : 0..Amount]
    PROVE  e \in Entries /\ e # Absent
  <1>1. e.k = "Entry" /\ Absent.k = "Absent"
      BY DEF Absent
  <1> QED
      BY <1>1 DEF Entries

LEMMA PendingFields ==
    ASSUME NEW pd \in Pendings, pd # Absent
    PROVE  pd.coin \in Positions /\ pd.expected \in Positions /\ pd.ref \in Referees
    BY DEF Pendings

LEMMA PendingThere ==
    ASSUME NEW c \in Positions, NEW r \in Referees
    PROVE  /\ Pending(c, r) \in Pendings /\ Pending(c, r) # Absent
           /\ Pending(c, r).coin = c /\ Pending(c, r).expected = r.spend
           /\ Pending(c, r).ref = r
  <1>1. Pending(c, r).k = "Pending" /\ Absent.k = "Absent"
      BY DEF Absent, Pending
  <1>2. r.spend \in Positions
      BY RefereeFields
  <1> QED
      BY <1>1, <1>2 DEF Pendings, Pending

\* What a session holds of the game g.
Same(s, t, g) ==
    /\ t.map[g] = s.map[g] /\ t.pend[g] = s.pend[g] /\ t.ref[g] = s.ref[g]
    /\ t.last[g] = s.last[g] /\ t.told[g] = s.told[g] /\ t.spends[g] = s.spends[g]

\* t is s but for the game g, of which it holds the values given.
Becomes(s, t, g, e, pd, r, la, td, sps) ==
    /\ t \in Sessions /\ t.me = s.me /\ t.queue = s.queue
    /\ t.claims = s.claims /\ t.err = s.err
    /\ \A h \in Games : h # g => Same(s, t, h)
    /\ t.map[g] = e /\ t.pend[g] = pd /\ t.ref[g] = r /\ t.last[g] = la
    /\ t.told[g] = td /\ t.spends[g] = sps

LEMMA BecomesTwice ==
    ASSUME NEW s, NEW u, NEW t, NEW g \in Games,
           NEW e, NEW pd, NEW r, NEW la, NEW td, NEW sps,
           NEW e2, NEW pd2, NEW r2, NEW la2, NEW td2, NEW sps2,
           Becomes(s, u, g, e, pd, r, la, td, sps),
           Becomes(u, t, g, e2, pd2, r2, la2, td2, sps2)
    PROVE  Becomes(s, t, g, e2, pd2, r2, la2, td2, sps2)
    BY DEF Becomes, Same

\* The session with the entry e for g.
Enter(s, g, e) == [s EXCEPT !.map[g] = e]

\* The session with pd pending for g.
Await(s, g, pd) == [s EXCEPT !.pend[g] = pd]

LEMMA EnterForm ==
    ASSUME NEW s \in Sessions, NEW g \in Games, NEW e \in Entries
    PROVE  Becomes(s, Enter(s, g, e), g,
                   e, s.pend[g], s.ref[g], s.last[g], s.told[g], s.spends[g])
    BY SessionFields DEF Enter, Becomes, Same, Sessions

LEMMA AwaitForm ==
    ASSUME NEW s \in Sessions, NEW g \in Games, NEW pd \in Pendings
    PROVE  Becomes(s, Await(s, g, pd), g,
                   s.map[g], pd, s.ref[g], s.last[g], s.told[g], s.spends[g])
    BY SessionFields DEF Await, Becomes, Same, Sessions

LEMMA FollowForm ==
    ASSUME NEW s \in Sessions, NEW g \in Games, NEW r \in Referees, NEW to \in Positions
    PROVE  Becomes(s, Follow(s, g, r, to), g,
                   s.map[g], s.pend[g], r, to, s.told[g], s.spends[g])
    BY SessionFields DEF Follow, Becomes, Same, Sessions

LEMMA DropForm ==
    ASSUME NEW s \in Sessions, NEW g \in Games
    PROVE  Becomes(s, Drop(s, g), g,
                   Absent, s.pend[g], s.ref[g], s.last[g], s.told[g], s.spends[g])
  <1>1. Absent \in Entries
      BY DEF Entries
  <1>2. Drop(s, g) = Enter(s, g, Absent)
      BY DEF Drop, Enter
  <1> QED
      BY <1>1, <1>2, EnterForm

LEMMA SpendForm ==
    ASSUME NEW s \in Sessions, NEW g \in Games, NEW sp \in Spends
    PROVE  Becomes(s, SpendTransaction(s, g, sp), g,
                   s.map[g], s.pend[g], s.ref[g], s.last[g], s.told[g],
                   s.spends[g] \cup {sp})
    BY SessionFields DEF SpendTransaction, Becomes, Same, Sessions

LEMMA SettledForm ==
    ASSUME NEW s \in Sessions, NEW g \in Games, NEW o \in Outcomes, NEW sh \in 0..Amount
    PROVE  Becomes(s, Settled(s, g, o, sh), g,
                   s.map[g], s.pend[g], s.ref[g], s.last[g],
                   Append(s.told[g], [outcome |-> o, share |-> sh]), s.spends[g])
  <1> DEFINE x == [outcome |-> o, share |-> sh]
  <1>1. x \in Tellings
      BY DEF Tellings
  <1>2. s.told[g] \in Seq(Tellings)
      BY SessionFields
  <1>3. Append(s.told[g], x) \in Seq(Tellings)
      BY <1>1, <1>2
  <1> DEFINE tl == [s.told EXCEPT ![g] = Append(s.told[g], x)]
  <1>4. /\ tl \in [Games -> Seq(Tellings)] /\ tl[g] = Append(s.told[g], x)
        /\ \A h \in Games : h # g => tl[h] = s.told[h]
      BY <1>3, SessionFields
  <1>5. Settled(s, g, o, sh) = [s EXCEPT !.told = tl, !.stop = TRUE]
      BY DEF Settled
  <1> HIDE DEF tl
  <1> DEFINE t == Settled(s, g, o, sh)
  <1>6. /\ t \in Sessions /\ t.me = s.me /\ t.queue = s.queue /\ t.claims = s.claims
        /\ t.err = s.err /\ t.map = s.map /\ t.pend = s.pend /\ t.ref = s.ref
        /\ t.last = s.last /\ t.spends = s.spends /\ t.told = tl
      BY <1>4, <1>5 DEF Sessions
  <1> HIDE DEF t, x
  <1>7. Becomes(s, t, g, s.map[g], s.pend[g], s.ref[g], s.last[g],
                Append(s.told[g], x), s.spends[g])
      BY <1>4, <1>6 DEF Becomes, Same
  <1> QED
      BY <1>7 DEF t, x

LEMMA FailForm ==
    ASSUME NEW s \in Sessions
    PROVE  LET t == Fail(s) IN
           /\ t \in Sessions /\ t.me = s.me /\ t.queue = s.queue /\ t.claims = s.claims
           /\ t.map = s.map /\ t.pend = s.pend /\ t.ref = s.ref /\ t.last = s.last
           /\ t.told = s.told /\ t.spends = s.spends /\ t.err = TRUE /\ t.stop = TRUE
    BY SessionFields DEF Fail, Sessions

\* t is s with the coin c of g registered, and its claim if the timeout pays us.
Registers(s, t, g, c) ==
    /\ t \in Sessions /\ t.me = s.me /\ t.queue = s.queue /\ t.err = s.err
    /\ t.map = s.map /\ t.pend = s.pend /\ t.ref = s.ref /\ t.last = s.last
    /\ t.told = s.told /\ t.spends = s.spends
    /\ s.claims \subseteq t.claims
    /\ TimeoutArgs(s.ref[g], c) = c =>
          IF TimeoutSpend(c).pay[s.me] > 0
          THEN t.claims = s.claims \cup {[g |-> g, coin |-> c, args |-> c]}
          ELSE t.claims = s.claims

LEMMA WatchForm ==
    ASSUME NEW s \in Sessions, NEW g \in Games, NEW c \in Positions
    PROVE  LET t == Watch(s, g, c) IN
           /\ t \in Sessions /\ t.me = s.me /\ t.queue = s.queue /\ t.err = s.err
           /\ t.map = s.map /\ t.pend = s.pend /\ t.ref = s.ref /\ t.last = s.last
           /\ t.told = s.told /\ t.spends = s.spends /\ t.claims = s.claims
  <1> DEFINE w == s.watch \cup {[g |-> g, coin |-> c]}
  <1>1. w \in SUBSET Watches
      BY SessionFields DEF Watches
  <1>2. Watch(s, g, c) = [s EXCEPT !.watch = w, !.stop = TRUE]
      BY DEF Watch
  <1> HIDE DEF w
  <1> QED
      BY <1>1, <1>2 DEF Sessions

LEMMA RegisterClaimForm ==
    ASSUME NEW s \in Sessions, NEW g \in Games, NEW c \in Positions
    PROVE  Registers(s, RegisterClaim(s, g, c), g, c)
  <1> DEFINE a == TimeoutArgs(s.ref[g], c)
  <1> DEFINE y == [g |-> g, coin |-> c, args |-> a]
  <1> DEFINE w == Watch(s, g, c)
  <1> DEFINE t == RegisterClaim(s, g, c)
  <1>1. a \in Positions
      BY SessionFields, RefereeFields DEF TimeoutArgs
  <1>2. y \in Claims
      BY <1>1 DEF Claims
  <1>3. IF TimeoutSpend(a).pay[s.me] > 0
        THEN t = [w EXCEPT !.claims = w.claims \cup {y}] ELSE t = s
      BY DEF RegisterClaim, PaysUs
  <1>4. a = c => y = [g |-> g, coin |-> c, args |-> c]
      OBVIOUS
  <1>5. /\ w \in Sessions /\ w.me = s.me /\ w.queue = s.queue /\ w.err = s.err
        /\ w.map = s.map /\ w.pend = s.pend /\ w.ref = s.ref /\ w.last = s.last
        /\ w.told = s.told /\ w.spends = s.spends /\ w.claims = s.claims
      BY WatchForm
  <1> HIDE DEF a, y, t, w
  <1>6. CASE TimeoutSpend(a).pay[s.me] > 0
    <2> DEFINE cl == s.claims \cup {y}
    <2>1. cl \in SUBSET Claims
        BY <1>2, SessionFields
    <2>2. t = [w EXCEPT !.claims = cl]
        BY <1>3, <1>5, <1>6
    <2> HIDE DEF cl
    <2>3. /\ t \in Sessions /\ t.me = w.me /\ t.queue = w.queue /\ t.err = w.err
          /\ t.map = w.map /\ t.pend = w.pend /\ t.ref = w.ref /\ t.last = w.last
          /\ t.told = w.told /\ t.spends = w.spends /\ t.claims = cl
        BY <2>1, <2>2, <1>5 DEF Sessions
    <2> QED
        BY <2>3, <1>4, <1>5, <1>6 DEF Registers, a, t, cl
  <1>7. CASE ~(TimeoutSpend(a).pay[s.me] > 0)
    <2>1. t = s
        BY <1>3, <1>7
    <2> QED
        BY <2>1, <1>7 DEF Registers, a, t
  <1> QED
      BY <1>6, <1>7

LEMMA RegisterForm ==
    ASSUME NEW s \in Sessions, NEW g \in Games, NEW c \in Positions
    PROVE  Registers(s, RegisterCoin(s, g, c), g, c)
  <1> DEFINE u == RegisterClaim(s, g, c)
  <1> DEFINE t == Watch(u, g, c)
  <1>1. Registers(s, u, g, c)
      BY RegisterClaimForm
  <1>2. RegisterCoin(s, g, c) = t
      BY DEF RegisterCoin
  <1> HIDE DEF u
  <1>3. u \in Sessions
      BY <1>1 DEF Registers
  <1>4. /\ t \in Sessions /\ t.me = u.me /\ t.queue = u.queue /\ t.err = u.err
        /\ t.map = u.map /\ t.pend = u.pend /\ t.ref = u.ref /\ t.last = u.last
        /\ t.told = u.told /\ t.spends = u.spends /\ t.claims = u.claims
      BY <1>3, WatchForm
  <1> HIDE DEF t
  <1>5. Registers(s, t, g, c)
      BY <1>1, <1>4 DEF Registers
  <1> QED
      BY <1>2, <1>5

\* What the invariant says of a game depends on what the session holds of it.
LEMMA SameKeeps ==
    ASSUME NEW s \in Sessions, NEW t \in Sessions, NEW g \in Games, Same(s, t, g),
           t.me = s.me, s.claims \subseteq t.claims, s.err => t.err, GameInv(s, g)
    PROVE  GameInv(t, g)
  <1>1. /\ t.map[g] = s.map[g] /\ t.pend[g] = s.pend[g] /\ t.ref[g] = s.ref[g]
        /\ t.last[g] = s.last[g] /\ t.told[g] = s.told[g] /\ t.spends[g] = s.spends[g]
      BY DEF Same
  <1>2. TerminalInv(t, g)
      BY <1>1 DEF GameInv, TerminalInv, Tracked
  <1>3. PendingInv(t, g)
      BY <1>1 DEF GameInv, PendingInv, Tracked
  <1>4. TurnInv(t, g)
      BY <1>1 DEF GameInv, TurnInv, Tracked
  <1>5. AtCoin(t, g) = AtCoin(s, g)
      BY <1>1 DEF AtCoin
  <1>6. RefereeInv(t, g)
      BY <1>1, <1>5 DEF GameInv, RefereeInv, Tracked
  <1>7. MovesInv(t, g)
      BY <1>1 DEF GameInv, MovesInv, Tracked
  <1>8. ArmedInv(t, g)
      BY <1>1, <1>5 DEF GameInv, ArmedInv, Tracked
  <1>9. ClaimInv(t, g)
      BY <1>1 DEF GameInv, ClaimInv, Tracked
  <1>10. FinishedInv(t, g)
      BY <1>1 DEF GameInv, FinishedInv, Tracked
  <1>11. SpendsInv(t, g)
      BY <1>1 DEF GameInv, SpendsInv
  <1> QED
      BY <1>2, <1>3, <1>4, <1>6, <1>7, <1>8, <1>9, <1>10, <1>11 DEF GameInv

\* A change to one game is a matter of that game.
LEMMA BecomesKeeps ==
    ASSUME NEW s \in Sessions, NEW t, NEW g \in Games, SessionInv(s),
           NEW e, NEW pd, NEW r, NEW la, NEW td, NEW sps,
           Becomes(s, t, g, e, pd, r, la, td, sps), GameInv(t, g)
    PROVE  SessionInv(t)
  <1>1. /\ t \in Sessions /\ t.me = s.me /\ t.claims = s.claims /\ t.err = s.err
        /\ \A h \in Games : h # g => Same(s, t, h)
      BY DEF Becomes
  <1>2. ASSUME NEW h \in Games, h # g PROVE GameInv(t, h)
    <2>1. Same(s, t, h) /\ GameInv(s, h)
        BY <1>1, <1>2 DEF SessionInv
    <2> QED
        BY <2>1, <1>1, SameKeeps
  <1> QED
      BY <1>1, <1>2 DEF SessionInv

\* The whole session is kept but for what is not about games.
LEMMA AllSameKeeps ==
    ASSUME NEW s \in Sessions, NEW t \in Sessions, SessionInv(s), t.me = s.me,
           s.claims \subseteq t.claims, s.err => t.err,
           \A h \in Games : Same(s, t, h),
           Orderly => ClaimsGood(t.me, t.claims)
    PROVE  SessionInv(t)
  <1>1. ASSUME NEW h \in Games PROVE GameInv(t, h)
    <2>1. Same(s, t, h) /\ GameInv(s, h)
        BY <1>1 DEF SessionInv
    <2> QED
        BY <2>1, SameKeeps
  <1> QED
      BY <1>1 DEF SessionInv

-----------------------------------------------------------------------------
(***************************************************************************)
(* Giving a game up, telling how it ended.                                 *)
(***************************************************************************)

\* Little is required of a game that is not tracked.
LEMMA UntrackedInv ==
    ASSUME NEW s \in Sessions, NEW t \in Sessions, NEW g \in Games, GameInv(s, g),
           ~Tracked(t, g), t.me = s.me, t.told[g] = s.told[g], t.ref[g] = s.ref[g],
           t.last[g] = s.last[g], t.spends[g] = s.spends[g], s.err => t.err,
           t.pend[g] = s.pend[g] \/ t.pend[g] = Absent
    PROVE  GameInv(t, g)
  <1>1. TerminalInv(t, g)
      BY DEF GameInv, TerminalInv
  <1>2. PendingInv(t, g)
      BY DEF GameInv, PendingInv
  <1>3. RefereeInv(t, g)
      BY DEF GameInv, RefereeInv
  <1>4. TurnInv(t, g) /\ MovesInv(t, g) /\ ArmedInv(t, g) /\ ClaimInv(t, g) /\ FinishedInv(t, g)
      BY DEF TurnInv, MovesInv, ArmedInv, ClaimInv, FinishedInv
  <1>5. SpendsInv(t, g)
      BY DEF GameInv, SpendsInv
  <1> QED
      BY <1>1, <1>2, <1>3, <1>4, <1>5 DEF GameInv

LEMMA DropKeeps ==
    ASSUME NEW s \in Sessions, NEW g \in Games, SessionInv(s)
    PROVE  SessionInv(Drop(s, g)) /\ ~Tracked(Drop(s, g), g)
  <1> DEFINE t == Drop(s, g)
  <1>1. Becomes(s, t, g, Absent, s.pend[g], s.ref[g], s.last[g], s.told[g], s.spends[g])
      BY DropForm
  <1> HIDE DEF t
  <1>2. ~Tracked(t, g)
      BY <1>1 DEF Tracked, Becomes
  <1>3. GameInv(s, g)
      BY DEF SessionInv
  <1>4. GameInv(t, g)
      BY <1>1, <1>2, <1>3, UntrackedInv DEF Becomes
  <1>5. SessionInv(t)
      BY <1>1, <1>4, BecomesKeeps
  <1> QED
      BY <1>2, <1>5 DEF t

\* The game and what was pending for it are forgotten.
Clear(s, g) == [Drop(s, g) EXCEPT !.pend[g] = Absent]

LEMMA ClearKeeps ==
    ASSUME NEW s \in Sessions, NEW g \in Games, SessionInv(s)
    PROVE  /\ Becomes(s, Clear(s, g), g, Absent, Absent, s.ref[g], s.last[g], s.told[g],
                      s.spends[g])
           /\ SessionInv(Clear(s, g)) /\ ~Tracked(Clear(s, g), g)
  <1> DEFINE u == Drop(s, g)
  <1> DEFINE t == Clear(s, g)
  <1>1. Becomes(s, u, g, Absent, s.pend[g], s.ref[g], s.last[g], s.told[g], s.spends[g])
      BY DropForm
  <1>2. t = Await(u, g, Absent) /\ Absent \in Pendings
      BY DEF Clear, Await, Pendings
  <1> HIDE DEF u, t
  <1>3. u \in Sessions /\ u.map[g] = Absent /\ u.ref[g] = s.ref[g] /\ u.last[g] = s.last[g]
        /\ u.told[g] = s.told[g] /\ u.spends[g] = s.spends[g]
      BY <1>1 DEF Becomes
  <1>4. Becomes(u, t, g, u.map[g], Absent, u.ref[g], u.last[g], u.told[g], u.spends[g])
      BY <1>2, <1>3, AwaitForm
  <1>5. Becomes(s, t, g, Absent, Absent, s.ref[g], s.last[g], s.told[g], s.spends[g])
      BY <1>1, <1>3, <1>4, BecomesTwice
  <1>6. ~Tracked(t, g)
      BY <1>5 DEF Tracked, Becomes
  <1>7. GameInv(s, g)
      BY DEF SessionInv
  <1>8. GameInv(t, g)
      BY <1>5, <1>6, <1>7, UntrackedInv DEF Becomes
  <1>9. SessionInv(t)
      BY <1>5, <1>8, BecomesKeeps
  <1> QED
      BY <1>5, <1>6, <1>9 DEF t

\* A game is told to have ended when it is no longer tracked, the first time.
LEMMA SettledKeeps ==
    ASSUME NEW s \in Sessions, NEW g \in Games, SessionInv(s), ~Tracked(s, g),
           told[s.me][g] = << >>, s.told[g] = << >>,
           NEW o \in Outcomes, NEW sh \in 0..Amount,
           TellingTrue(s.me, g, [outcome |-> o, share |-> sh])
    PROVE  SessionInv(Settled(s, g, o, sh))
  <1> DEFINE t == Settled(s, g, o, sh)
  <1> DEFINE x == [outcome |-> o, share |-> sh]
  <1>1. Becomes(s, t, g, s.map[g], s.pend[g], s.ref[g], s.last[g], Append(s.told[g], x),
                s.spends[g])
      BY SettledForm
  <1>2. TellingTrue(s.me, g, x) /\ x \in Tellings
      BY DEF Tellings
  <1> HIDE DEF t, x
  <1>3. Append(s.told[g], x) = <<x>>
      OBVIOUS
  <1>4. /\ t.me = s.me /\ t.map[g] = s.map[g] /\ t.pend[g] = s.pend[g] /\ t.ref[g] = s.ref[g]
        /\ t.last[g] = s.last[g] /\ t.told[g] = <<x>> /\ t.spends[g] = s.spends[g]
        /\ t.err = s.err
      BY <1>1, <1>3 DEF Becomes
  <1>5. ~Tracked(t, g)
      BY <1>4 DEF Tracked
  <1>6. GameInv(s, g)
      BY DEF SessionInv
  <1>7. TerminalInv(t, g)
    <2>1. Len(t.told[g]) = 1 /\ t.told[g][1] = x
        BY <1>4
    <2> QED
        BY <2>1, <1>2, <1>4, <1>5 DEF TerminalInv
  <1>8. PendingInv(t, g)
      BY <1>4, <1>5, <1>6 DEF GameInv, PendingInv
  <1>9. RefereeInv(t, g)
      BY <1>4, <1>5, <1>6 DEF GameInv, RefereeInv
  <1>10. TurnInv(t, g) /\ MovesInv(t, g) /\ ArmedInv(t, g) /\ ClaimInv(t, g) /\ FinishedInv(t, g)
      BY <1>5 DEF TurnInv, MovesInv, ArmedInv, ClaimInv, FinishedInv
  <1>11. GameInv(t, g)
    <2>1. SpendsInv(t, g)
        BY <1>4, <1>6 DEF GameInv, SpendsInv
    <2> QED
        BY <2>1, <1>7, <1>8, <1>9, <1>10 DEF GameInv
  <1>12. SessionInv(t)
      BY <1>1, <1>11, BecomesKeeps
  <1> QED
      BY <1>12 DEF t

\* What a forfeit says is not about how the coin was paid out.
LEMMA ForfeitTrue ==
    ASSUME NEW p \in Party, NEW g \in Games, NEW o, NEW sh,
           o \in Forfeits \cup {"EndedCancelled", "AcceptSettlement"}
    PROVE  o \in Outcomes /\ TellingTrue(p, g, [outcome |-> o, share |-> sh])
    BY DEF Forfeits, WithoutCoin, TellingTrue, Outcomes

-----------------------------------------------------------------------------
(***************************************************************************)
(* The actions of a player.                                                *)
(***************************************************************************)

\* The action a is of a game that waits for us and has nothing under way.
Proper(s, a) ==
    Tracked(s, a.g) =>
        s.map[a.g].our_turn /\ ~s.map[a.g].armed /\ s.pend[a.g] = Absent

\* What a call, or a part of one, makes of the session.
Carries(s, t) ==
    /\ t \in Sessions /\ t.me = s.me /\ SessionInv(t) /\ (s.err => t.err)

LEMMA FailKeeps ==
    ASSUME NEW s \in Sessions, SessionInv(s)
    PROVE  Carries(s, Fail(s)) /\ Fail(s).queue = s.queue
  <1> DEFINE t == Fail(s)
  <1>1. /\ t \in Sessions /\ t.me = s.me /\ t.queue = s.queue /\ t.claims = s.claims
        /\ t.map = s.map /\ t.pend = s.pend /\ t.ref = s.ref /\ t.last = s.last
        /\ t.told = s.told /\ t.spends = s.spends /\ t.err = TRUE
      BY FailForm
  <1> HIDE DEF t
  <1>2. \A h \in Games : Same(s, t, h)
      BY <1>1 DEF Same
  <1>3. Orderly => ClaimsGood(t.me, t.claims)
      BY <1>1 DEF SessionInv
  <1>4. SessionInv(t)
      BY <1>1, <1>2, <1>3, AllSameKeeps
  <1> QED
      BY <1>1, <1>4 DEF t, Carries

LEMMA ForfeitKeeps ==
    ASSUME NEW s \in Sessions, SessionInv(s), NEW g \in Games, Tracked(s, g),
           NEW o \in Forfeits
    PROVE  LET t == Settled(Drop(s, g), g, o, 0) IN
           Carries(s, t) /\ t.queue = s.queue /\ t.err = s.err
  <1> DEFINE u == Drop(s, g)
  <1> DEFINE t == Settled(u, g, o, 0)
  <1>1. /\ Becomes(s, u, g, Absent, s.pend[g], s.ref[g], s.last[g], s.told[g], s.spends[g])
        /\ SessionInv(u) /\ ~Tracked(u, g)
      BY DropForm, DropKeeps
  <1>2. /\ told[s.me][g] = << >> /\ s.told[g] = << >>
      BY DEF SessionInv, GameInv, TerminalInv
  <1>3. 0 \in 0..Amount
      BY AmountAssumption
  <1> HIDE DEF u
  <1>4. u \in Sessions /\ u.me = s.me /\ u.told[g] = s.told[g]
        /\ u.queue = s.queue /\ u.err = s.err
      BY <1>1 DEF Becomes
  <1>5. o \in Outcomes /\ TellingTrue(u.me, g, [outcome |-> o, share |-> 0])
      BY <1>4, SessionFields, ForfeitTrue
  <1>6. SessionInv(t)
      BY <1>1, <1>2, <1>3, <1>4, <1>5, SettledKeeps
  <1>7. Becomes(u, t, g, u.map[g], u.pend[g], u.ref[g], u.last[g],
                Append(u.told[g], [outcome |-> o, share |-> 0]), u.spends[g])
      BY <1>3, <1>4, <1>5, SettledForm
  <1> HIDE DEF t
  <1>8. t \in Sessions /\ t.me = s.me /\ t.queue = s.queue /\ t.err = s.err
      BY <1>4, <1>7 DEF Becomes
  <1> QED
      BY <1>6, <1>8 DEF t, u, Carries

\* A move of ours is submitted and waited for.
LEMMA SubmitKeeps ==
    ASSUME NEW s \in Sessions, SessionInv(s), NEW g \in Games, Tracked(s, g),
           s.map[g].our_turn, s.ref[g].mine, ~s.ref[g].spend.over, s.pend[g] = Absent,
           s.last[g] = s.map[g].coin, Orderly => ~s.map[g].armed,
           NEW mv \in [share : 0..Amount, over : BOOLEAN],
           NEW k \in {"Move", "Cheat", "Garble"}, k = "Garble" => s.me \in Faulty
    PROVE  LET post == MyTurnMakeMove(s.ref[g], mv, k)
               t == SpendTransaction(Await(s, g, Pending(s.map[g].coin, post)), g,
                                     Move(s.ref[g].spend, post.spend)) IN
           Carries(s, t) /\ t.queue = s.queue /\ t.err = s.err
  <1> DEFINE r == s.ref[g]
  <1> DEFINE c == s.map[g].coin
  <1> DEFINE e == s.map[g]
  <1> DEFINE post == MyTurnMakeMove(r, mv, k)
  <1> DEFINE pd == Pending(c, post)
  <1> DEFINE sp == Move(r.spend, post.spend)
  <1> DEFINE u == Await(s, g, pd)
  <1> DEFINE t == SpendTransaction(u, g, sp)
  <1>1. r \in Referees /\ e \in Entries /\ e # Absent /\ s.me \in Party
      BY SessionFields DEF Tracked
  <1>2. c \in Positions
      BY <1>1, EntryFields
  <1>3. GameInv(s, g)
      BY DEF SessionInv
  <1>4. r.spend = c
      BY <1>3 DEF GameInv, RefereeInv
  <1>5. /\ post \in Referees /\ ~post.mine /\ post.create = c /\ Succeeds(c, post.spend)
        /\ post.spend \in Positions /\ (post.spend.raises => s.me \in Faulty)
      BY <1>1, <1>4, MadeMove, RefereeFields
  <1>6. pd \in Pendings /\ pd # Absent /\ pd.coin = c /\ pd.expected = post.spend /\ pd.ref = post
      BY <1>2, <1>5, PendingThere
  <1>7. /\ sp \in Spends /\ sp.coin = c /\ sp.k = "Move" /\ sp.to = post.spend
        /\ sp = Move(c, post.spend)
      BY <1>2, <1>4, <1>5, MoveFields
  <1>8. ~e.slash /\ c.mover = s.me
      BY <1>1, <1>3 DEF GameInv, TurnInv
  <1>9. s.map[g] = e /\ e.coin = c /\ e.our_turn /\ s.ref[g] = r /\ r.mine /\ (Orderly => ~e.armed)
        /\ s.last[g] = r.spend
      BY <1>4
  <1> HIDE DEF post, pd, sp
  <1>10. Becomes(s, u, g, s.map[g], pd, s.ref[g], s.last[g], s.told[g], s.spends[g])
      BY <1>6, AwaitForm
  <1> HIDE DEF u
  <1>11. /\ u \in Sessions /\ u.map[g] = s.map[g] /\ u.pend[g] = pd /\ u.ref[g] = s.ref[g]
         /\ u.last[g] = s.last[g] /\ u.told[g] = s.told[g] /\ u.spends[g] = s.spends[g]
      BY <1>10 DEF Becomes
  <1>12. Becomes(s, t, g, s.map[g], pd, s.ref[g], s.last[g], s.told[g], s.spends[g] \cup {sp})
    <2>1. Becomes(u, t, g, u.map[g], u.pend[g], u.ref[g], u.last[g], u.told[g],
                  u.spends[g] \cup {sp})
        BY <1>7, <1>11, SpendForm
    <2> QED
        BY <2>1, <1>10, <1>11, BecomesTwice
  <1> HIDE DEF t, r, c, e
  <1>13. /\ t \in Sessions /\ t.me = s.me /\ t.queue = s.queue /\ t.claims = s.claims
         /\ t.err = s.err /\ t.spends[g] = s.spends[g] \cup {sp}
         /\ t.map[g] = s.map[g] /\ t.pend[g] = pd /\ t.ref[g] = s.ref[g]
         /\ t.last[g] = s.last[g] /\ t.told[g] = s.told[g]
      BY <1>12 DEF Becomes
  <1>14. TerminalInv(t, g)
      BY <1>3, <1>13 DEF GameInv, TerminalInv, Tracked
  <1>15. PendingInv(t, g)
      BY <1>5, <1>6, <1>7, <1>8, <1>9, <1>13 DEF PendingInv
  <1>16. TurnInv(t, g)
      BY <1>3, <1>13 DEF GameInv, TurnInv, Tracked
  <1>17. RefereeInv(t, g)
    <2>1. c.mover = t.me => AtCoin(t, g)
        BY <1>4, <1>9, <1>13 DEF AtCoin
    <2>2. ~e.armed => c.legal
        BY <1>3, <1>8, <1>9 DEF GameInv, RefereeInv
    <2> QED
        BY <2>1, <2>2, <1>3, <1>8, <1>9, <1>13 DEF GameInv, RefereeInv
  <1>18. MovesInv(t, g)
    <2> SUFFICES ASSUME NEW x \in pool[g] \cup t.spends[g], x.k = "Move", x.coin.mover = t.me
                 PROVE  x.coin.n < c.n \/ (x.coin = c /\ pd # Absent /\ pd.expected = x.to)
        BY <1>9, <1>13 DEF MovesInv
    <2>1. CASE x = sp
        BY <2>1, <1>6, <1>7
    <2>2. CASE x \in pool[g] \cup s.spends[g]
        BY <2>2, <1>3, <1>9, <1>13 DEF GameInv, MovesInv
    <2> QED
        BY <2>1, <2>2, <1>13
  <1>19. ArmedInv(t, g)
      BY <1>9, <1>13 DEF ArmedInv
  <1>20. ClaimInv(t, g)
      BY <1>3, <1>13 DEF GameInv, ClaimInv, Tracked
  <1>21. FinishedInv(t, g)
      BY <1>6, <1>13 DEF FinishedInv
  <1>22. SpendsInv(t, g)
      BY <1>3, <1>5, <1>7, <1>8, <1>13 DEF GameInv, Submitted, SpendsInv
  <1>23. GameInv(t, g)
      BY <1>14, <1>15, <1>16, <1>17, <1>18, <1>19, <1>20, <1>21, <1>22 DEF GameInv
  <1>24. SessionInv(t)
      BY <1>12, <1>23, BecomesKeeps
  <1> QED
    <2>1. Carries(s, t) /\ t.queue = s.queue /\ t.err = s.err
        BY <1>13, <1>24 DEF Carries
    <2> QED
        BY <2>1, Zenon DEF t, u, sp, pd, post, r, c

LEMMA DoMoveKeeps ==
    ASSUME NEW s \in Sessions, SessionInv(s), NEW a \in Actions,
           a.k \in {"Move", "Cheat", "Garble"}, a.k = "Garble" => s.me \in Faulty,
           Orderly => Proper(s, a)
    PROVE  LET t == DoMove(s, a) IN
           Carries(s, t) /\ t.queue = s.queue
  <1> DEFINE g == a.g
  <1> DEFINE mv == a.mv
  <1> DEFINE k == a.k
  <1> DEFINE t == DoMove(s, a)
  <1>1. g \in Games /\ mv \in [share : 0..Amount, over : BOOLEAN]
        /\ k \in {"Move", "Cheat", "Garble"} /\ (k = "Garble" => s.me \in Faulty)
      BY DEF Actions, Acts
  <1>2. CASE ~Tracked(s, g) \/ HasPending(s, g, s.map[g].coin) \/ ~s.map[g].our_turn
               \/ ~s.ref[g].mine \/ IsGameOver(s.ref[g])
    <2>1. t = Fail(s)
        BY <1>2 DEF DoMove, DoOnChainMove
    <2> QED
        BY <2>1, FailKeeps
  <1>3. CASE ~(~Tracked(s, g) \/ HasPending(s, g, s.map[g].coin) \/ ~s.map[g].our_turn
               \/ ~s.ref[g].mine \/ IsGameOver(s.ref[g]))
    <2>1. Tracked(s, g) /\ s.map[g].our_turn /\ s.ref[g].mine /\ ~s.ref[g].spend.over
        BY <1>3 DEF IsGameOver
    <2>2. t = DoOnChainMove(s, g, mv, k)
        BY <1>3 DEF DoMove
    <2>3. GameInv(s, g)
        BY <1>1 DEF SessionInv
    <2>4. s.pend[g] = Absent
        BY <1>3, <2>3 DEF HasPending, GameInv, PendingInv
    <2>5. CASE ~s.map[g].slash /\ mv.share = Amount
      <3>1. t = Settled(Drop(s, g), g, "ForfeitedSkippedReveal", 0)
          BY <1>3, <2>2, <2>5 DEF DoOnChainMove
      <3> QED
          BY <3>1, <2>1, <1>1, ForfeitKeeps DEF Forfeits
    <2>6. CASE ~(~s.map[g].slash /\ mv.share = Amount) /\ ~MoveAsserts(s, g)
      <3>1. t = Fail(s)
          BY <1>3, <2>2, <2>6 DEF DoOnChainMove
      <3> QED
          BY <3>1, FailKeeps
    <2>7. CASE ~(~s.map[g].slash /\ mv.share = Amount) /\ MoveAsserts(s, g)
      <3> DEFINE post == MyTurnMakeMove(s.ref[g], mv, k)
      <3>1. t = SpendTransaction(Await(s, g, Pending(s.map[g].coin, post)), g,
                                 Move(s.ref[g].spend, post.spend))
          BY <1>3, <2>2, <2>7 DEF DoOnChainMove, Await
      <3>2. s.last[g] = s.map[g].coin
          BY <2>7 DEF MoveAsserts
      <3>3. Orderly => ~s.map[g].armed
          BY <2>1 DEF Proper
      <3> DEFINE w == SpendTransaction(Await(s, g, Pending(s.map[g].coin, post)), g,
                                       Move(s.ref[g].spend, post.spend))
      <3> HIDE DEF g, mv, k
      <3>4. Carries(s, w) /\ w.queue = s.queue
          BY <3>2, <3>3, <2>1, <2>4, <1>1, SubmitKeeps
      <3> HIDE DEF w, t
      <3>5. t = w
          BY <3>1 DEF w
      <3> QED
          BY <3>4, <3>5 DEF t
    <2> QED
        BY <2>5, <2>6, <2>7
  <1> QED
      BY <1>2, <1>3

-----------------------------------------------------------------------------
(***************************************************************************)
(* Claims.                                                                 *)
(***************************************************************************)

\* What the invariant says of a game but for its claim.
Placed(s, g) ==
    /\ TerminalInv(s, g) /\ PendingInv(s, g) /\ TurnInv(s, g) /\ RefereeInv(s, g)
    /\ MovesInv(s, g) /\ ArmedInv(s, g) /\ FinishedInv(s, g)
    /\ SpendsInv(s, g)

\* With the other games in order, g is but for its claim.
Unclaimed(s, g) ==
    /\ Placed(s, g) /\ Tracked(s, g)
    /\ \A h \in Games : h # g => GameInv(s, h)
    /\ Orderly => ClaimsGood(s.me, s.claims) /\ TimeoutArgs(s.ref[g], s.map[g].coin) = s.map[g].coin

\* A coin that is registered has its claim made.
LEMMA ClaimMade ==
    ASSUME NEW s \in Sessions, NEW g \in Games, Unclaimed(s, g), NEW t,
           Registers(s, t, g, s.map[g].coin)
    PROVE  /\ Carries(s, t) /\ t.queue = s.queue /\ t.err = s.err
           /\ \A h \in Games : Same(s, t, h)
  <1> DEFINE c == s.map[g].coin
  <1> DEFINE x == [g |-> g, coin |-> c, args |-> c]
  <1>2. /\ t \in Sessions /\ t.me = s.me /\ t.queue = s.queue /\ t.err = s.err
        /\ s.claims \subseteq t.claims
      BY DEF Registers
  <1>3. \A h \in Games : Same(s, t, h)
      BY DEF Registers, Same
  <1>4. TimeoutArgs(s.ref[g], c) = c =>
            IF TimeoutSpend(c).pay[s.me] > 0 THEN t.claims = s.claims \cup {x}
            ELSE t.claims = s.claims
      BY DEF Registers
  <1>5. x.coin = c /\ x.args = c
      OBVIOUS
  <1> HIDE DEF x
  <1>6. ASSUME NEW h \in Games, h # g PROVE GameInv(t, h)
    <2>1. Same(s, t, h) /\ GameInv(s, h)
        BY <1>3, <1>6 DEF Unclaimed
    <2> QED
        BY <2>1, <1>2, SameKeeps
  <1>7. Orderly => ClaimsGood(t.me, t.claims)
      BY <1>2, <1>4, <1>5 DEF Unclaimed, ClaimsGood
  <1>8. Placed(t, g)
    <2>1. /\ t.map[g] = s.map[g] /\ t.pend[g] = s.pend[g] /\ t.ref[g] = s.ref[g]
          /\ t.last[g] = s.last[g] /\ t.told[g] = s.told[g] /\ t.spends[g] = s.spends[g]
        BY <1>3 DEF Same
    <2>2. Placed(s, g) /\ AtCoin(t, g) = AtCoin(s, g)
        BY <2>1, <1>2 DEF Unclaimed, AtCoin
    <2>3. TerminalInv(t, g) /\ PendingInv(t, g)
        BY <2>1, <2>2, <1>2 DEF Placed, TerminalInv, PendingInv, Tracked
    <2>4. TurnInv(t, g) /\ FinishedInv(t, g)
        BY <2>1, <2>2, <1>2 DEF Placed, TurnInv, FinishedInv, Tracked
    <2>5. RefereeInv(t, g)
        BY <2>1, <2>2, <1>2 DEF Placed, RefereeInv, Tracked
    <2>6. MovesInv(t, g)
        BY <2>1, <2>2, <1>2 DEF Placed, MovesInv, Tracked
    <2>7. ArmedInv(t, g)
        BY <2>1, <2>2, <1>2 DEF Placed, ArmedInv, Tracked
    <2>8. SpendsInv(t, g)
        BY <2>1, <2>2, <1>2 DEF Placed, SpendsInv
    <2> QED
        BY <2>3, <2>4, <2>5, <2>6, <2>7, <2>8 DEF Placed
  <1>9. ClaimInv(t, g)
    <2>1. t.map[g] = s.map[g] /\ t.me = s.me
        BY <1>2, <1>3 DEF Same
    <2>2. Orderly /\ TimeoutSpend(c).pay[s.me] > 0 => x \in t.claims
        BY <1>4 DEF Unclaimed
    <2> QED
        BY <2>1, <2>2 DEF ClaimInv, x
  <1>10. GameInv(t, g)
      BY <1>8, <1>9 DEF Placed, GameInv
  <1>11. SessionInv(t)
      BY <1>6, <1>7, <1>10 DEF SessionInv
  <1> QED
      BY <1>2, <1>3, <1>11 DEF Carries

LEMMA RegisterKeeps ==
    ASSUME NEW s \in Sessions, NEW g \in Games, Unclaimed(s, g)
    PROVE  LET t == RegisterCoin(s, g, s.map[g].coin) IN
           /\ Carries(s, t) /\ t.queue = s.queue /\ t.err = s.err
           /\ \A h \in Games : Same(s, t, h)
  <1>1. s.map[g].coin \in Positions
      BY SessionFields, EntryFields DEF Unclaimed, Tracked
  <1>2. Registers(s, RegisterCoin(s, g, s.map[g].coin), g, s.map[g].coin)
      BY <1>1, RegisterForm
  <1> QED
      BY <1>2, ClaimMade

\* The claim of a coin a session has its turn at, or waits at.
LEMMA AtCoinArgs ==
    ASSUME NEW s \in Sessions, NEW g \in Games, Tracked(s, g), AtCoin(s, g), PendingInv(s, g)
    PROVE  TimeoutArgs(s.ref[g], s.map[g].coin) = s.map[g].coin
  <1> DEFINE r == s.ref[g]
  <1> DEFINE c == s.map[g].coin
  <1> DEFINE pd == s.pend[g]
  <1>1. r \in Referees /\ c \in Positions /\ pd \in Pendings
      BY SessionFields, EntryFields DEF Tracked
  <1>2. CASE r.spend = c
      BY <1>2, ClaimArgs
  <1>3. CASE r.spend # c
    <2>1. pd # Absent /\ r = pd.ref
        BY <1>3 DEF AtCoin
    <2>2. pd.coin = c /\ r.create = pd.coin /\ Succeeds(pd.coin, r.spend)
        BY <2>1 DEF PendingInv
    <2> QED
        BY <1>3, <2>2, ClaimArgs
  <1> QED
      BY <1>2, <1>3

\* A session in order has its claims, and may make them again.
LEMMA AgainUnclaimed ==
    ASSUME NEW s \in Sessions, NEW g \in Games, SessionInv(s), Tracked(s, g),
           Orderly => AtCoin(s, g)
    PROVE  Unclaimed(s, g)
  <1>1. GameInv(s, g)
      BY DEF SessionInv
  <1>2. Placed(s, g) /\ PendingInv(s, g)
      BY <1>1 DEF GameInv, Placed
  <1>3. Orderly => TimeoutArgs(s.ref[g], s.map[g].coin) = s.map[g].coin
      BY <1>2, AtCoinArgs
  <1> QED
      BY <1>2, <1>3 DEF Unclaimed, SessionInv

LEMMA DoAcceptKeeps ==
    ASSUME NEW s \in Sessions, SessionInv(s), NEW a \in Actions, a.k = "AcceptSettlement",
           Orderly => Proper(s, a)
    PROVE  LET t == DoAcceptSettlement(s, a.g) IN
           Carries(s, t) /\ t.queue = s.queue
  <1> DEFINE g == a.g
  <1> DEFINE t == DoAcceptSettlement(s, g)
  <1>1. g \in Games
      BY DEF Actions, Acts
  <1>2. CASE ~Tracked(s, g)
    <2>1. t = Fail(s)
        BY <1>2 DEF DoAcceptSettlement
    <2> QED
        BY <2>1, FailKeeps
  <1>3. CASE Tracked(s, g) /\ s.map[g].our_turn /\ OurCurrentShare(s.ref[g]) = 0
    <2>1. t = Settled(Drop(s, g), g, "ForfeitedWeAccepted", 0)
        BY <1>3 DEF DoAcceptSettlement
    <2> QED
        BY <2>1, <1>1, <1>3, ForfeitKeeps DEF Forfeits
  <1>4. CASE Tracked(s, g) /\ ~(s.map[g].our_turn /\ OurCurrentShare(s.ref[g]) = 0)
    <2> DEFINE e == s.map[g]
    <2> DEFINE f == [e EXCEPT !.armed = TRUE, !.finished = TRUE]
    <2> DEFINE u == RegisterClaim(s, g, e.coin)
    <2>1. GameInv(s, g) /\ e \in Entries /\ e # Absent
        BY <1>1, <1>4, SessionFields DEF SessionInv, Tracked
    <2>2. e \in [k : {"Entry"}, coin : Positions, our_turn : BOOLEAN, finished : BOOLEAN,
                 armed : BOOLEAN, slash : BOOLEAN, cheat_share : 0..Amount]
        BY <2>1, EntryFields
    <2>3. /\ f \in Entries /\ f # Absent /\ f.coin = e.coin /\ f.our_turn = e.our_turn
          /\ f.slash = e.slash /\ f.cheat_share = e.cheat_share
          /\ f.armed = TRUE /\ f.finished = TRUE
        BY <2>2, EntryThere
    <2>4. Orderly => AtCoin(s, g) /\ ~e.slash /\ e.our_turn /\ s.pend[g] = Absent /\ e.coin.legal
      <3>1. Orderly => e.our_turn /\ ~e.armed /\ s.pend[g] = Absent
          BY <1>4 DEF Proper
      <3>2. Orderly => ~e.slash /\ e.coin.mover = s.me
          BY <3>1, <2>1, <1>4 DEF GameInv, TurnInv
      <3> QED
          BY <3>1, <3>2, <2>1, <1>4 DEF GameInv, RefereeInv
    <2>5. Unclaimed(s, g)
        BY <1>1, <1>4, <2>4, AgainUnclaimed
    <2>6. Carries(s, u) /\ u.queue = s.queue /\ u.err = s.err /\ \A h \in Games : Same(s, u, h)
        BY <1>1, <2>2, <2>5, RegisterClaimForm, ClaimMade
    <2>7. t = [u EXCEPT !.map[g].armed = TRUE, !.map[g].finished = TRUE]
        BY <1>4 DEF DoAcceptSettlement
    <2> HIDE DEF u, t
    <2>8. /\ u \in Sessions /\ SessionInv(u) /\ u.me = s.me /\ u.map[g] = e
          /\ u.pend[g] = s.pend[g] /\ u.ref[g] = s.ref[g]
        BY <1>1, <2>6 DEF Carries, Same
    <2>9. t = Enter(u, g, f)
      <3>1. u.map \in [Games -> Entries]
          BY <2>8, SessionFields
      <3> QED
          BY <1>1, <2>7, <2>8, <3>1 DEF Enter, Sessions
    <2> HIDE DEF f, e, g
    <2>10. Becomes(u, t, g, f, u.pend[g], u.ref[g], u.last[g], u.told[g], u.spends[g])
        BY <1>1, <2>3, <2>8, <2>9, EnterForm
    <2>11. /\ t \in Sessions /\ t.me = u.me /\ t.queue = u.queue /\ t.claims = u.claims
           /\ t.err = u.err /\ t.map[g] = f /\ t.pend[g] = u.pend[g] /\ t.ref[g] = u.ref[g]
           /\ t.last[g] = u.last[g] /\ t.told[g] = u.told[g] /\ t.spends[g] = u.spends[g]
        BY <2>10 DEF Becomes
    <2>12. GameInv(u, g) /\ Tracked(u, g)
        BY <1>1, <2>1, <2>8 DEF SessionInv, Tracked
    <2>13. GameInv(t, g)
      <3>1. TerminalInv(t, g)
          BY <2>11, <2>12 DEF GameInv, TerminalInv
      <3>2. PendingInv(t, g)
          BY <2>3, <2>8, <2>11, <2>12 DEF GameInv, PendingInv
      <3>3. TurnInv(t, g)
          BY <2>3, <2>8, <2>11, <2>12 DEF GameInv, TurnInv
      <3>4. RefereeInv(t, g)
          BY <2>3, <2>11, <2>12 DEF GameInv, RefereeInv
      <3>5. MovesInv(t, g)
          BY <2>3, <2>8, <2>11, <2>12 DEF GameInv, MovesInv
      <3>6. AtCoin(t, g) = AtCoin(s, g)
          BY <2>3, <2>8, <2>11, ZenonT(40) DEF AtCoin, e
      <3>7. ArmedInv(t, g)
          BY <2>3, <2>4, <2>8, <2>11, <3>6 DEF ArmedInv
      <3>8. ClaimInv(t, g)
          BY <2>3, <2>8, <2>11, <2>12 DEF GameInv, ClaimInv
      <3>9. FinishedInv(t, g)
          BY <2>3, <2>11 DEF FinishedInv
      <3>10. SpendsInv(t, g)
          BY <2>11, <2>12 DEF GameInv, SpendsInv
      <3> QED
          BY <3>1, <3>2, <3>3, <3>4, <3>5, <3>7, <3>8, <3>9, <3>10 DEF GameInv
    <2>14. SessionInv(t)
        BY <1>1, <2>8, <2>10, <2>13, BecomesKeeps
    <2>15. Carries(s, t) /\ t.queue = s.queue /\ t.err = s.err
        BY <2>6, <2>8, <2>11, <2>14 DEF Carries
    <2> QED
        BY <2>15 DEF t, g
  <1> QED
      BY <1>2, <1>3, <1>4

LEMMA ActionKeeps ==
    ASSUME NEW s \in Sessions, SessionInv(s), NEW a \in Actions,
           a.k = "Garble" => s.me \in Faulty, Orderly => Proper(s, a)
    PROVE  LET t == DoOnChainAction(s, a) IN
           Carries(s, t) /\ t.queue = s.queue
  <1>1. a.k \in {"Move", "Cheat", "Garble", "AcceptSettlement", "Rejected"}
      BY DEF Actions, Acts
  <1>2. CASE a.k \in {"Move", "Cheat", "Garble"}
    <2>1. DoOnChainAction(s, a) = DoMove(s, a)
        BY <1>2 DEF DoOnChainAction
    <2> QED
        BY <1>2, <2>1, DoMoveKeeps
  <1>3. CASE a.k = "AcceptSettlement"
    <2>1. DoOnChainAction(s, a) = DoAcceptSettlement(s, a.g)
        BY <1>3 DEF DoOnChainAction
    <2> QED
        BY <1>3, <2>1, DoAcceptKeeps
  <1>4. CASE a.k = "Rejected"
    <2>1. DoOnChainAction(s, a) = Fail(s)
        BY <1>4 DEF DoOnChainAction
    <2> QED
        BY <2>1, FailKeeps
  <1> QED
      BY <1>1, <1>2, <1>3, <1>4

-----------------------------------------------------------------------------
(***************************************************************************)
(* The queue.                                                              *)
(***************************************************************************)

\* A set of numbers that is not empty has a smallest member.
LEMMA LeastIn ==
    ASSUME NEW T \in SUBSET Nat, T # {}
    PROVE  \E x \in T : \A y \in T : x <= y
  <1>1. PICK x \in T : \A y \in T : ~(<<y, x>> \in OpToRel(<, Nat))
      BY NatLessThanWellFounded, WFMin, Zenon
  <1>2. \A y \in T : ~(y < x)
      BY <1>1, Zenon DEF OpToRel
  <1> QED
      BY <1>2

\* f runs the first m actions of q from the session b.
Running(f, m, b, q) ==
    f = [i \in 0..m |-> IF i = 0 THEN b ELSE RunQueued(f[i - 1], q[i])]

LEMMA RunningExists ==
    ASSUME NEW n \in Nat, NEW b, NEW q
    PROVE  \E f : Running(f, n, b, q)
  <1> DEFINE T == {m \in 0..n : ~\E f : Running(f, m, b, q)}
  <1> SUFFICES ASSUME T # {} PROVE FALSE
      OBVIOUS
  <1>1. PICK m \in T : \A y \in T : m <= y
    <2>1. T \in SUBSET Nat
        OBVIOUS
    <2> QED
        BY <2>1, LeastIn
  <1>2. m \in Nat /\ m <= n /\ ~\E f : Running(f, m, b, q)
      BY <1>1
  <1>3. CASE m = 0
    <2> DEFINE f == [i \in 0..0 |-> b]
    <2>1. f = [i \in 0..0 |-> IF i = 0 THEN b ELSE RunQueued(f[i - 1], q[i])]
        OBVIOUS
    <2>2. Running(f, 0, b, q)
        BY <2>1 DEF Running
    <2> QED
        BY <2>2, <1>2, <1>3
  <1>4. CASE m # 0
    <2>1. m - 1 \in 0..n /\ m - 1 < m
        BY <1>2, <1>4
    <2>2. m - 1 \notin T
        BY <2>1, <1>1, <1>2
    <2>3. PICK f : Running(f, m - 1, b, q)
        BY <2>1, <2>2
    <2> DEFINE g == [i \in 0..m |-> IF i = m THEN RunQueued(f[m - 1], q[m]) ELSE f[i]]
    <2>4. \A i \in 0..m : g[i] = IF i = m THEN RunQueued(f[m - 1], q[m]) ELSE f[i]
        OBVIOUS
    <2>5. \A i \in 0..(m - 1) : f[i] = IF i = 0 THEN b ELSE RunQueued(f[i - 1], q[i])
        BY <2>3 DEF Running
    <2>6. \A i \in 0..m : g[i] = IF i = 0 THEN b ELSE RunQueued(g[i - 1], q[i])
      <3> SUFFICES ASSUME NEW i \in 0..m
                   PROVE  g[i] = IF i = 0 THEN b ELSE RunQueued(g[i - 1], q[i])
          OBVIOUS
      <3> HIDE DEF g
      <3>1. CASE i = 0
          BY <3>1, <2>4, <2>5, <1>2, <1>4
      <3>2. CASE i # 0
        <4>1. i - 1 \in 0..m /\ i - 1 # m /\ i - 1 \in 0..(m - 1)
            BY <3>2, <1>2, <1>4
        <4>2. g[i - 1] = f[i - 1]
            BY <4>1, <2>4
        <4>3. CASE i = m
            BY <4>2, <4>3, <2>4, <3>2
        <4>4. CASE i # m
          <5>1. i \in 0..(m - 1)
              BY <4>4, <1>2
          <5> QED
              BY <4>2, <4>4, <5>1, <2>4, <2>5, <3>2
        <4> QED
            BY <4>3, <4>4
      <3> QED
          BY <3>1, <3>2
    <2>7. g = [i \in 0..m |-> g[i]]
        OBVIOUS
    <2> HIDE DEF g
    <2>8. Running(g, m, b, q)
        BY <2>6, <2>7 DEF Running
    <2> QED
        BY <2>8, <1>2
  <1> QED
      BY <1>3, <1>4

\* What process_queued_action computes.
LEMMA QueueRuns ==
    ASSUME NEW s \in Sessions
    PROVE  \E f : /\ Running(f, Len(s.queue), [s EXCEPT !.stop = FALSE], s.queue)
                  /\ ProcessQueuedAction(s) = f[Len(s.queue)]
  <1> DEFINE n == Len(s.queue)
  <1> DEFINE b == [s EXCEPT !.stop = FALSE]
  <1> DEFINE f == CHOOSE f : Running(f, n, b, s.queue)
  <1>1. n \in Nat
      BY SessionFields
  <1>2. \E h : Running(h, n, b, s.queue)
    <2> HIDE DEF n, b
    <2> QED
        BY <1>1, RunningExists
  <1>3. Running(f, n, b, s.queue)
    <2> HIDE DEF n, b
    <2> QED
        BY <1>2, Zenon
  <1>4. ProcessQueuedAction(s) = f[n]
      BY DEF ProcessQueuedAction, Running
  <1> QED
      BY <1>3, <1>4

\* The next action leaves the queue.
LEMMA PopKeeps ==
    ASSUME NEW s \in Sessions, SessionInv(s), Len(s.queue) # 0
    PROVE  LET t == [s EXCEPT !.queue = Tail(@)] IN
           /\ t \in Sessions /\ t.me = s.me /\ SessionInv(t) /\ t.err = s.err
           /\ Len(t.queue) = Len(s.queue) - 1
           /\ \A a : Proper(s, a) => Proper(t, a)
  <1> DEFINE q == Tail(s.queue)
  <1> DEFINE t == [s EXCEPT !.queue = Tail(@)]
  <1>1. q \in Seq(Acts({"Move"})) /\ Len(q) = Len(s.queue) - 1
    <2>1. s.queue \in Seq(Acts({"Move"}))
        BY SessionFields
    <2> QED
        BY <2>1
  <1>2. t = [s EXCEPT !.queue = q]
      OBVIOUS
  <1> HIDE DEF q, t
  <1>3. /\ t \in Sessions /\ t.me = s.me /\ t.queue = q /\ t.claims = s.claims
        /\ t.map = s.map /\ t.pend = s.pend /\ t.ref = s.ref /\ t.last = s.last
        /\ t.told = s.told /\ t.spends = s.spends /\ t.err = s.err
      BY <1>1, <1>2 DEF Sessions
  <1>4. \A h \in Games : Same(s, t, h)
      BY <1>3 DEF Same
  <1>5. SessionInv(t)
    <2>1. Orderly => ClaimsGood(t.me, t.claims)
        BY <1>3 DEF SessionInv
    <2> QED
        BY <2>1, <1>3, <1>4, AllSameKeeps
  <1>6. \A a : Proper(s, a) => Proper(t, a)
      BY <1>3 DEF Proper, Tracked
  <1> QED
      BY <1>1, <1>3, <1>5, <1>6 DEF t

LEMMA FreshKeeps ==
    ASSUME NEW s \in Sessions, SessionInv(s)
    PROVE  LET t == [s EXCEPT !.stop = FALSE] IN
           /\ Carries(s, t) /\ t.queue = s.queue /\ t.stop = FALSE /\ t.err = s.err
           /\ \A a : Proper(s, a) => Proper(t, a)
  <1> DEFINE t == [s EXCEPT !.stop = FALSE]
  <1>1. /\ t \in Sessions /\ t.me = s.me /\ t.queue = s.queue /\ t.claims = s.claims
        /\ t.map = s.map /\ t.pend = s.pend /\ t.ref = s.ref /\ t.last = s.last
        /\ t.told = s.told /\ t.spends = s.spends /\ t.err = s.err /\ t.stop = FALSE
      BY SessionFields DEF Sessions
  <1> HIDE DEF t
  <1>2. \A h \in Games : Same(s, t, h)
      BY <1>1 DEF Same
  <1>3. SessionInv(t)
    <2>1. Orderly => ClaimsGood(t.me, t.claims)
        BY <1>1 DEF SessionInv
    <2> QED
        BY <2>1, <1>1, <1>2, AllSameKeeps
  <1>4. \A a : Proper(s, a) => Proper(t, a)
      BY <1>1 DEF Proper, Tracked
  <1> QED
      BY <1>1, <1>3, <1>4 DEF t, Carries

\* One step of the queue.
LEMMA RunKeeps ==
    ASSUME NEW s \in Sessions, SessionInv(s), NEW a \in Acts({"Move"}),
           ~s.stop => Len(s.queue) # 0, Orderly => Proper(s, a)
    PROVE  LET t == RunQueued(s, a) IN
           /\ Carries(s, t)
           /\ s.stop => t = s
           /\ ~s.stop => Len(t.queue) = Len(s.queue) - 1
  <1> DEFINE t == RunQueued(s, a)
  <1>1. CASE s.stop
    <2>1. t = s
        BY <1>1 DEF RunQueued
    <2> QED
        BY <2>1, <1>1 DEF Carries
  <1>2. CASE ~s.stop
    <2> DEFINE u == [s EXCEPT !.queue = Tail(@)]
    <2>1. t = DoOnChainAction(u, a)
        BY <1>2 DEF RunQueued
    <2>2. /\ u \in Sessions /\ u.me = s.me /\ SessionInv(u) /\ u.err = s.err
          /\ Len(u.queue) = Len(s.queue) - 1
          /\ (Proper(s, a) => Proper(u, a))
        BY <1>2, PopKeeps
    <2>3. a \in Actions /\ a.k # "Garble"
        BY QueuedActs
    <2> HIDE DEF u, t
    <2>4. Carries(u, t) /\ t.queue = u.queue
        BY <2>1, <2>2, <2>3, ActionKeeps
    <2>5. Carries(s, t)
        BY <2>2, <2>4 DEF Carries
    <2> QED
        BY <1>2, <2>2, <2>4, <2>5 DEF t
  <1> QED
      BY <1>1, <1>2

\* process_queued_action, whatever is in the queue.
LEMMA QueueKeeps ==
    ASSUME NEW s \in Sessions, SessionInv(s),
           Orderly => Len(s.queue) <= 1 /\ (Len(s.queue) # 0 => Proper(s, s.queue[1]))
    PROVE  LET t == ProcessQueuedAction(s) IN
           Carries(s, t) /\ (Orderly => t.queue = << >>)
  <1> DEFINE q == s.queue
  <1> DEFINE n == Len(q)
  <1> DEFINE b == [s EXCEPT !.stop = FALSE]
  <1>1. q \in Seq(Acts({"Move"})) /\ n \in Nat
      BY SessionFields
  <1>2. PICK f : Running(f, n, b, q) /\ ProcessQueuedAction(s) = f[n]
      BY QueueRuns
  <1>3. /\ Carries(s, b) /\ b.queue = q /\ b.stop = FALSE /\ b.err = s.err
        /\ \A a : Proper(s, a) => Proper(b, a)
      BY FreshKeeps
  <1>4. \A i \in 1..n : q[i] \in Acts({"Move"})
      BY <1>1
  <1>5. Orderly => n <= 1 /\ (n # 0 => Proper(s, q[1]))
      OBVIOUS
  <1> HIDE DEF q, n, b
  <1>6. f[0] = b /\ \A i \in 1..n : f[i] = RunQueued(f[i - 1], q[i])
      BY <1>1, <1>2 DEF Running
  <1> DEFINE Good(i) == Carries(s, f[i]) /\ (~f[i].stop => Len(f[i].queue) = n - i)
  <1>7. Good(0)
      BY <1>1, <1>3, <1>6 DEF n, q
  <1>8. ASSUME NEW i \in 1..n, Good(i - 1)
        PROVE  Good(i) /\ (~f[i - 1].stop => Len(f[i].queue) = n - i)
    <2>1. f[i - 1] \in Sessions /\ SessionInv(f[i - 1]) /\ f[i - 1].me = s.me
          /\ (s.err => f[i - 1].err)
        BY <1>8 DEF Carries
    <2>2. Orderly => Proper(f[i - 1], q[i])
      <3>1. Orderly => i = 1
          BY <1>1, <1>5
      <3> QED
          BY <3>1, <1>1, <1>3, <1>5, <1>6
    <2>3. ~f[i - 1].stop => Len(f[i - 1].queue) = n - i + 1 /\ Len(f[i - 1].queue) # 0
        BY <1>1, <1>8
    <2>4. f[i] = RunQueued(f[i - 1], q[i]) /\ q[i] \in Acts({"Move"})
        BY <1>4, <1>6
    <2>5. /\ Carries(f[i - 1], f[i])
          /\ f[i - 1].stop => f[i] = f[i - 1]
          /\ ~f[i - 1].stop => Len(f[i].queue) = Len(f[i - 1].queue) - 1
        BY <2>1, <2>2, <2>3, <2>4, RunKeeps
    <2>6. Carries(s, f[i])
        BY <2>1, <2>5 DEF Carries
    <2>7. ~f[i - 1].stop => Len(f[i].queue) = n - i
      <3>1. PICK m, l : m = Len(f[i - 1].queue) /\ l = Len(f[i].queue)
          OBVIOUS
      <3>2. ~f[i - 1].stop => m = n - i + 1 /\ l = m - 1
          BY <3>1, <2>3, <2>5
      <3>3. m = n - i + 1 /\ l = m - 1 => l = n - i
          BY <1>1
      <3> QED
          BY <3>1, <3>2, <3>3
    <2>8. ~f[i].stop => Len(f[i].queue) = n - i
        BY <2>5, <2>7
    <2> QED
        BY <2>6, <2>7, <2>8
  <1>9. Good(n)
    <2> DEFINE T == {i \in 0..n : ~Good(i)}
    <2> HIDE DEF Good
    <2> SUFFICES ASSUME T # {} PROVE FALSE
        BY <1>1
    <2>1. PICK m \in T : \A y \in T : m <= y
      <3>1. T \in SUBSET Nat
          OBVIOUS
      <3> QED
          BY <3>1, LeastIn
    <2>2. m \in 1..n
        BY <2>1, <1>1, <1>7
    <2>3. m - 1 \in 0..n /\ ~(m <= m - 1)
        BY <2>2, <1>1
    <2>4. Good(m - 1)
        BY <2>1, <2>3
    <2> QED
        BY <2>1, <2>2, <2>4, <1>8
  <1>10. Orderly => f[n].queue = << >>
    <2> SUFFICES ASSUME Orderly PROVE f[n].queue = << >>
        OBVIOUS
    <2>1. CASE n = 0
      <3>1. f[n] = b /\ b.queue = q
          BY <2>1, <1>3, <1>6
      <3>2. q = << >>
          BY <2>1, <1>1 DEF n
      <3> QED
          BY <3>1, <3>2
    <2>2. CASE n = 1
      <3>1. ~f[0].stop
          BY <1>3, <1>6
      <3>2. 1 \in 1..n /\ 1 - 1 = 0 /\ n - 1 = 0
          BY <2>2
      <3>3. Len(f[1].queue) = 0
          BY <3>1, <3>2, <1>7, <1>8
      <3>4. f[1].queue \in Seq(Acts({"Move"}))
          BY <2>2, <1>9, SessionFields DEF Carries
      <3>5. f[1].queue = << >>
          BY <3>3, <3>4
      <3> QED
          BY <3>5, <2>2
    <2> QED
        BY <2>1, <2>2, <1>1, <1>5
  <1> QED
      BY <1>2, <1>9, <1>10

-----------------------------------------------------------------------------
(***************************************************************************)
(* What is left of the queue after a call.                                 *)
(***************************************************************************)

\* f takes the first m actions of q off, from b.
Draining(f, m, b, q) ==
    f = [i \in 0..m |-> IF i = 0 THEN b ELSE DrainStep(f[i - 1], q[i])]

LEMMA DrainingExists ==
    ASSUME NEW n \in Nat, NEW b, NEW q
    PROVE  \E f : Draining(f, n, b, q)
  <1> DEFINE T == {m \in 0..n : ~\E f : Draining(f, m, b, q)}
  <1> SUFFICES ASSUME T # {} PROVE FALSE
      OBVIOUS
  <1>1. PICK m \in T : \A y \in T : m <= y
    <2>1. T \in SUBSET Nat
        OBVIOUS
    <2> QED
        BY <2>1, LeastIn
  <1>2. m \in Nat /\ m <= n /\ ~\E f : Draining(f, m, b, q)
      BY <1>1
  <1>3. CASE m = 0
    <2> DEFINE f == [i \in 0..0 |-> b]
    <2>1. f = [i \in 0..0 |-> IF i = 0 THEN b ELSE DrainStep(f[i - 1], q[i])]
        OBVIOUS
    <2>2. Draining(f, 0, b, q)
        BY <2>1 DEF Draining
    <2> QED
        BY <2>2, <1>2, <1>3
  <1>4. CASE m # 0
    <2>1. m - 1 \in 0..n /\ m - 1 < m
        BY <1>2, <1>4
    <2>2. m - 1 \notin T
        BY <2>1, <1>1, <1>2
    <2>3. PICK f : Draining(f, m - 1, b, q)
        BY <2>1, <2>2
    <2> DEFINE g == [i \in 0..m |-> IF i = m THEN DrainStep(f[m - 1], q[m]) ELSE f[i]]
    <2>4. \A i \in 0..m : g[i] = IF i = m THEN DrainStep(f[m - 1], q[m]) ELSE f[i]
        OBVIOUS
    <2>5. \A i \in 0..(m - 1) : f[i] = IF i = 0 THEN b ELSE DrainStep(f[i - 1], q[i])
        BY <2>3 DEF Draining
    <2>6. \A i \in 0..m : g[i] = IF i = 0 THEN b ELSE DrainStep(g[i - 1], q[i])
      <3> SUFFICES ASSUME NEW i \in 0..m
                   PROVE  g[i] = IF i = 0 THEN b ELSE DrainStep(g[i - 1], q[i])
          OBVIOUS
      <3> HIDE DEF g
      <3>1. CASE i = 0
          BY <3>1, <2>4, <2>5, <1>2, <1>4
      <3>2. CASE i # 0
        <4>1. i - 1 \in 0..m /\ i - 1 # m /\ i - 1 \in 0..(m - 1)
            BY <3>2, <1>2, <1>4
        <4>2. g[i - 1] = f[i - 1]
            BY <4>1, <2>4
        <4>3. CASE i = m
            BY <4>2, <4>3, <2>4, <3>2
        <4>4. CASE i # m
          <5>1. i \in 0..(m - 1)
              BY <4>4, <1>2
          <5> QED
              BY <4>2, <4>4, <5>1, <2>4, <2>5, <3>2
        <4> QED
            BY <4>3, <4>4
      <3> QED
          BY <3>1, <3>2
    <2>7. g = [i \in 0..m |-> g[i]]
        OBVIOUS
    <2> HIDE DEF g
    <2>8. Draining(g, m, b, q)
        BY <2>6, <2>7 DEF Draining
    <2> QED
        BY <2>8, <1>2
  <1> QED
      BY <1>3, <1>4

\* What Drain computes.
LEMMA DrainRuns ==
    ASSUME NEW s \in Sessions, NEW loops
    PROVE  \E f : /\ Draining(f, Len(s.queue), [s |-> s, loops |-> loops], s.queue)
                  /\ Drain(s, loops) = f[Len(s.queue)].s
  <1> DEFINE n == Len(s.queue)
  <1> DEFINE b == [s |-> s, loops |-> loops]
  <1> DEFINE f == CHOOSE f : Draining(f, n, b, s.queue)
  <1>1. n \in Nat
      BY SessionFields
  <1>2. \E h : Draining(h, n, b, s.queue)
    <2> HIDE DEF n, b
    <2> QED
        BY <1>1, DrainingExists
  <1>3. Draining(f, n, b, s.queue)
    <2> HIDE DEF n, b
    <2> QED
        BY <1>2, Zenon
  <1>4. Drain(s, loops) = f[n].s
      BY DEF Drain, Draining
  <1> QED
      BY <1>3, <1>4

\* One turn of the loop.
LEMMA DrainStepKeeps ==
    ASSUME ~Orderly, NEW s \in Sessions, SessionInv(s), ~s.err, NEW loops \in Nat,
           loops # 0 => Len(s.queue) # 0, NEW a \in Acts({"Move"})
    PROVE  LET t == DrainStep([s |-> s, loops |-> loops], a) IN
           /\ t = [s |-> t.s, loops |-> t.loops] /\ t.loops \in Nat
           /\ Carries(s, t.s) /\ ~t.s.err
           /\ loops = 0 => t.loops = 0
           /\ loops # 0 => Len(t.s.queue) = Len(s.queue) - 1
  <1> DEFINE r == [s |-> s, loops |-> loops]
  <1> DEFINE t == DrainStep(r, a)
  <1>1. CASE loops = 0
    <2>1. t = r
        BY <1>1 DEF DrainStep
    <2> QED
        BY <2>1, <1>1 DEF Carries
  <1>2. CASE loops # 0
    <2> DEFINE u == [s EXCEPT !.queue = Tail(@)]
    <2> DEFINE v == [u EXCEPT !.stop = FALSE]
    <2> DEFINE d == DoOnChainAction(v, a)
    <2>1. [s EXCEPT !.queue = Tail(@), !.stop = FALSE] = v
        OBVIOUS
    <2>2. t = IF d.err THEN [s |-> v, loops |-> loops - 1]
              ELSE [s |-> d, loops |-> IF d.stop THEN loops + 1 ELSE loops]
        BY <1>2, <2>1 DEF DrainStep
    <2>3. /\ u \in Sessions /\ u.me = s.me /\ SessionInv(u) /\ u.err = s.err
          /\ Len(u.queue) = Len(s.queue) - 1
        BY <1>2, PopKeeps
    <2> HIDE DEF u
    <2>4. Carries(u, v) /\ v.queue = u.queue /\ v.err = u.err
        BY <2>3, FreshKeeps
    <2> HIDE DEF v
    <2>5. v \in Sessions /\ v.me = s.me /\ SessionInv(v) /\ ~v.err
          /\ Len(v.queue) = Len(s.queue) - 1
        BY <2>3, <2>4 DEF Carries
    <2>6. a \in Actions /\ a.k # "Garble"
        BY QueuedActs
    <2>7. Carries(v, d) /\ d.queue = v.queue
        BY <2>5, <2>6, ActionKeeps
    <2> HIDE DEF d, t
    <2>8. CASE d.err
      <3>1. t = [s |-> v, loops |-> loops - 1]
          BY <2>2, <2>8
      <3>2. loops - 1 \in Nat
          BY <1>2
      <3> QED
          BY <3>1, <3>2, <1>2, <2>5 DEF Carries, t
    <2>9. CASE ~d.err
      <3> DEFINE l == IF d.stop THEN loops + 1 ELSE loops
      <3>1. t = [s |-> d, loops |-> l] /\ l \in Nat
          BY <2>2, <2>9
      <3> HIDE DEF l
      <3>2. t.s = d /\ t.loops = l
          BY <3>1
      <3>3. Carries(s, d) /\ Len(d.queue) = Len(s.queue) - 1
          BY <2>5, <2>7 DEF Carries
      <3> QED
          BY <3>1, <3>2, <3>3, <1>2, <2>9 DEF t
    <2> QED
        BY <2>8, <2>9
  <1> QED
      BY <1>1, <1>2

\* The loops keep the session in order, and have nothing to do when the queue
\* is empty.
LEMMA DrainKeeps ==
    ASSUME NEW s \in Sessions, SessionInv(s), ~s.err, NEW loops \in Nat, ~Orderly
    PROVE  Carries(s, Drain(s, loops)) /\ ~Drain(s, loops).err
  <1> DEFINE q == s.queue
  <1> DEFINE n == Len(q)
  <1> DEFINE b == [s |-> s, loops |-> loops]
  <1>1. q \in Seq(Acts({"Move"})) /\ n \in Nat
      BY SessionFields
  <1>2. PICK f : Draining(f, n, b, q) /\ Drain(s, loops) = f[n].s
      BY DrainRuns
  <1>3. b = [s |-> b.s, loops |-> b.loops] /\ b.s = s /\ b.loops = loops
      OBVIOUS
  <1>4. \A i \in 1..n : q[i] \in Acts({"Move"})
      BY <1>1
  <1> HIDE DEF n, b
  <1>5. f[0] = b /\ \A i \in 1..n : f[i] = DrainStep(f[i - 1], q[i])
      BY <1>1, <1>2 DEF Draining
  <1> DEFINE Good(i) == /\ f[i] = [s |-> f[i].s, loops |-> f[i].loops]
                        /\ f[i].loops \in Nat /\ Carries(s, f[i].s) /\ ~f[i].s.err
                        /\ f[i].loops # 0 => Len(f[i].s.queue) = n - i
  <1>6. Good(0)
    <2>1. Carries(s, s) /\ Len(s.queue) = n - 0
        BY <1>1 DEF Carries, n
    <2> QED
        BY <2>1, <1>3, <1>5
  <1>7. ASSUME NEW i \in 1..n, Good(i - 1)
        PROVE  Good(i)
    <2> DEFINE x == f[i - 1].s
    <2> DEFINE l == f[i - 1].loops
    <2> DEFINE y == f[i]
    <2>1. x \in Sessions /\ SessionInv(x) /\ x.me = s.me /\ ~x.err /\ l \in Nat
        BY <1>7 DEF Carries
    <2>2. l # 0 => Len(x.queue) = n - i + 1 /\ Len(x.queue) # 0
        BY <1>1, <1>7
    <2>3. y = DrainStep([s |-> x, loops |-> l], q[i]) /\ q[i] \in Acts({"Move"})
        BY <1>4, <1>5, <1>7
    <2> HIDE DEF x, l, y, q
    <2>4. /\ y = [s |-> y.s, loops |-> y.loops] /\ y.loops \in Nat
          /\ Carries(x, y.s) /\ ~y.s.err
          /\ l = 0 => y.loops = 0
          /\ l # 0 => Len(y.s.queue) = Len(x.queue) - 1
        BY <2>1, <2>2, <2>3, DrainStepKeeps
    <2>5. Carries(s, y.s)
        BY <2>1, <2>4 DEF Carries
    <2>6. y.loops # 0 => Len(y.s.queue) = n - i
      <3>1. PICK m, k : m = Len(x.queue) /\ k = Len(y.s.queue)
          OBVIOUS
      <3>2. y.loops # 0 => m = n - i + 1 /\ k = m - 1
          BY <3>1, <2>2, <2>4
      <3>3. m = n - i + 1 /\ k = m - 1 => k = n - i
          BY <1>1
      <3> QED
          BY <3>1, <3>2, <3>3
    <2> QED
        BY <2>4, <2>5, <2>6 DEF y
  <1>8. Good(n)
    <2> DEFINE T == {i \in 0..n : ~Good(i)}
    <2> HIDE DEF Good
    <2> SUFFICES ASSUME T # {} PROVE FALSE
        BY <1>1
    <2>1. PICK m \in T : \A y \in T : m <= y
      <3>1. T \in SUBSET Nat
          OBVIOUS
      <3> QED
          BY <3>1, LeastIn
    <2>2. m \in 1..n
        BY <2>1, <1>1, <1>6
    <2>3. m - 1 \in 0..n /\ ~(m <= m - 1)
        BY <2>2, <1>1
    <2>4. Good(m - 1)
        BY <2>1, <2>3
    <2> QED
        BY <2>1, <2>2, <2>4, <1>7
  <1> QED
      BY <1>2, <1>8

LEMMA DrainEmpty ==
    ASSUME NEW s \in Sessions, s.queue = << >>, NEW loops
    PROVE  Drain(s, loops) = s
  <1> DEFINE b == [s |-> s, loops |-> loops]
  <1>1. Len(s.queue) = 0
      OBVIOUS
  <1>2. PICK f : Draining(f, 0, b, s.queue) /\ Drain(s, loops) = f[0].s
      BY <1>1, DrainRuns
  <1> HIDE DEF b
  <1>3. f[0] = b
      BY <1>2 DEF Draining
  <1> QED
      BY <1>2, <1>3 DEF b

-----------------------------------------------------------------------------
(***************************************************************************)
(* A game coin is spent.                                                   *)
(***************************************************************************)

\* What a handler makes of the session.
Answers(s, t) == Carries(s, t) /\ (Orderly => t.queue = << >>)

LEMMA AnswersTwice ==
    ASSUME NEW s, NEW u, NEW t, u.me = s.me, u.err = s.err, Answers(u, t)
    PROVE  Answers(s, t)
  BY DEF Answers, Carries

\* With nothing in the queue there is nothing to process.
LEMMA QuietKeeps ==
    ASSUME NEW s \in Sessions, SessionInv(s), Orderly => s.queue = << >>
    PROVE  Answers(s, ProcessQueuedAction(s))
  <1>1. Orderly => Len(s.queue) = 0
      OBVIOUS
  <1>2. Orderly => Len(s.queue) <= 1 /\ (Len(s.queue) # 0 => Proper(s, s.queue[1]))
      BY <1>1
  <1> QED
      BY <1>2, QueueKeeps DEF Answers

\* The end of a game is told and the queue processed.
LEMMA ToldKeeps ==
    ASSUME NEW s \in Sessions, NEW g \in Games, SessionInv(s), ~Tracked(s, g),
           told[s.me][g] = << >>, s.told[g] = << >>, Orderly => s.queue = << >>,
           NEW o \in Outcomes, NEW sh \in 0..Amount,
           TellingTrue(s.me, g, [outcome |-> o, share |-> sh])
    PROVE  Answers(s, ProcessQueuedAction(Settled(s, g, o, sh)))
  <1> DEFINE t == Settled(s, g, o, sh)
  <1>1. SessionInv(t)
      BY SettledKeeps
  <1>2. Becomes(s, t, g, s.map[g], s.pend[g], s.ref[g], s.last[g],
                Append(s.told[g], [outcome |-> o, share |-> sh]), s.spends[g])
      BY SettledForm
  <1> HIDE DEF t
  <1>3. t \in Sessions /\ t.me = s.me /\ t.err = s.err /\ t.queue = s.queue
      BY <1>2 DEF Becomes
  <1>4. Answers(t, ProcessQueuedAction(t))
      BY <1>1, <1>3, QuietKeeps
  <1>5. Answers(s, ProcessQueuedAction(t))
      BY <1>3, <1>4, AnswersTwice
  <1> QED
      BY <1>5 DEF t

\* What a player is told of a payout.
LEMMA PayOutTrue ==
    ASSUME NEW p \in Party, NEW g \in Games, coin[g] \in Spends,
           NEW o \in Outcomes \ WithoutCoin, NEW sh, sh = coin[g].pay[p],
           Orderly => Story(p, g, coin[g], o)
    PROVE  TellingTrue(p, g, [outcome |-> o, share |-> sh])
  <1>1. o # "EndedError"
      BY DEF WithoutCoin
  <1> QED
      BY <1>1 DEF TellingTrue

LEMMA OutcomeNames ==
    /\ {"SettledCleanly", "OpponentTimedOut", "WeAccepted", "AttemptToMoveFailed",
        "TimedOutWaitingForOurMove", "SlashedOpponent", "OpponentSlashedUs",
        "OpponentCheated"} \subseteq Outcomes \ WithoutCoin
    /\ \A old : TimeoutOutcome(old) \in Outcomes \ WithoutCoin
  BY DEF Outcomes, WithoutCoin, Forfeits, TimeoutOutcome

\* What the invariants say of the spend of a tracked coin.
LEMMA SpentFacts ==
    ASSUME TypeOK, ChainInv, PoolInv, NEW s \in Sessions, SessionInv(s), NEW g \in Games,
           NEW sp \in spent[g], Tracks(s, g, sp.coin)
    PROVE  LET e  == s.map[g]
               pd == s.pend[g] IN
           /\ e \in Entries /\ e # Absent /\ e.coin = sp.coin /\ sp \in Spends
           /\ pd \in Pendings /\ GameInv(s, g)
           /\ told[s.me][g] = << >> /\ s.told[g] = << >>
           /\ pd # Absent => pd.coin = sp.coin /\ e.our_turn /\ ~e.slash /\ sp.coin.mover = s.me
           /\ sp.k = "Move" => Succeeds(sp.coin, sp.to) /\ ~sp.coin.over
           /\ sp.k = "Move" /\ sp.to.raises => sp.coin.mover \in Faulty
           /\ sp.k = "Move" /\ sp.coin.mover = s.me => pd # Absent /\ pd.expected = sp.to
           /\ sp.k # "Move" => sp = coin[g] /\ PayOut(sp)
  <1> DEFINE e == s.map[g]
  <1> DEFINE pd == s.pend[g]
  <1>1. e \in Entries /\ e # Absent /\ e.coin = sp.coin /\ pd \in Pendings /\ Tracked(s, g)
      BY SessionFields DEF Tracks, Tracked
  <1>2. sp \in Spends
      BY DEF TypeOK
  <1>3. GameInv(s, g)
      BY DEF SessionInv
  <1>4. told[s.me][g] = << >> /\ s.told[g] = << >>
      BY <1>1, <1>3 DEF GameInv, TerminalInv
  <1>5. pd # Absent => pd.coin = sp.coin /\ e.our_turn /\ ~e.slash /\ sp.coin.mover = s.me
    <2>1. pd # Absent => pd.coin = sp.coin /\ e.our_turn /\ sp.coin.mover = s.me
        BY <1>1, <1>3 DEF GameInv, PendingInv
    <2>2. e.our_turn => ~e.slash
        BY <1>1, <1>3 DEF GameInv, TurnInv
    <2> QED
        BY <2>1, <2>2
  <1>6. sp.k = "Move" => sp \in pool[g] /\ ~sp.coin.over
      BY DEF ChainInv
  <1>7. sp.k = "Move" => Succeeds(sp.coin, sp.to) /\ (sp.to.raises => sp.coin.mover \in Faulty)
      BY <1>6 DEF PoolInv, Submitted
  <1>8. sp.k # "Move" => sp = coin[g] /\ PayOut(sp)
      BY DEF ChainInv
  <1>9. sp.k = "Move" /\ sp.coin.mover = s.me => pd # Absent /\ pd.expected = sp.to
    <2> SUFFICES ASSUME sp.k = "Move", sp.coin.mover = s.me
                 PROVE  pd # Absent /\ pd.expected = sp.to
        OBVIOUS
    <2>1. sp.coin.n < e.coin.n \/ (pd # Absent /\ pd.expected = sp.to)
        BY <1>1, <1>3, <1>6 DEF GameInv, MovesInv
    <2>2. ~(sp.coin.n < e.coin.n)
      <3>1. sp.coin.n \in Nat
          BY <1>2, SpendFields, PositionFields
      <3> QED
          BY <3>1, <1>1
    <2> QED
        BY <2>1, <2>2
  <1> QED
      BY <1>1, <1>2, <1>3, <1>4, <1>5, <1>6, <1>7, <1>8, <1>9

\* What the puzzle pays a player, by the path it took.
LEMMA PaysWhom ==
    ASSUME NEW sp \in Spends, PayOut(sp), NEW p \in Party
    PROVE  /\ sp.k = "Timeout" => sp.pay[p] = TimeoutSpend(sp.coin).pay[p]
           /\ sp.k = "Timeout" /\ sp.coin.mover = p => sp.pay[p] = sp.coin.share
           /\ sp.k = "Slash" => FirstPaid(sp) = sp.coin.mover /\ ~sp.coin.legal
           /\ sp.k = "Slash" /\ sp.coin.mover # p => sp.pay[p] = 0
           /\ sp.k = "Slash" /\ sp.coin.mover = p => sp.pay[Other(p)] = 0
           /\ sp.coin.mover = p /\ FirstPaid(sp) # p => sp.pay[p] = 0
           /\ sp.k = "Timeout" \/ sp.k = "Slash"
           /\ sp.pay[p] \in 0..Amount /\ sp.pay[Other(p)] \in 0..Amount
           /\ sp.pay[p] > 0 \/ sp.pay[Other(p)] > 0
  <1> DEFINE m == sp.coin.mover
  <1>1. sp.coin \in Positions /\ m \in Party /\ Other(p) \in Party
      BY SpendFields, PositionFields, OtherParty
  <1>2. sp.pay[m] \in Nat /\ sp.pay[p] \in 0..Amount /\ sp.pay[Other(p)] \in 0..Amount
      BY <1>1, SpendFields
  <1>3. /\ sp.k = "Timeout" \/ sp.k = "Slash"
        /\ sp.k = "Timeout" => sp = TimeoutSpend(sp.coin)
        /\ sp.k = "Slash" => sp = SlashSpend(sp.coin) /\ ~sp.coin.legal
      BY PayOutPays
  <1>4. sp.k = "Timeout" => sp.pay[m] = sp.coin.share
      BY <1>1, <1>3, TimeoutPays
  <1>5. sp.k = "Slash" => sp.pay[m] = Amount /\ sp.pay[Other(m)] = 0
      BY <1>1, <1>3, SlashPays
  <1>6. sp.k = "Slash" => FirstPaid(sp) = m
      BY <1>5, AmountAssumption DEF FirstPaid
  <1>7. m # p => p = Other(m)
      BY <1>1, OtherParty
  <1>8. m = p /\ FirstPaid(sp) # p => sp.pay[p] = 0
      BY <1>2 DEF FirstPaid
  <1>9. sp.pay[p] > 0 \/ sp.pay[Other(p)] > 0
    <2>1. sp.pay[p] + sp.pay[Other(p)] = Amount
        BY PayOutPays
    <2> QED
        BY <2>1, <1>2, AmountAssumption
  <1> QED
      BY <1>2, <1>3, <1>4, <1>5, <1>6, <1>7, <1>8, <1>9

\* A game whose coin is paid out with nothing else known of it.
LEMMA PaidOutKeeps ==
    ASSUME NEW s \in Sessions, NEW g \in Games, SessionInv(s), ~Tracked(s, g),
           told[s.me][g] = << >>, s.told[g] = << >>, Orderly => s.queue = << >>,
           NEW sp \in Spends, sp = coin[g], PayOut(sp), NEW old,
           old.our_turn => sp.coin.mover = s.me, sp.coin.mover = s.me => sp.coin.legal,
           Orderly /\ ~old.our_turn => sp.coin.mover # s.me \/ MoveTooLate(s.me, g, sp),
           FirstPaid(sp) # s.me =>
               OurCurrentShare(s.ref[g]) = TimeoutSpend(sp.coin).pay[s.me]
    PROVE  Answers(s, PaidOut(s, g, old, sp))
  <1> DEFINE p == s.me
  <1> DEFINE o == TimeoutOutcome(old)
  <1>1. p \in Party /\ s.ref[g] \in Referees
      BY SessionFields
  <1>2. o \in Outcomes \ WithoutCoin /\ "OpponentSlashedUs" \in Outcomes \ WithoutCoin
      BY OutcomeNames
  <1>3. /\ sp.k = "Timeout" => sp.pay[p] = TimeoutSpend(sp.coin).pay[p]
        /\ sp.k = "Slash" => FirstPaid(sp) = sp.coin.mover /\ ~sp.coin.legal
        /\ sp.k = "Slash" /\ sp.coin.mover # p => sp.pay[p] = 0
        /\ sp.k = "Timeout" \/ sp.k = "Slash"
        /\ sp.pay[p] \in 0..Amount
      BY <1>1, PaysWhom
  <1>4. Orderly /\ sp.k = "Timeout" => Story(p, g, sp, o)
    <2>1. CASE old.finished
      <3>1. o = "SettledCleanly"
          BY <2>1 DEF TimeoutOutcome
      <3> QED
          BY <3>1 DEF Story
    <2>2. CASE ~old.finished /\ old.our_turn
      <3>1. o = "TimedOutWaitingForOurMove"
          BY <2>2 DEF TimeoutOutcome
      <3> QED
          BY <3>1, <2>2 DEF Story
    <2>3. CASE ~old.finished /\ ~old.our_turn
      <3>1. o = "OpponentTimedOut"
          BY <2>3 DEF TimeoutOutcome
      <3> QED
          BY <3>1, <2>3 DEF Story
    <2> QED
        BY <2>1, <2>2, <2>3
  <1>5. coin[g] \in Spends
      OBVIOUS
  <1>6. CASE FirstPaid(sp) = p
    <2>1. sp.k = "Timeout"
        BY <1>3, <1>6
    <2>2. TellingTrue(p, g, [outcome |-> o, share |-> sp.pay[p]])
        BY <2>1, <1>1, <1>2, <1>4, <1>5, PayOutTrue
    <2>3. Answers(s, ProcessQueuedAction(Settled(s, g, o, sp.pay[p])))
        BY <2>2, <1>2, <1>3, ToldKeeps
    <2> QED
        BY <2>3, <1>6 DEF PaidOut
  <1>7. CASE FirstPaid(sp) # p /\ sp.k = "Slash"
    <2>1. sp.coin.mover # p /\ sp.pay[p] = 0 /\ ~old.our_turn
        BY <1>3, <1>7
    <2>2. Story(p, g, sp, "OpponentSlashedUs")
        BY <2>1, <1>7 DEF Story
    <2>3. TellingTrue(p, g, [outcome |-> "OpponentSlashedUs", share |-> 0])
        BY <2>1, <2>2, <1>1, <1>2, <1>5, PayOutTrue
    <2>4. 0 \in 0..Amount
        BY AmountAssumption
    <2>5. Answers(s, ProcessQueuedAction(Settled(s, g, "OpponentSlashedUs", 0)))
        BY <2>3, <2>4, <1>2, ToldKeeps
    <2> QED
        BY <2>1, <2>5, <1>7 DEF PaidOut, Timedout
  <1>8. CASE FirstPaid(sp) # p /\ sp.k # "Slash"
    <2> DEFINE sh == OurCurrentShare(s.ref[g])
    <2>1. sp.k = "Timeout" /\ sh = sp.pay[p]
        BY <1>3, <1>8
    <2> HIDE DEF sh
    <2>2. TellingTrue(p, g, [outcome |-> o, share |-> sh])
        BY <2>1, <1>1, <1>2, <1>4, <1>5, PayOutTrue
    <2>3. Answers(s, ProcessQueuedAction(Settled(s, g, o, sh)))
        BY <2>1, <2>2, <1>2, <1>3, ToldKeeps
    <2> QED
        BY <2>3, <1>8 DEF PaidOut, Timedout, sh
  <1> QED
      BY <1>6, <1>7, <1>8

\* The coin of a game we are slashing is paid out.
LEMMA SlashResolvedKeeps ==
    ASSUME NEW s \in Sessions, NEW g \in Games, SessionInv(s), ~Tracked(s, g),
           told[s.me][g] = << >>, s.told[g] = << >>, Orderly => s.queue = << >>,
           NEW sp \in Spends, sp = coin[g], PayOut(sp), NEW old,
           sp.coin.mover = s.me, ~sp.coin.legal, old.cheat_share = sp.coin.share
    PROVE  Answers(s, SlashResolved(s, g, old, sp))
  <1> DEFINE p == s.me
  <1>1. p \in Party /\ coin[g] \in Spends
      BY SessionFields
  <1>2. /\ "OpponentCheated" \in Outcomes \ WithoutCoin
        /\ "SlashedOpponent" \in Outcomes \ WithoutCoin
      BY OutcomeNames
  <1>3. /\ sp.k = "Timeout" => sp.pay[p] = sp.coin.share
        /\ sp.k = "Slash" => sp.pay[Other(p)] = 0
        /\ sp.k = "Timeout" \/ sp.k = "Slash"
        /\ sp.pay[p] \in 0..Amount /\ sp.pay[Other(p)] \in 0..Amount
        /\ sp.pay[p] > 0 \/ sp.pay[Other(p)] > 0
      BY <1>1, PaysWhom
  <1>4. CASE sp.pay[Other(p)] > 0
    <2>1. sp.k = "Timeout" /\ old.cheat_share = sp.pay[p]
        BY <1>3, <1>4
    <2>2. Story(p, g, sp, "OpponentCheated")
        BY <2>1 DEF Story
    <2> DEFINE sh == old.cheat_share
    <2>3. sh \in 0..Amount /\ sh = coin[g].pay[p]
        BY <2>1, <1>3
    <2> HIDE DEF sh
    <2>4. TellingTrue(p, g, [outcome |-> "OpponentCheated", share |-> sh])
        BY <2>2, <2>3, <1>1, <1>2, PayOutTrue
    <2>5. Answers(s, ProcessQueuedAction(Settled(s, g, "OpponentCheated", sh)))
        BY <2>3, <2>4, <1>2, ToldKeeps
    <2> QED
        BY <2>5, <1>4 DEF SlashResolved, sh
  <1>5. CASE ~(sp.pay[Other(p)] > 0)
    <2>1. Story(p, g, sp, "SlashedOpponent")
        BY DEF Story
    <2>2. TellingTrue(p, g, [outcome |-> "SlashedOpponent", share |-> sp.pay[p]])
        BY <2>1, <1>1, <1>2, PayOutTrue
    <2>3. Answers(s, ProcessQueuedAction(Settled(s, g, "SlashedOpponent", sp.pay[p])))
        BY <2>2, <1>2, <1>3, ToldKeeps
    <2> QED
        BY <2>3, <1>3, <1>5 DEF SlashResolved
  <1> QED
      BY <1>4, <1>5

\* Our move was overtaken by the opponent's claim.
LEMMA MoveOvertakenKeeps ==
    ASSUME NEW s \in Sessions, NEW g \in Games, SessionInv(s), ~Tracked(s, g),
           told[s.me][g] = << >>, s.told[g] = << >>, Orderly => s.queue = << >>,
           NEW sp \in Spends, sp = coin[g], PayOut(sp), NEW old,
           sp.coin.mover = s.me, FirstPaid(sp) # s.me
    PROVE  Answers(s, MoveOvertaken(s, g, old))
  <1> DEFINE p == s.me
  <1> DEFINE o == IF old.finished THEN "SettledCleanly" ELSE "AttemptToMoveFailed"
  <1>1. p \in Party /\ coin[g] \in Spends
      BY SessionFields
  <1>2. o \in Outcomes \ WithoutCoin
      BY OutcomeNames
  <1>3. sp.k = "Timeout" /\ sp.pay[p] = 0
      BY <1>1, PaysWhom
  <1>4. Story(p, g, sp, o)
      BY <1>3 DEF Story
  <1>5. 0 \in 0..Amount
      BY AmountAssumption
  <1> HIDE DEF o
  <1>6. TellingTrue(p, g, [outcome |-> o, share |-> 0])
      BY <1>1, <1>2, <1>3, <1>4, PayOutTrue
  <1>7. Answers(s, ProcessQueuedAction(Settled(s, g, o, 0)))
      BY <1>2, <1>5, <1>6, ToldKeeps
  <1> QED
      BY <1>7 DEF MoveOvertaken, o

\* The coin of a game we accepted is paid out.
LEMMA ArmedPaidKeeps ==
    ASSUME NEW s \in Sessions, NEW g \in Games, SessionInv(s), ~Tracked(s, g),
           told[s.me][g] = << >>, s.told[g] = << >>, Orderly => s.queue = << >>,
           NEW sp \in Spends, sp = coin[g], PayOut(sp), NEW old,
           Orderly => sp.coin.legal
    PROVE  Answers(s, ArmedSpent(s, g, old, sp))
  <1> DEFINE p == s.me
  <1> DEFINE o == IF old.finished THEN "SettledCleanly" ELSE "WeAccepted"
  <1>1. p \in Party /\ coin[g] \in Spends
      BY SessionFields
  <1>2. o \in Outcomes \ WithoutCoin
      BY OutcomeNames
  <1>3. /\ sp.k = "Timeout" \/ sp.k = "Slash"
        /\ sp.k = "Slash" => ~sp.coin.legal
        /\ sp.pay[p] \in 0..Amount
      BY <1>1, PaysWhom
  <1>4. Orderly => Story(p, g, sp, o)
      BY <1>3 DEF Story
  <1> HIDE DEF o
  <1>5. TellingTrue(p, g, [outcome |-> o, share |-> sp.pay[p]])
      BY <1>1, <1>2, <1>4, PayOutTrue
  <1>6. Answers(s, ProcessQueuedAction(Settled(s, g, o, sp.pay[p])))
      BY <1>2, <1>3, <1>5, ToldKeeps
  <1>7. sp.k # "Move"
      BY <1>3
  <1> QED
      BY <1>6, <1>7 DEF ArmedSpent, o

\* The game goes on at a coin that comes after all the moves we submitted, or
\* with its one move pending.
LEMMA PlacedNext ==
    ASSUME NEW s \in Sessions, NEW t, NEW g \in Games, SessionInv(s), ~Tracked(s, g),
           told[s.me][g] = << >>, NEW e \in Entries, e # Absent, NEW r \in Referees,
           Becomes(s, t, g, e, Absent, r, r.spend, << >>, s.spends[g]),
           ~e.slash, e.our_turn = (e.coin.mover = s.me), Orderly /\ e.armed => e.our_turn,
           ~e.armed \/ Orderly =>
               IF e.coin.mover = s.me
               THEN r.mine /\ r.spend = e.coin /\ e.coin.legal
               ELSE ~r.mine /\ r.spend = e.coin /\ r.create.n <= r.spend.n,
           ~e.armed /\ e.our_turn /\ e.coin.over => e.finished,
           \A sp \in pool[g] \cup s.spends[g] :
               sp.k = "Move" /\ sp.coin.mover = s.me => sp.coin.n < e.coin.n
    PROVE  t \in Sessions /\ Unclaimed(t, g) /\ t.me = s.me /\ t.queue = s.queue /\ t.err = s.err
  <1>1. /\ t \in Sessions /\ t.me = s.me /\ t.queue = s.queue /\ t.claims = s.claims
        /\ t.err = s.err /\ \A h \in Games : h # g => Same(s, t, h)
      BY DEF Becomes
  <1>2. /\ t.map[g] = e /\ t.pend[g] = Absent /\ t.ref[g] = r /\ t.last[g] = r.spend
        /\ t.told[g] = << >> /\ t.spends[g] = s.spends[g]
      BY DEF Becomes
  <1>3. \A h \in Games : h # g => GameInv(t, h)
    <2> SUFFICES ASSUME NEW h \in Games, h # g PROVE GameInv(t, h)
        OBVIOUS
    <2>1. Same(s, t, h) /\ GameInv(s, h) /\ s.claims \subseteq t.claims /\ (s.err => t.err)
        BY <1>1 DEF SessionInv
    <2> QED
        BY <2>1, <1>1, SameKeeps
  <1>4. Tracked(t, g)
      BY <1>2 DEF Tracked
  <1>5. GameInv(s, g)
      BY DEF SessionInv
  <1>6. TerminalInv(t, g) /\ PendingInv(t, g)
      BY <1>1, <1>2 DEF TerminalInv, PendingInv
  <1>7. TurnInv(t, g)
      BY <1>1, <1>2 DEF TurnInv
  <1>8. ~e.armed \/ Orderly => AtCoin(t, g)
      BY <1>1, <1>2 DEF AtCoin
  <1>9. RefereeInv(t, g)
      BY <1>1, <1>2, <1>8 DEF RefereeInv
  <1>10. MovesInv(t, g)
      BY <1>1, <1>2 DEF MovesInv
  <1>11. ArmedInv(t, g)
      BY <1>1, <1>2, <1>8 DEF ArmedInv
  <1>12. FinishedInv(t, g)
      BY <1>2 DEF FinishedInv
  <1>13. SpendsInv(t, g)
      BY <1>1, <1>2, <1>5 DEF GameInv, SpendsInv
  <1>14. Orderly => ClaimsGood(t.me, t.claims)
      BY <1>1 DEF SessionInv
  <1>15. Orderly => TimeoutArgs(t.ref[g], t.map[g].coin) = t.map[g].coin
    <2> SUFFICES ASSUME Orderly PROVE TimeoutArgs(r, e.coin) = e.coin
        BY <1>2
    <2>1. r.spend = e.coin
        OBVIOUS
    <2> QED
        BY <2>1, ClaimArgs
  <1>16. Placed(t, g)
      BY <1>6, <1>7, <1>9, <1>10, <1>11, <1>12, <1>13 DEF Placed
  <1> QED
      BY <1>1, <1>3, <1>4, <1>14, <1>15, <1>16 DEF Unclaimed

\* A player's moves were of coins that come before the one it gets to.
LEMMA MovesBelow ==
    ASSUME TypeOK, NEW s \in Sessions, SessionInv(s), NEW g \in Games, Tracked(s, g),
           NEW to \in Positions, to.n = s.map[g].coin.n + 1
    PROVE  \A sp \in pool[g] \cup s.spends[g] :
               sp.k = "Move" /\ sp.coin.mover = s.me => sp.coin.n < to.n
  <1> SUFFICES ASSUME NEW sp \in pool[g] \cup s.spends[g], sp.k = "Move", sp.coin.mover = s.me
               PROVE  sp.coin.n < to.n
      OBVIOUS
  <1> DEFINE c == s.map[g].coin
  <1>1. s.map[g] \in Entries /\ s.map[g] # Absent /\ s.spends[g] \subseteq Spends
      BY SessionFields DEF Tracked
  <1>2. c.n \in Nat
      BY <1>1, EntryFields, PositionFields
  <1>3. sp \in Spends
      BY <1>1 DEF TypeOK
  <1>4. sp.coin.n \in Nat
      BY <1>3, SpendFields, PositionFields
  <1>5. sp.coin.n < c.n \/ sp.coin = c
      BY DEF SessionInv, GameInv, MovesInv
  <1> QED
      BY <1>2, <1>4, <1>5

\* A coin we follow to is entered and its claim registered.
LEMMA FollowKeeps ==
    ASSUME NEW s \in Sessions, NEW g \in Games, SessionInv(s), ~Tracked(s, g),
           s.pend[g] = Absent, told[s.me][g] = << >>, s.told[g] = << >>,
           NEW e \in Entries, e # Absent, NEW r \in Referees,
           ~e.slash, e.our_turn = (e.coin.mover = s.me), Orderly => ~e.armed,
           ~e.armed => IF e.coin.mover = s.me
                       THEN r.mine /\ r.spend = e.coin /\ e.coin.legal
                       ELSE ~r.mine /\ r.spend = e.coin /\ r.create.n <= r.spend.n,
           ~e.armed /\ e.our_turn /\ e.coin.over => e.finished,
           \A sp \in pool[g] \cup s.spends[g] :
               sp.k = "Move" /\ sp.coin.mover = s.me => sp.coin.n < e.coin.n
    PROVE  LET t == RegisterCoin(Enter(Follow(s, g, r, r.spend), g, e), g, e.coin) IN
           /\ Carries(s, t) /\ t.queue = s.queue /\ t.err = s.err
           /\ t.map[g] = e /\ t.pend[g] = Absent /\ t.ref[g] = r /\ t.last[g] = r.spend
  <1> DEFINE u == Follow(s, g, r, r.spend)
  <1> DEFINE v == Enter(u, g, e)
  <1> DEFINE t == RegisterCoin(v, g, e.coin)
  <1>1. r.spend \in Positions
      BY RefereeFields
  <1>2. Becomes(s, u, g, s.map[g], s.pend[g], r, r.spend, s.told[g], s.spends[g])
      BY <1>1, FollowForm
  <1> HIDE DEF u
  <1>3. u \in Sessions /\ u.pend[g] = Absent /\ u.ref[g] = r /\ u.last[g] = r.spend
        /\ u.told[g] = << >> /\ u.spends[g] = s.spends[g]
      BY <1>2 DEF Becomes
  <1>4. Becomes(u, v, g, e, u.pend[g], u.ref[g], u.last[g], u.told[g], u.spends[g])
      BY <1>3, EnterForm
  <1> HIDE DEF v
  <1>5. Becomes(s, v, g, e, Absent, r, r.spend, << >>, s.spends[g])
      BY <1>2, <1>3, <1>4, BecomesTwice
  <1>6. v \in Sessions /\ Unclaimed(v, g) /\ v.me = s.me /\ v.queue = s.queue /\ v.err = s.err
      BY <1>5, PlacedNext
  <1>7. v.map[g] = e /\ v.pend[g] = Absent /\ v.ref[g] = r /\ v.last[g] = r.spend
      BY <1>5 DEF Becomes
  <1>8. /\ Carries(v, t) /\ t.queue = v.queue /\ t.err = v.err
        /\ \A h \in Games : Same(v, t, h)
      BY <1>6, <1>7, RegisterKeeps
  <1> HIDE DEF t
  <1>9. Carries(s, t)
      BY <1>6, <1>8 DEF Carries
  <1>10. t.map[g] = e /\ t.pend[g] = Absent /\ t.ref[g] = r /\ t.last[g] = r.spend
      BY <1>7, <1>8 DEF Same
  <1> QED
      BY <1>6, <1>8, <1>9, <1>10 DEF t, v, u

\* The entry old at the coin to.
Moved(old, to, turn, over) == [old EXCEPT !.coin = to, !.our_turn = turn, !.finished = over]

LEMMA EntryNext ==
    ASSUME NEW old \in Entries, old # Absent, NEW to \in Positions,
           NEW turn \in BOOLEAN, NEW over \in BOOLEAN
    PROVE  LET e == Moved(old, to, turn, over) IN
           /\ e \in Entries /\ e # Absent /\ e.coin = to /\ e.our_turn = turn
           /\ e.finished = over /\ e.armed = old.armed /\ e.slash = old.slash
  <1>1. old \in [k : {"Entry"}, coin : Positions, our_turn : BOOLEAN, finished : BOOLEAN,
                 armed : BOOLEAN, slash : BOOLEAN, cheat_share : 0..Amount]
      BY EntryFields
  <1> DEFINE e == Moved(old, to, turn, over)
  <1>2. e \in [k : {"Entry"}, coin : Positions, our_turn : BOOLEAN, finished : BOOLEAN,
               armed : BOOLEAN, slash : BOOLEAN, cheat_share : 0..Amount]
      BY <1>1 DEF Moved
  <1>3. /\ e.coin = to /\ e.our_turn = turn
        /\ e.finished = over /\ e.armed = old.armed /\ e.slash = old.slash
      BY <1>1 DEF Moved
  <1> HIDE DEF e
  <1>4. e \in Entries /\ e # Absent
      BY <1>2, EntryThere
  <1> QED
      BY <1>3, <1>4 DEF e

\* Our move landed.
LEMMA MoveLandedKeeps ==
    ASSUME NEW s \in Sessions, NEW g \in Games, SessionInv(s), ~Tracked(s, g),
           s.pend[g] = Absent, told[s.me][g] = << >>, s.told[g] = << >>,
           Orderly => s.queue = << >>,
           NEW old \in Entries, old # Absent, NEW r \in Referees,
           ~old.slash, Orderly => ~old.armed, ~r.mine, r.spend.mover # s.me,
           r.create.n <= r.spend.n,
           \A sp \in pool[g] \cup s.spends[g] :
               sp.k = "Move" /\ sp.coin.mover = s.me => sp.coin.n < r.spend.n
    PROVE  Answers(s, MoveLanded(s, g, old, r))
  <1> DEFINE over == IsGameOver(r)
  <1> DEFINE turn == FALSE
  <1> DEFINE e == Moved(old, r.spend, turn, over)
  <1>1. r.spend \in Positions /\ over \in BOOLEAN /\ turn \in BOOLEAN /\ ~turn
      BY RefereeFields, PositionFields DEF IsGameOver
  <1> HIDE DEF over, turn
  <1>2. /\ e \in Entries /\ e # Absent /\ e.coin = r.spend /\ e.our_turn = turn
        /\ e.armed = old.armed /\ e.slash = old.slash
      BY <1>1, EntryNext
  <1> HIDE DEF e
  <1> DEFINE t == RegisterCoin(Enter(Follow(s, g, r, r.spend), g, e), g, e.coin)
  <1>3. /\ ~e.slash /\ e.our_turn = (e.coin.mover = s.me) /\ (Orderly => ~e.armed)
        /\ ~(e.coin.mover = s.me) /\ ~e.our_turn
      BY <1>1, <1>2
  <1>4. Carries(s, t) /\ t.queue = s.queue /\ t.err = s.err
      BY <1>2, <1>3, FollowKeeps
  <1> HIDE DEF t
  <1>5. Answers(t, ProcessQueuedAction(t))
      BY <1>4, QuietKeeps DEF Carries
  <1>6. Answers(s, ProcessQueuedAction(t))
      BY <1>4, <1>5, AnswersTwice DEF Carries
  <1> QED
      BY <1>2, <1>6 DEF MoveLanded, t, e, over, turn, Enter, Moved

\* The opponent's cheat is slashed.
LEMMA SlashKeeps ==
    ASSUME NEW s \in Sessions, NEW g \in Games, SessionInv(s), ~Tracked(s, g),
           s.pend[g] = Absent, told[s.me][g] = << >>, s.told[g] = << >>,
           Orderly => s.queue = << >>,
           NEW old \in Entries, old # Absent, NEW to \in Positions, ~old.armed,
           to.mover = s.me, ~to.legal,
           \A sp \in pool[g] \cup s.spends[g] :
               sp.k = "Move" /\ sp.coin.mover = s.me => sp.coin.n < to.n
    PROVE  Answers(s, Slash(s, g, old, to))
  <1> DEFINE e == [old EXCEPT !.coin = to, !.our_turn = FALSE, !.slash = TRUE,
                              !.cheat_share = to.share]
  <1> DEFINE sp == SlashSpend(to)
  <1> DEFINE x == Enter(s, g, e)
  <1> DEFINE u == Watch(x, g, to)
  <1> DEFINE t == SpendTransaction(u, g, sp)
  <1>1. old \in [k : {"Entry"}, coin : Positions, our_turn : BOOLEAN, finished : BOOLEAN,
                 armed : BOOLEAN, slash : BOOLEAN, cheat_share : 0..Amount]
      BY EntryFields
  <1>2. to.share \in 0..Amount
      BY PositionFields
  <1>3. e \in [k : {"Entry"}, coin : Positions, our_turn : BOOLEAN, finished : BOOLEAN,
               armed : BOOLEAN, slash : BOOLEAN, cheat_share : 0..Amount]
      BY <1>1, <1>2
  <1>4. /\ e.coin = to /\ e.our_turn = FALSE /\ e.slash = TRUE /\ e.cheat_share = to.share
        /\ e.armed = old.armed
      BY <1>1
  <1> HIDE DEF e
  <1>5. e \in Entries /\ e # Absent
      BY <1>3, EntryThere
  <1>6. sp \in Spends /\ sp.coin = to /\ sp.k = "Slash" /\ sp = SlashSpend(sp.coin)
      BY SlashPays
  <1> HIDE DEF sp
  <1>7. Becomes(s, u, g, e, s.pend[g], s.ref[g], s.last[g], s.told[g], s.spends[g])
    <2>1. Becomes(s, x, g, e, s.pend[g], s.ref[g], s.last[g], s.told[g], s.spends[g])
        BY <1>5, EnterForm
    <2> HIDE DEF x
    <2>2. x \in Sessions
        BY <2>1 DEF Becomes
    <2>3. /\ u \in Sessions /\ u.me = x.me /\ u.queue = x.queue /\ u.err = x.err
          /\ u.map = x.map /\ u.pend = x.pend /\ u.ref = x.ref /\ u.last = x.last
          /\ u.told = x.told /\ u.spends = x.spends /\ u.claims = x.claims
        BY <2>2, WatchForm
    <2> HIDE DEF u
    <2> QED
        BY <2>1, <2>3 DEF Becomes, Same
  <1> HIDE DEF u
  <1>8. /\ u \in Sessions /\ u.map[g] = e /\ u.pend[g] = s.pend[g] /\ u.ref[g] = s.ref[g]
        /\ u.last[g] = s.last[g] /\ u.told[g] = s.told[g] /\ u.spends[g] = s.spends[g]
      BY <1>7 DEF Becomes
  <1>9. Becomes(s, t, g, e, s.pend[g], s.ref[g], s.last[g], s.told[g], s.spends[g] \cup {sp})
    <2>1. Becomes(u, t, g, u.map[g], u.pend[g], u.ref[g], u.last[g], u.told[g],
                  u.spends[g] \cup {sp})
        BY <1>6, <1>8, SpendForm
    <2> QED
        BY <2>1, <1>7, <1>8, BecomesTwice
  <1> HIDE DEF t
  <1>10. /\ t \in Sessions /\ t.me = s.me /\ t.queue = s.queue /\ t.err = s.err
         /\ t.map[g] = e /\ t.pend[g] = Absent /\ t.ref[g] = s.ref[g]
         /\ t.last[g] = s.last[g] /\ t.told[g] = << >> /\ t.spends[g] = s.spends[g] \cup {sp}
      BY <1>9 DEF Becomes
  <1>11. GameInv(s, g)
      BY DEF SessionInv
  <1>12. TerminalInv(t, g) /\ PendingInv(t, g)
      BY <1>10 DEF TerminalInv, PendingInv
  <1>13. TurnInv(t, g)
      BY <1>4, <1>10 DEF TurnInv
  <1>14. RefereeInv(t, g) /\ ClaimInv(t, g)
      BY <1>4, <1>10, <1>11 DEF RefereeInv, ClaimInv, GameInv
  <1>15. MovesInv(t, g)
      BY <1>4, <1>6, <1>10 DEF MovesInv
  <1>16. ArmedInv(t, g) /\ FinishedInv(t, g)
      BY <1>4, <1>10 DEF ArmedInv, FinishedInv
  <1>17. SpendsInv(t, g)
      BY <1>6, <1>10, <1>11 DEF GameInv, Submitted, SpendsInv
  <1>18. GameInv(t, g)
      BY <1>12, <1>13, <1>14, <1>15, <1>16, <1>17 DEF GameInv
  <1>19. SessionInv(t)
      BY <1>9, <1>18, BecomesKeeps
  <1>20. Answers(s, t)
      BY <1>10, <1>19 DEF Answers, Carries
  <1> QED
      BY <1>20 DEF Slash, t, u, x, e, sp, Enter

\* The opponent's move: the game goes on, is settled or is given up.
LEMMA TrackNextKeeps ==
    ASSUME NEW s \in Sessions, NEW g \in Games, SessionInv(s), ~Tracked(s, g),
           s.pend[g] = Absent, told[s.me][g] = << >>, s.told[g] = << >>,
           Orderly => s.queue = << >>,
           NEW old \in Entries, old # Absent, NEW to \in Positions, ~old.armed, ~old.slash,
           to.mover = s.me, to.legal,
           \A sp \in pool[g] \cup s.spends[g] :
               sp.k = "Move" /\ sp.coin.mover = s.me => sp.coin.n < to.n
    PROVE  Answers(s, ProcessQueuedAction(
                          TrackNext(Follow(s, g, TheirMoveOnChain(to), to), g, old, to, TRUE)))
  <1> DEFINE r == TheirMoveOnChain(to)
  <1> DEFINE u == Follow(s, g, r, to)
  <1>1. r \in Referees /\ r.mine = TRUE /\ r.spend = to /\ r.create = to
      BY DEF TheirMoveOnChain, Referees
  <1> HIDE DEF r
  <1>2. Becomes(s, u, g, s.map[g], s.pend[g], r, to, s.told[g], s.spends[g])
      BY <1>1, FollowForm
  <1> HIDE DEF u
  <1>3. /\ u \in Sessions /\ u.me = s.me /\ u.queue = s.queue /\ u.err = s.err
        /\ u.map[g] = s.map[g] /\ u.pend[g] = Absent /\ u.ref[g] = r /\ u.last[g] = to
        /\ u.told[g] = << >> /\ u.spends[g] = s.spends[g]
      BY <1>2 DEF Becomes
  <1> DEFINE auto == ShouldAutoSettle(r)
  <1> DEFINE forfeit == ~auto /\ IsGameOver(r) /\ OurCurrentShare(r) = 0
  <1> DEFINE over == old.finished \/ IsGameOver(r) \/ auto
  <1> DEFINE turn == TRUE
  <1> DEFINE e == Moved(old, to, turn, over)
  <1> DEFINE v == RegisterCoin(Enter(u, g, e), g, to)
  <1> DEFINE a == [k |-> "AcceptSettlement", g |-> g]
  <1>4. over \in BOOLEAN /\ (to.over => over) /\ turn \in BOOLEAN /\ turn
      BY <1>1 DEF IsGameOver
  <1>5. TrackNext(u, g, old, to, TRUE) =
            IF forfeit THEN LoserForfeit(u, g)
            ELSE IF auto THEN [v EXCEPT !.queue = Append(@, a)] ELSE v
      BY <1>3 DEF TrackNext, Enter, Moved
  <1> HIDE DEF auto, forfeit, over, turn
  <1>6. /\ e \in Entries /\ e # Absent /\ e.coin = to /\ e.our_turn = turn
        /\ e.finished = over /\ e.armed = old.armed /\ e.slash = old.slash
    <2>1. over \in BOOLEAN /\ turn \in BOOLEAN
        BY <1>4
    <2> QED
        BY <2>1, EntryNext
  <1> HIDE DEF e
  <1>7. /\ ~e.slash /\ e.our_turn = (e.coin.mover = s.me) /\ ~e.armed /\ e.our_turn
        /\ (e.coin.over => e.finished)
      BY <1>4, <1>6
  <1>8. /\ Carries(s, v) /\ v.queue = s.queue /\ v.err = s.err
        /\ v.map[g] = e /\ v.pend[g] = Absent /\ v.ref[g] = r /\ v.last[g] = to
    <2> DEFINE w == RegisterCoin(Enter(Follow(s, g, r, r.spend), g, e), g, e.coin)
    <2>1. /\ Carries(s, w) /\ w.queue = s.queue /\ w.err = s.err
          /\ w.map[g] = e /\ w.pend[g] = Absent /\ w.ref[g] = r /\ w.last[g] = r.spend
        BY <1>1, <1>6, <1>7, FollowKeeps
    <2>2. w = v
        BY <1>1, <1>6 DEF u
    <2> QED
        BY <2>1, <2>2, <1>1
  <1>9. CASE forfeit
    <2> DEFINE w == Drop(u, g)
    <2>1. /\ "ForfeitedOpponentWon" \in Outcomes /\ 0 \in 0..Amount
          /\ TellingTrue(s.me, g, [outcome |-> "ForfeitedOpponentWon", share |-> 0])
        BY SessionFields, ForfeitTrue, AmountAssumption DEF Forfeits
    <2>2. Becomes(u, w, g, Absent, u.pend[g], u.ref[g], u.last[g], u.told[g], u.spends[g])
        BY <1>3, DropForm
    <2> HIDE DEF w
    <2>3. Becomes(s, w, g, Absent, Absent, r, to, << >>, s.spends[g])
        BY <2>2, <1>2, <1>3, BecomesTwice
    <2>4. /\ w \in Sessions /\ w.me = s.me /\ w.queue = s.queue /\ w.err = s.err
          /\ w.map[g] = Absent /\ w.pend[g] = Absent /\ w.ref[g] = r /\ w.last[g] = to
          /\ w.told[g] = << >> /\ w.spends[g] = s.spends[g]
        BY <2>3 DEF Becomes
    <2>5. GameInv(w, g)
      <3>1. ~Tracked(w, g)
          BY <2>4 DEF Tracked
      <3>2. TerminalInv(w, g) /\ PendingInv(w, g) /\ TurnInv(w, g)
          BY <3>1, <2>4 DEF TerminalInv, PendingInv, TurnInv
      <3>3. RefereeInv(w, g) /\ MovesInv(w, g) /\ ArmedInv(w, g)
          BY <3>1, <2>4, <1>1 DEF RefereeInv, MovesInv, ArmedInv
      <3>4. ClaimInv(w, g) /\ FinishedInv(w, g)
          BY <3>1 DEF ClaimInv, FinishedInv
      <3>5. SpendsInv(w, g)
          BY <2>4 DEF SessionInv, GameInv, SpendsInv
      <3> QED
          BY <3>2, <3>3, <3>4, <3>5 DEF GameInv
    <2>6. SessionInv(w) /\ ~Tracked(w, g)
        BY <2>3, <2>4, <2>5, BecomesKeeps DEF Tracked
    <2>7. Answers(w, ProcessQueuedAction(Settled(w, g, "ForfeitedOpponentWon", 0)))
        BY <2>1, <2>4, <2>6, ToldKeeps
    <2>8. Answers(s, ProcessQueuedAction(Settled(w, g, "ForfeitedOpponentWon", 0)))
        BY <2>4, <2>7, AnswersTwice
    <2> QED
        BY <2>8, <1>5, <1>9 DEF LoserForfeit, w, u, r
  <1> HIDE DEF v
  <1>10. CASE ~forfeit /\ auto
    <2> DEFINE w == [v EXCEPT !.queue = Append(@, a)]
    <2>1. a \in Acts({"Move"}) /\ a.g = g /\ a.k = "AcceptSettlement"
        BY DEF Acts
    <2> HIDE DEF a
    <2>2. v \in Sessions /\ v.me = s.me /\ SessionInv(v)
        BY <1>8 DEF Carries
    <2>3. v.queue \in Seq(Acts({"Move"}))
        BY <2>2, SessionFields
    <2>4. Append(v.queue, a) \in Seq(Acts({"Move"}))
        BY <2>1, <2>3
    <2>5. w \in Sessions /\ w.queue = Append(v.queue, a)
        BY <2>2, <2>4 DEF Sessions
    <2>6. /\ w.me = v.me /\ w.map = v.map /\ w.pend = v.pend /\ w.ref = v.ref /\ w.last = v.last
          /\ w.told = v.told /\ w.spends = v.spends /\ w.claims = v.claims /\ w.err = v.err
        BY <2>2 DEF Sessions
    <2> HIDE DEF w
    <2>7. SessionInv(w)
      <3>1. \A h \in Games : Same(v, w, h)
          BY <2>6 DEF Same
      <3>2. (Orderly => ClaimsGood(w.me, w.claims)) /\ v.claims \subseteq w.claims
            /\ (v.err => w.err)
          BY <2>2, <2>6 DEF SessionInv
      <3> QED
          BY <3>1, <3>2, <2>2, <2>5, <2>6, AllSameKeeps
    <2>8. Tracked(w, g) /\ Proper(w, a)
        BY <2>1, <2>6, <1>1, <1>6, <1>7, <1>8 DEF Tracked, Proper
    <2>9. Orderly => Len(w.queue) = 1 /\ w.queue[1] = a
        BY <2>1, <2>5, <1>8
    <2>10. Orderly => Len(w.queue) <= 1 /\ (Len(w.queue) # 0 => Proper(w, w.queue[1]))
      <3>1. Orderly => Len(w.queue) <= 1
        <4> DEFINE n == Len(w.queue)
        <4>1. Orderly => n = 1
            BY <2>9
        <4> HIDE DEF n
        <4>2. Orderly => n <= 1
            BY <4>1
        <4> QED
            BY <4>2 DEF n
      <3>2. Orderly => Proper(w, w.queue[1])
          BY <2>8, <2>9
      <3> QED
          BY <3>1, <3>2
    <2>11. Answers(w, ProcessQueuedAction(w))
        BY <2>5, <2>7, <2>10, QueueKeeps DEF Answers
    <2>12. Answers(s, ProcessQueuedAction(w))
        BY <2>2, <2>6, <2>11, <1>8, AnswersTwice
    <2> QED
        BY <2>12, <1>5, <1>10 DEF w, u, r
  <1>11. CASE ~forfeit /\ ~auto
    <2>1. Answers(v, ProcessQueuedAction(v))
        BY <1>8, QuietKeeps DEF Carries
    <2>2. Answers(s, ProcessQueuedAction(v))
        BY <2>1, <1>8, AnswersTwice DEF Carries
    <2> QED
        BY <2>2, <1>5, <1>11 DEF u, r
  <1> QED
      BY <1>9, <1>10, <1>11

\* The coin of a game we accepted moves on: only an accept left in the queue
\* for too long comes to that.
LEMMA ArmedMovedKeeps ==
    ASSUME NEW s \in Sessions, NEW g \in Games, SessionInv(s), ~Tracked(s, g),
           s.pend[g] = Absent, told[s.me][g] = << >>, s.told[g] = << >>, ~Orderly,
           NEW old \in Entries, old # Absent, ~old.slash, old.armed,
           NEW sp \in Spends, sp.k = "Move",
           (~old.our_turn) = (sp.to.mover = s.me),
           \A x \in pool[g] \cup s.spends[g] :
               x.k = "Move" /\ x.coin.mover = s.me => x.coin.n < sp.to.n
    PROVE  Answers(s, ArmedSpent(s, g, old, sp))
  <1> DEFINE to == sp.to
  <1> DEFINE turn == ~old.our_turn
  <1> DEFINE e == [old EXCEPT !.coin = to, !.our_turn = turn]
  <1>1. old \in [k : {"Entry"}, coin : Positions, our_turn : BOOLEAN, finished : BOOLEAN,
                 armed : BOOLEAN, slash : BOOLEAN, cheat_share : 0..Amount]
      BY EntryFields
  <1>2. to \in Positions /\ turn \in BOOLEAN
      BY SpendFields
  <1>3. turn = (to.mover = s.me)
      OBVIOUS
  <1> HIDE DEF turn, to
  <1>4. e \in [k : {"Entry"}, coin : Positions, our_turn : BOOLEAN, finished : BOOLEAN,
               armed : BOOLEAN, slash : BOOLEAN, cheat_share : 0..Amount]
      BY <1>1, <1>2
  <1>5. e.coin = to /\ e.our_turn = turn /\ e.armed = old.armed /\ e.slash = old.slash
      BY <1>1
  <1> HIDE DEF e
  <1>6. e \in Entries /\ e # Absent
      BY <1>4, EntryThere
  <1> DEFINE r == s.ref[g]
  <1> DEFINE v == Enter(s, g, e)
  <1> DEFINE t == RegisterCoin(v, g, to)
  <1>7. r \in Referees /\ s.last[g] = r.spend
      BY SessionFields DEF SessionInv, GameInv, RefereeInv
  <1>8. Becomes(s, v, g, e, s.pend[g], s.ref[g], s.last[g], s.told[g], s.spends[g])
      BY <1>6, EnterForm
  <1> HIDE DEF v
  <1>9. Becomes(s, v, g, e, Absent, r, r.spend, << >>, s.spends[g])
      BY <1>7, <1>8
  <1> HIDE DEF r
  <1>10. /\ ~e.slash /\ e.our_turn = (e.coin.mover = s.me) /\ e.armed
         /\ \A x \in pool[g] \cup s.spends[g] :
               x.k = "Move" /\ x.coin.mover = s.me => x.coin.n < e.coin.n
      BY <1>3, <1>5 DEF to
  <1>11. v \in Sessions /\ Unclaimed(v, g) /\ v.me = s.me /\ v.queue = s.queue /\ v.err = s.err
      BY <1>6, <1>7, <1>9, <1>10, PlacedNext
  <1>12. v.map[g].coin = to
      BY <1>5, <1>9 DEF Becomes
  <1>13. Carries(v, t) /\ t.queue = v.queue /\ t.err = v.err
      BY <1>11, <1>12, RegisterKeeps
  <1> HIDE DEF t
  <1>14. Answers(t, ProcessQueuedAction(t))
      BY <1>13, QuietKeeps DEF Carries
  <1>15. Answers(s, ProcessQueuedAction(t))
      BY <1>11, <1>13, <1>14, AnswersTwice DEF Carries
  <1> QED
      BY <1>15 DEF ArmedSpent, t, v, e, to, turn, Enter

\* handle_game_coin_spent, for a coin the session tracks.
LEMMA SpentKeeps ==
    ASSUME TypeOK, ChainInv, PoolInv, NEW s \in Sessions, SessionInv(s), NEW g \in Games,
           NEW sp \in spent[g], Tracks(s, g, sp.coin), Orderly => s.queue = << >>,
           ~s.err, s.spends[g] = {}
    PROVE  Answers(s, HandleGameCoinSpent(s, g, sp))
  <1> DEFINE e == s.map[g]
  <1> DEFINE pd == s.pend[g]
  <1> DEFINE u == IF pd = Absent THEN Drop(s, g) ELSE Clear(s, g)
  <1> DEFINE old == IF pd = Absent THEN e ELSE [e EXCEPT !.our_turn = FALSE]
  <1>1. /\ e \in Entries /\ e # Absent /\ e.coin = sp.coin /\ sp \in Spends
        /\ pd \in Pendings /\ GameInv(s, g)
        /\ told[s.me][g] = << >> /\ s.told[g] = << >>
        /\ pd # Absent => pd.coin = sp.coin /\ e.our_turn /\ ~e.slash /\ sp.coin.mover = s.me
        /\ sp.k = "Move" => Succeeds(sp.coin, sp.to) /\ ~sp.coin.over
        /\ sp.k = "Move" /\ sp.to.raises => sp.coin.mover \in Faulty
        /\ sp.k = "Move" /\ sp.coin.mover = s.me => pd # Absent /\ pd.expected = sp.to
        /\ sp.k # "Move" => sp = coin[g] /\ PayOut(sp)
      BY SpentFacts
  <1>2. HasPending(s, g, sp.coin) <=> pd # Absent
      BY <1>1 DEF HasPending
  <1>3. Becomes(s, u, g, Absent, Absent, s.ref[g], s.last[g], s.told[g], s.spends[g])
        /\ SessionInv(u)
    <2>1. CASE pd = Absent
        BY <2>1, DropForm, DropKeeps
    <2>2. CASE pd # Absent
        BY <2>2, ClearKeeps
    <2> QED
        BY <2>1, <2>2
  <1>4. /\ sp.coin \in Positions /\ sp.to \in Positions /\ s.me \in Party
        /\ s.ref[g] \in Referees /\ Tracked(s, g)
      BY <1>1, SpendFields, SessionFields DEF Tracks
  <1>5. /\ old \in Entries /\ old # Absent /\ old.armed = e.armed /\ old.slash = e.slash
        /\ old.coin = e.coin /\ old.cheat_share = e.cheat_share
        /\ (pd = Absent => old = e) /\ (old.our_turn => e.our_turn)
        /\ (pd # Absent => ~old.our_turn)
    <2>1. CASE pd = Absent
        BY <2>1, <1>1
    <2>2. CASE pd # Absent
      <3>1. e \in [k : {"Entry"}, coin : Positions, our_turn : BOOLEAN, finished : BOOLEAN,
                   armed : BOOLEAN, slash : BOOLEAN, cheat_share : 0..Amount]
          BY <1>1, EntryFields
      <3>2. old = [e EXCEPT !.our_turn = FALSE]
          BY <2>2
      <3>3. old \in [k : {"Entry"}, coin : Positions, our_turn : BOOLEAN, finished : BOOLEAN,
                     armed : BOOLEAN, slash : BOOLEAN, cheat_share : 0..Amount]
          BY <3>1, <3>2
      <3>4. /\ old.armed = e.armed /\ old.slash = e.slash /\ old.coin = e.coin
            /\ old.cheat_share = e.cheat_share /\ old.our_turn = FALSE
          BY <3>1, <3>2
      <3> HIDE DEF old
      <3>5. old \in Entries /\ old # Absent
          BY <3>3, EntryThere
      <3> QED
          BY <2>2, <3>4, <3>5
    <2> QED
        BY <2>1, <2>2
  <1>6. HandleGameCoinSpent(s, g, sp) =
            IF pd # Absent /\ PendingLanded(pd, sp) THEN MoveLanded(u, g, e, pd.ref)
            ELSE IF pd # Absent /\ sp.k # "Move" /\ FirstPaid(sp) # s.me
            THEN MoveOvertaken(u, g, e)
            ELSE Resolve(u, g, old, sp)
      BY <1>2 DEF HandleGameCoinSpent, Clear
  <1> HIDE DEF u, old
  <1>7. /\ u \in Sessions /\ u.me = s.me /\ u.queue = s.queue /\ u.err = s.err
        /\ u.pend[g] = Absent /\ u.ref[g] = s.ref[g] /\ u.told[g] = << >>
        /\ u.spends[g] = s.spends[g] /\ ~Tracked(u, g)
      BY <1>1, <1>3 DEF Becomes, Tracked
  <1>8. ASSUME NEW to \in Positions, Succeeds(sp.coin, to)
        PROVE  \A x \in pool[g] \cup u.spends[g] :
                   x.k = "Move" /\ x.coin.mover = u.me => x.coin.n < to.n
    <2>1. to.n = s.map[g].coin.n + 1
        BY <1>1, <1>8 DEF Succeeds
    <2> QED
        BY <2>1, <1>4, <1>7, MovesBelow
  <1>9. /\ e.our_turn => sp.coin.mover = s.me /\ ~e.slash
        /\ ~e.slash => e.our_turn = (sp.coin.mover = s.me)
        /\ e.slash => sp.coin.mover = s.me /\ ~sp.coin.legal /\ e.cheat_share = sp.coin.share
      BY <1>1, <1>4 DEF GameInv, TurnInv
  <1>10. ~e.slash /\ ~e.armed => AtCoin(s, g) /\ (sp.coin.mover = s.me => sp.coin.legal)
      BY <1>1, <1>4 DEF GameInv, RefereeInv
  <1>11. Orderly /\ e.armed => sp.coin.legal /\ sp.coin.mover = s.me /\ pd = Absent
      BY <1>1, <1>4, <1>9 DEF GameInv, ArmedInv
  <1> SUFFICES Answers(u, HandleGameCoinSpent(s, g, sp))
      BY <1>7, AnswersTwice
  <1>12. CASE pd # Absent /\ PendingLanded(pd, sp)
    <2> DEFINE r == pd.ref
    <2>1. r \in Referees /\ r.spend \in Positions
        BY <1>1, <1>12, PendingFields, RefereeFields
    <2>2. Succeeds(sp.coin, r.spend) /\ ~r.mine /\ r.create = sp.coin
        BY <1>1, <1>12 DEF GameInv, PendingInv
    <2>3. r.spend.n = sp.coin.n + 1 /\ r.spend.mover # sp.coin.mover /\ sp.coin.n \in Nat
        BY <2>1, <2>2, <1>4, SucceedsLater
    <2>4. r.create.n <= r.spend.n
        BY <2>2, <2>3
    <2>5. \A x \in pool[g] \cup u.spends[g] :
              x.k = "Move" /\ x.coin.mover = u.me => x.coin.n < r.spend.n
        BY <2>1, <2>2, <1>8
    <2>6. r.spend.mover # u.me /\ ~e.slash /\ (Orderly => ~e.armed)
        BY <2>3, <1>1, <1>7, <1>11, <1>12
    <2> HIDE DEF r, e
    <2>7. Answers(u, MoveLanded(u, g, e, r))
        BY <2>1, <2>2, <2>4, <2>5, <2>6, <1>1, <1>3, <1>7, MoveLandedKeeps
    <2> QED
        BY <2>7, <1>6, <1>12 DEF r
  <1>13. CASE ~(pd # Absent /\ PendingLanded(pd, sp)) /\ sp.k # "Move"
    <2>1. sp = coin[g] /\ PayOut(sp)
        BY <1>1, <1>13
    <2>2. CASE pd # Absent /\ FirstPaid(sp) # s.me
      <3>1. sp.coin.mover = u.me /\ FirstPaid(sp) # u.me
          BY <2>2, <1>1, <1>7
      <3>2. Answers(u, MoveOvertaken(u, g, e))
          BY <3>1, <2>1, <1>1, <1>3, <1>7, MoveOvertakenKeeps
      <3> QED
          BY <3>2, <2>2, <1>6, <1>13
    <2>3. CASE ~(pd # Absent /\ FirstPaid(sp) # s.me)
      <3>1. HandleGameCoinSpent(s, g, sp) = Resolve(u, g, old, sp)
          BY <2>3, <1>6, <1>13
      <3>2. CASE old.slash
        <4>1. sp.coin.mover = u.me /\ ~sp.coin.legal /\ old.cheat_share = sp.coin.share
            BY <3>2, <1>5, <1>7, <1>9
        <4>2. Answers(u, SlashResolved(u, g, old, sp))
            BY <4>1, <2>1, <1>1, <1>3, <1>7, SlashResolvedKeeps
        <4> QED
            BY <4>2, <3>1, <3>2 DEF Resolve
      <3>3. CASE ~old.slash /\ old.armed
        <4>1. Orderly => sp.coin.legal
            BY <3>3, <1>5, <1>11
        <4>2. Answers(u, ArmedSpent(u, g, old, sp))
            BY <4>1, <2>1, <1>1, <1>3, <1>7, ArmedPaidKeeps
        <4> QED
            BY <4>2, <3>1, <3>3 DEF Resolve
      <3>4. CASE ~old.slash /\ ~old.armed
        <4>1. ~e.slash /\ ~e.armed
            BY <3>4, <1>5
        <4>2. (old.our_turn => sp.coin.mover = u.me) /\ (sp.coin.mover = u.me => sp.coin.legal)
            BY <4>1, <1>5, <1>7, <1>9, <1>10
        <4>3. FirstPaid(sp) # u.me =>
                  OurCurrentShare(u.ref[g]) = TimeoutSpend(sp.coin).pay[u.me]
          <5> SUFFICES ASSUME FirstPaid(sp) # s.me
                       PROVE  OurCurrentShare(s.ref[g]) = TimeoutSpend(sp.coin).pay[s.me]
              BY <1>7
          <5>1. pd = Absent
              BY <2>3
          <5>2. /\ TimeoutSpend(sp.coin).pay[sp.coin.mover] = sp.coin.share
                /\ TimeoutSpend(sp.coin).pay[Other(sp.coin.mover)] = Amount - sp.coin.share
              BY <1>4, TimeoutPays
          <5>3. AtCoin(s, g)
              BY <4>1, <1>10
          <5>4. CASE sp.coin.mover = s.me
            <6>1. s.ref[g].mine /\ s.ref[g].spend = sp.coin
                BY <5>1, <5>3, <5>4, <1>1 DEF AtCoin
            <6> QED
                BY <6>1, <5>2, <5>4 DEF OurCurrentShare
          <5>5. CASE sp.coin.mover # s.me
            <6>1. ~s.ref[g].mine /\ s.ref[g].spend = sp.coin
                BY <5>3, <5>5, <1>1 DEF AtCoin
            <6>2. s.me = Other(sp.coin.mover)
              <7>1. sp.coin.mover \in Party
                  BY <1>4, PositionFields
              <7> QED
                  BY <7>1, <5>5, <1>4, OtherParty
            <6> QED
                BY <6>1, <6>2, <5>2 DEF OurCurrentShare
          <5> QED
              BY <5>4, <5>5
        <4>4. Orderly /\ ~old.our_turn => sp.coin.mover # u.me \/ MoveTooLate(u.me, g, sp)
          <5>1. CASE pd = Absent
              BY <5>1, <4>1, <1>5, <1>7, <1>9
          <5>2. CASE pd # Absent
            <6> DEFINE m == Move(pd.coin, pd.expected)
            <6>1. Orderly /\ ~lost[s.me] => m \in pool[g]
                BY <5>2, <1>1 DEF GameInv, PendingInv
            <6>2. pd.coin = sp.coin /\ sp.coin.mover = s.me
                BY <5>2, <1>1
            <6>3. m.k = "Move" /\ m.coin = sp.coin
                BY <6>2 DEF Move
            <6> HIDE DEF m
            <6> QED
                BY <6>1, <6>2, <6>3, <1>7 DEF MoveTooLate
          <5> QED
              BY <5>1, <5>2
        <4>5. Answers(u, PaidOut(u, g, old, sp))
            BY <4>2, <4>3, <4>4, <2>1, <1>1, <1>3, <1>7, PaidOutKeeps
        <4> QED
            BY <4>5, <3>1, <3>4, <1>13 DEF Resolve
      <3> QED
          BY <3>2, <3>3, <3>4
    <2> QED
        BY <2>2, <2>3
  <1>14. CASE ~(pd # Absent /\ PendingLanded(pd, sp)) /\ sp.k = "Move"
    <2> DEFINE to == sp.to
    <2>1. sp.coin.mover # s.me /\ pd = Absent /\ old = e
        BY <1>1, <1>5, <1>14 DEF PendingLanded
    <2>2. Succeeds(sp.coin, to) /\ ~sp.coin.over /\ to \in Positions
        BY <1>1, <1>4, <1>14
    <2>3. to.mover # sp.coin.mover /\ to.n = sp.coin.n + 1 /\ sp.coin.n \in Nat
        BY <2>2, <1>4, SucceedsLater
    <2>4. sp.coin.mover \in Party /\ to.mover \in Party
        BY <2>2, <1>4, PositionFields
    <2>5. to.mover = u.me
        BY <2>1, <2>3, <2>4, <1>4, <1>7 DEF Party
    <2>6. \A x \in pool[g] \cup u.spends[g] :
              x.k = "Move" /\ x.coin.mover = u.me => x.coin.n < to.n
        BY <2>2, <1>8
    <2>7. ~old.slash /\ ~old.our_turn
        BY <2>1, <1>9
    <2>8. HandleGameCoinSpent(s, g, sp) = Resolve(u, g, old, sp)
        BY <1>6, <1>14
    <2>9. CASE old.armed
      <3>1. ~Orderly
          BY <2>1, <2>9, <1>11
      <3>2. (~old.our_turn) = (sp.to.mover = u.me)
          BY <2>5, <2>7
      <3>3. Answers(u, ArmedSpent(u, g, old, sp))
          BY <3>1, <3>2, <2>6, <2>7, <2>9, <1>1, <1>3, <1>5, <1>7, <1>14, ArmedMovedKeeps
      <3> QED
          BY <3>3, <2>7, <2>8, <2>9 DEF Resolve
    <2>10. CASE ~old.armed
      <3> DEFINE r == u.ref[g]
      <3>1. ~r.mine /\ r.spend = sp.coin /\ r.create.n <= r.spend.n /\ r \in Referees
        <4>1. AtCoin(s, g)
            BY <2>1, <2>7, <2>10, <1>10
        <4> QED
            BY <4>1, <2>1, <1>1, <1>4, <1>7 DEF AtCoin
      <3>2. to # r.create /\ to # r.spend
        <4>1. r.create.n \in Nat
            BY <3>1, RefereeFields, PositionFields
        <4> QED
            BY <4>1, <3>1, <2>3
      <3>3. ~IsGameOver(r)
          BY <3>1, <2>2 DEF IsGameOver
      <3>4. Resolve(u, g, old, sp) =
                IF to.raises THEN ProcessQueuedAction(EndedError(u, g))
                ELSE IF ~to.legal THEN Slash(u, g, old, to)
                ELSE ProcessQueuedAction(
                         TrackNext(Follow(u, g, TheirMoveOnChain(to), to), g, old, to, TRUE))
          BY <3>1, <3>2, <3>3, <2>7, <2>10, <1>14 DEF Resolve, MovedTo
      <3>5. CASE to.raises
        <4>1. Garbled(u.me, g)
            BY <3>5, <2>1, <1>1, <1>7, <1>14 DEF Garbled
        <4>2. "EndedError" \in Outcomes /\ 0 \in 0..Amount
            BY AmountAssumption DEF Outcomes
        <4>3. TellingTrue(u.me, g, [outcome |-> "EndedError", share |-> 0])
            BY <4>1 DEF TellingTrue, WithoutCoin
        <4>4. Answers(u, ProcessQueuedAction(Settled(u, g, "EndedError", 0)))
            BY <4>2, <4>3, <1>1, <1>3, <1>7, ToldKeeps
        <4> QED
            BY <4>4, <3>4, <3>5, <2>8 DEF EndedError
      <3> HIDE DEF to
      <3>6. CASE ~to.raises /\ ~to.legal
        <4>1. Answers(u, Slash(u, g, old, to))
            BY <3>6, <2>2, <2>5, <2>6, <2>10, <1>1, <1>3, <1>5, <1>7, SlashKeeps
        <4> QED
            BY <4>1, <3>4, <3>6, <2>8
      <3>7. CASE ~to.raises /\ to.legal
        <4>1. Answers(u, ProcessQueuedAction(
                  TrackNext(Follow(u, g, TheirMoveOnChain(to), to), g, old, to, TRUE)))
            BY <3>7, <2>2, <2>5, <2>6, <2>7, <2>10, <1>1, <1>3, <1>5, <1>7, TrackNextKeeps
        <4> QED
            BY <4>1, <3>4, <3>7, <2>8
      <3> QED
          BY <3>5, <3>6, <3>7
    <2> QED
        BY <2>9, <2>10
  <1> QED
      BY <1>12, <1>13, <1>14

\* coin_puzzle_and_solution without an answer.
LEMMA UnknownKeeps ==
    ASSUME NEW s \in Sessions, SessionInv(s), NEW g \in Games, Tracked(s, g),
           s.me \in Misled, Orderly => s.queue = << >>
    PROVE  Answers(s, CoinSpentUnknown(s, g))
  <1> DEFINE u == Drop(s, g)
  <1>1. told[s.me][g] = << >> /\ s.told[g] = << >>
      BY DEF SessionInv, GameInv, TerminalInv
  <1>2. Becomes(s, u, g, Absent, s.pend[g], s.ref[g], s.last[g], s.told[g], s.spends[g])
        /\ SessionInv(u) /\ ~Tracked(u, g)
      BY DropForm, DropKeeps
  <1> HIDE DEF u
  <1>3. u \in Sessions /\ u.me = s.me /\ u.queue = s.queue /\ u.err = s.err /\ u.told[g] = << >>
      BY <1>1, <1>2 DEF Becomes
  <1>4. "EndedError" \in Outcomes /\ 0 \in 0..Amount
      BY AmountAssumption DEF Outcomes
  <1>5. TellingTrue(u.me, g, [outcome |-> "EndedError", share |-> 0])
      BY <1>3 DEF TellingTrue, WithoutCoin
  <1>6. Answers(u, ProcessQueuedAction(Settled(u, g, "EndedError", 0)))
      BY <1>1, <1>2, <1>3, <1>4, <1>5, ToldKeeps
  <1>7. Answers(s, ProcessQueuedAction(Settled(u, g, "EndedError", 0)))
      BY <1>3, <1>6, AnswersTwice
  <1> QED
      BY <1>7 DEF CoinSpentUnknown, EndedError, u

-----------------------------------------------------------------------------
(***************************************************************************)
(* The unroll: where each game starts from.                                *)
(***************************************************************************)

\* How the game stood for the player p.
Standing(p, st) ==
    /\ st.ref \in Referees
    /\ st.how \in {"Latest", "Redo", "Settling"} \cup OffChain
    /\ IF st.how \in OffChain THEN st.coin = Absent
       ELSE st.coin \in Positions /\ st.coin.legal
    /\ st.how = "Latest" =>
          st.ref.mine = (st.coin.mover = p) /\ st.ref.spend = st.coin /\ st.ref.create.n = 0
    /\ st.how = "Settling" =>
          st.ref.mine /\ st.coin.mover = p /\ st.ref.spend = st.coin /\ st.ref.create.n = 0
    /\ st.how = "Redo" =>
          /\ ~st.ref.mine /\ st.coin.mover = p /\ st.ref.create = st.coin
          /\ Succeeds(st.coin, st.ref.spend) /\ ~st.ref.spend.raises

LEMMA BeforeFields ==
    ASSUME NEW m \in Party
    PROVE  Before(m) \in Positions /\ Before(m).n = 0
  <1>1. Other(m) \in Party /\ 0 \in 0..Amount /\ 0 \in 0..MaxMoves /\ 0 # MaxMoves
      BY OtherParty, AmountAssumption, MaxMovesAssumption
  <1> QED
      BY <1>1 DEF Before, Positions

LEMMA StartFacts ==
    ASSUME StartInv, NEW g \in Games, NEW p \in Party
    PROVE  Standing(p, start[g][p])
  <1> DEFINE st == start[g][p]
  <1>1. PICK pos \in StartPositions : start[g] \in Starts(pos) \cup GoneStarts(pos)
      BY DEF StartInv
  <1>2. pos \in Positions /\ pos.legal /\ pos.mover \in Party /\ pos.over \in BOOLEAN
      BY PositionFields DEF StartPositions
  <1>3. Before(pos.mover) \in Positions /\ Before(pos.mover).n = 0
      BY <1>2, BeforeFields
  <1> DEFINE r(q) == [mine |-> q = pos.mover, create |-> Before(pos.mover), spend |-> pos]
  <1>4. \A q \in Party : /\ r(q) \in Referees /\ r(q).mine = (q = pos.mover)
                         /\ r(q).create = Before(pos.mover) /\ r(q).spend = pos
      BY <1>2, <1>3 DEF Referees
  <1>5. CASE start[g] \in GoneStarts(pos)
    <2>1. st.ref = r(p) /\ st.how \in OffChain /\ st.coin = Absent
        BY <1>5 DEF GoneStarts, OffChain
    <2> HIDE DEF r
    <2>2. st.ref \in Referees
        BY <2>1, <1>4
    <2> QED
        BY <2>1, <2>2 DEF Standing, OffChain
  <1>6. CASE start[g] \in Starts(pos)
    <2> DEFINE at(q) == [coin |-> pos, how |-> "Latest", ref |-> r(q)]
    <2> DEFINE with(x) == [q \in Party |-> IF q = pos.mover THEN x ELSE at(q)]
    <2> DEFINE redo(mv) == [coin |-> pos, how |-> "Redo",
                            ref  |-> MyTurnMakeMove(at(pos.mover).ref, mv, "Move")]
    <2>1. \/ st = at(p)
          \/ p = pos.mover /\ st = [at(p) EXCEPT !.how = "Settling"]
          \/ p = pos.mover /\ ~pos.over /\ \E mv \in GameMoves(pos) : st = redo(mv)
      <3> DEFINE OK(x) == \/ x = at(pos.mover)
                          \/ x = [at(pos.mover) EXCEPT !.how = "Settling"]
                          \/ ~pos.over /\ \E mv \in GameMoves(pos) : x = redo(mv)
      <3>1. \E x : start[g] = with(x) /\ OK(x)
        <4> HIDE DEF OK
        <4>1. /\ OK(at(pos.mover)) /\ OK([at(pos.mover) EXCEPT !.how = "Settling"])
              /\ ~pos.over => \A mv \in GameMoves(pos) : OK(redo(mv))
            BY DEF OK
        <4>2. start[g] \in {with(at(pos.mover)), with([at(pos.mover) EXCEPT !.how = "Settling"])}
                  \cup (IF pos.over THEN {} ELSE {with(redo(mv)) : mv \in GameMoves(pos)})
            BY <1>6 DEF Starts
        <4> HIDE DEF with, at, redo
        <4> QED
            BY <4>1, <4>2
      <3>2. PICK x : start[g] = with(x) /\ OK(x)
          BY <3>1
      <3>3. st = IF p = pos.mover THEN x ELSE at(p)
          BY <3>2
      <3> HIDE DEF st, at, with, redo
      <3> QED
          BY <3>2, <3>3
    <2>2. at(p).coin = pos /\ at(p).how = "Latest" /\ at(p).ref = r(p)
        OBVIOUS
    <2>3. CASE st = at(p)
      <3>1. st.coin = pos /\ st.how = "Latest" /\ st.ref = r(p)
          BY <2>2, <2>3
      <3> HIDE DEF r, at, st
      <3>2. st.ref.mine = (pos.mover = p)
          BY <3>1, <1>4
      <3>3. st.ref \in Referees /\ st.ref.spend = pos /\ st.ref.create.n = 0
          BY <3>1, <1>3, <1>4
      <3>4. st.how # "Redo" /\ st.how # "Settling" /\ st.how \notin OffChain
          BY <3>1 DEF OffChain
      <3> QED
          BY <3>1, <3>2, <3>3, <3>4, <1>2 DEF Standing, st
    <2>4. CASE p = pos.mover /\ st = [at(p) EXCEPT !.how = "Settling"]
      <3>1. st.coin = pos /\ st.how = "Settling" /\ st.ref = r(p)
          BY <2>2, <2>4
      <3> HIDE DEF r, at, st
      <3>2. st.ref.mine
          BY <3>1, <2>4, <1>4
      <3>3. st.ref \in Referees /\ st.ref.spend = pos /\ st.ref.create.n = 0
          BY <3>1, <1>3, <1>4
      <3>4. st.how # "Redo" /\ st.how # "Latest" /\ st.how \notin OffChain
          BY <3>1 DEF OffChain
      <3> QED
          BY <3>1, <3>2, <3>3, <3>4, <2>4, <1>2 DEF Standing, st
    <2>5. CASE p = pos.mover /\ ~pos.over /\ \E mv \in GameMoves(pos) : st = redo(mv)
      <3>1. PICK mv \in GameMoves(pos) : st = redo(mv)
          BY <2>5
      <3>2. mv \in [share : 0..Amount, over : BOOLEAN]
          BY DEF GameMoves
      <3> DEFINE post == MyTurnMakeMove(r(p), mv, "Move")
      <3>3. st.coin = pos /\ st.how = "Redo" /\ st.ref = post
          BY <3>1, <2>5
      <3> HIDE DEF r, st
      <3>4. /\ post \in Referees /\ ~post.mine /\ post.create = pos
            /\ Succeeds(pos, post.spend) /\ ~post.spend.raises
        <4>1. r(p) \in Referees /\ r(p).spend = pos /\ ~r(p).spend.over
            BY <1>4, <2>5
        <4> QED
            BY <4>1, <3>2, MadeMove
      <3> HIDE DEF post
      <3>5. st.how # "Settling" /\ st.how # "Latest" /\ st.how \notin OffChain
          BY <3>3 DEF OffChain
      <3> QED
          BY <3>3, <3>4, <3>5, <2>5, <1>2 DEF Standing, st
    <2> QED
        BY <2>1, <2>3, <2>4, <2>5
  <1> QED
      BY <1>1, <1>5, <1>6

LEMMA EntryMade ==
    ASSUME NEW c \in Positions, NEW turn \in BOOLEAN, NEW over \in BOOLEAN, NEW armed \in BOOLEAN
    PROVE  LET e == Entry(c, turn, over, armed) IN
           /\ e \in Entries /\ e # Absent /\ e.coin = c /\ e.our_turn = turn
           /\ e.finished = over /\ e.armed = armed /\ ~e.slash
  <1> DEFINE e == Entry(c, turn, over, armed)
  <1>1. 0 \in 0..Amount
      BY AmountAssumption
  <1>2. e \in [k : {"Entry"}, coin : Positions, our_turn : BOOLEAN, finished : BOOLEAN,
               armed : BOOLEAN, slash : BOOLEAN, cheat_share : 0..Amount]
      BY <1>1 DEF Entry
  <1>3. /\ e.coin = c /\ e.our_turn = turn /\ e.finished = over /\ e.armed = armed
        /\ ~e.slash
      BY DEF Entry
  <1> HIDE DEF e
  <1>4. e \in Entries /\ e # Absent
      BY <1>2, EntryThere
  <1> QED
      BY <1>3, <1>4 DEF e

\* What one game's part of the transition leaves of the session.
Started(s, g, w) ==
    /\ Carries(s, w) /\ w.ref = s.ref /\ w.last = s.last /\ w.err = s.err
    /\ start[g][s.me].how = "Latest" /\ start[g][s.me].ref.mine =>
          /\ w.map[g] # Absent /\ w.pend[g] = Absent
          /\ w.map[g].our_turn /\ ~w.map[g].armed /\ w.map[g].coin = w.ref[g].spend
    /\ start[g][s.me].how = "Missing" => w.map[g] = Absent

\* A game ends with the unroll.
LEMMA OffKeeps ==
    ASSUME NEW s \in Sessions, NEW g \in Games, SessionInv(s), ~Tracked(s, g),
           told[s.me][g] = << >>, s.told[g] = << >>,
           NEW o \in Outcomes, NEW sh \in 0..Amount,
           TellingTrue(s.me, g, [outcome |-> o, share |-> sh])
    PROVE  LET w == Settled(s, g, o, sh) IN
           /\ Carries(s, w) /\ w.ref = s.ref /\ w.last = s.last /\ w.err = s.err
           /\ w.map[g] = Absent
  <1> DEFINE w == Settled(s, g, o, sh)
  <1>1. Becomes(s, w, g, s.map[g], s.pend[g], s.ref[g], s.last[g],
                Append(s.told[g], [outcome |-> o, share |-> sh]), s.spends[g])
      BY SettledForm
  <1>2. SessionInv(w)
      BY SettledKeeps
  <1>3. w.ref = s.ref /\ w.last = s.last /\ w.err = s.err
      BY DEF Settled, Sessions
  <1> HIDE DEF w
  <1>4. Carries(s, w) /\ w.map[g] = Absent
      BY <1>1, <1>2, <1>3 DEF Becomes, Carries, Tracked
  <1> QED
      BY <1>3, <1>4 DEF w

LEMMA RegisterRefs ==
    ASSUME NEW s \in Sessions, NEW g \in Games, NEW c \in Positions
    PROVE  RegisterCoin(s, g, c).ref = s.ref /\ RegisterCoin(s, g, c).last = s.last
  <1>1. Registers(s, RegisterCoin(s, g, c), g, c)
      BY RegisterForm
  <1> QED
      BY <1>1 DEF Registers

\* A game whose coin is where the referee is.
LEMMA LatestKeeps ==
    ASSUME NEW s \in Sessions, NEW g \in Games, SessionInv(s), ~Tracked(s, g),
           s.pend[g] = Absent, told[s.me][g] = << >>, s.told[g] = << >>,
           NEW e \in Entries, e # Absent, ~e.slash, NEW r, r = s.ref[g],
           e.our_turn = (e.coin.mover = s.me), Orderly /\ e.armed => e.our_turn,
           IF e.coin.mover = s.me
           THEN r.mine /\ r.spend = e.coin /\ e.coin.legal
           ELSE ~r.mine /\ r.spend = e.coin /\ r.create.n <= r.spend.n,
           ~e.armed /\ e.our_turn /\ e.coin.over => e.finished,
           \A sp \in pool[g] \cup s.spends[g] :
               sp.k = "Move" /\ sp.coin.mover = s.me => sp.coin.n < e.coin.n
    PROVE  LET w == RegisterCoin(Enter(s, g, e), g, e.coin) IN
           /\ Carries(s, w) /\ w.ref = s.ref /\ w.last = s.last /\ w.err = s.err
           /\ w.map[g] = e /\ w.pend[g] = Absent
  <1> DEFINE v == Enter(s, g, e)
  <1> DEFINE w == RegisterCoin(v, g, e.coin)
  <1>1. r \in Referees /\ s.last[g] = r.spend /\ e.coin \in Positions
      BY SessionFields, EntryFields DEF SessionInv, GameInv, RefereeInv
  <1>2. Becomes(s, v, g, e, s.pend[g], s.ref[g], s.last[g], s.told[g], s.spends[g])
      BY EnterForm
  <1>3. v.ref = s.ref /\ v.last = s.last
      BY DEF Enter, Sessions
  <1> HIDE DEF v
  <1>4. Becomes(s, v, g, e, Absent, r, r.spend, << >>, s.spends[g])
      BY <1>1, <1>2
  <1>5. v \in Sessions /\ Unclaimed(v, g) /\ v.me = s.me /\ v.queue = s.queue /\ v.err = s.err
      BY <1>1, <1>4, PlacedNext
  <1>6. v.map[g] = e /\ v.pend[g] = Absent
      BY <1>4 DEF Becomes
  <1>7. /\ Carries(v, w) /\ w.queue = v.queue /\ w.err = v.err
        /\ \A h \in Games : Same(v, w, h)
      BY <1>5, <1>6, RegisterKeeps
  <1>8. w.ref = v.ref /\ w.last = v.last
      BY <1>1, <1>5, RegisterRefs
  <1> HIDE DEF w
  <1>9. Carries(s, w) /\ w.map[g] = e /\ w.pend[g] = Absent
      BY <1>5, <1>6, <1>7 DEF Carries, Same
  <1> QED
      BY <1>3, <1>5, <1>7, <1>8, <1>9 DEF w, v

\* A game whose last move of ours is made again.
LEMMA RedoKeeps ==
    ASSUME NEW s \in Sessions, NEW g \in Games, SessionInv(s), ~Tracked(s, g),
           s.pend[g] = Absent, told[s.me][g] = << >>, s.told[g] = << >>, s.spends[g] = {},
           NEW e \in Entries, e # Absent, ~e.slash, e.our_turn, ~e.armed,
           NEW r, r = s.ref[g], ~r.mine, e.coin.mover = s.me, e.coin.legal,
           r.create = e.coin, Succeeds(e.coin, r.spend), ~r.spend.raises,
           \A sp \in pool[g] : sp.k = "Move" => sp.coin.mover # s.me
    PROVE  LET w == RegisterCoin(SpendTransaction(Await(Enter(s, g, e), g, Pending(e.coin, r)),
                                                  g, Move(e.coin, r.spend)), g, e.coin) IN
           Carries(s, w) /\ w.ref = s.ref /\ w.last = s.last /\ w.err = s.err
  <1> DEFINE c == e.coin
  <1> DEFINE pd == Pending(c, r)
  <1> DEFINE sp == Move(c, r.spend)
  <1> DEFINE u == Enter(s, g, e)
  <1> DEFINE v == Await(u, g, pd)
  <1> DEFINE t == SpendTransaction(v, g, sp)
  <1> DEFINE w == RegisterCoin(t, g, c)
  <1>1. r \in Referees /\ s.last[g] = r.spend /\ c \in Positions /\ r.spend \in Positions
      BY SessionFields, EntryFields, RefereeFields DEF SessionInv, GameInv, RefereeInv
  <1>2. pd \in Pendings /\ pd # Absent /\ pd.coin = c /\ pd.expected = r.spend /\ pd.ref = r
      BY <1>1, PendingThere
  <1>3. sp \in Spends /\ sp.coin = c /\ sp.k = "Move" /\ sp.to = r.spend /\ sp = Move(c, r.spend)
      BY <1>1, MoveFields
  <1>4. u.ref = s.ref /\ u.last = s.last
      BY DEF Enter, Sessions
  <1>5. v.ref = u.ref /\ v.last = u.last
      BY DEF Await, Enter, Sessions
  <1> HIDE DEF pd, sp
  <1>6. Becomes(s, u, g, e, s.pend[g], s.ref[g], s.last[g], s.told[g], s.spends[g])
      BY EnterForm
  <1> HIDE DEF u
  <1>7. /\ u \in Sessions /\ u.map[g] = e /\ u.ref[g] = r /\ u.last[g] = r.spend
        /\ u.told[g] = << >> /\ u.spends[g] = {}
      BY <1>1, <1>6 DEF Becomes
  <1>8. Becomes(u, v, g, u.map[g], pd, u.ref[g], u.last[g], u.told[g], u.spends[g])
      BY <1>2, <1>7, AwaitForm
  <1> HIDE DEF v
  <1>9. /\ v \in Sessions /\ v.map[g] = e /\ v.pend[g] = pd /\ v.ref[g] = r /\ v.last[g] = r.spend
        /\ v.told[g] = << >> /\ v.spends[g] = {}
      BY <1>7, <1>8 DEF Becomes
  <1>10. Becomes(v, t, g, v.map[g], v.pend[g], v.ref[g], v.last[g], v.told[g],
                 v.spends[g] \cup {sp})
      BY <1>3, <1>9, SpendForm
  <1>11. t.ref = v.ref /\ t.last = v.last
      BY <1>9 DEF SpendTransaction, Sessions
  <1> HIDE DEF t
  <1>12. Becomes(s, t, g, e, pd, r, r.spend, << >>, {} \cup {sp})
      BY <1>6, <1>7, <1>8, <1>9, <1>10, BecomesTwice
  <1> HIDE DEF c
  <1>13. /\ t \in Sessions /\ t.me = s.me /\ t.queue = s.queue /\ t.claims = s.claims
         /\ t.err = s.err /\ \A h \in Games : h # g => Same(s, t, h)
      BY <1>12 DEF Becomes
  <1>14. /\ t.map[g] = e /\ t.pend[g] = pd /\ t.ref[g] = r /\ t.last[g] = r.spend
         /\ t.told[g] = << >> /\ t.spends[g] = {} \cup {sp}
      BY <1>12 DEF Becomes
  <1>15. e.coin = c
      BY DEF c
  <1>16. \A h \in Games : h # g => GameInv(t, h)
    <2> SUFFICES ASSUME NEW h \in Games, h # g PROVE GameInv(t, h)
        OBVIOUS
    <2>1. Same(s, t, h) /\ GameInv(s, h) /\ s.claims \subseteq t.claims /\ (s.err => t.err)
        BY <1>13 DEF SessionInv
    <2> QED
        BY <2>1, <1>13, SameKeeps
  <1>17. TerminalInv(t, g)
      BY <1>13, <1>14 DEF TerminalInv
  <1>18. PendingInv(t, g)
      BY <1>2, <1>3, <1>13, <1>14, <1>15 DEF PendingInv
  <1>19. TurnInv(t, g)
      BY <1>13, <1>14 DEF TurnInv
  <1>20. RefereeInv(t, g)
    <2>1. AtCoin(t, g)
        BY <1>2, <1>13, <1>14 DEF AtCoin
    <2> QED
        BY <2>1, <1>13, <1>14 DEF RefereeInv
  <1>21. MovesInv(t, g)
      BY <1>2, <1>3, <1>13, <1>14, <1>15 DEF MovesInv
  <1>22. ArmedInv(t, g) /\ FinishedInv(t, g)
      BY <1>2, <1>14 DEF ArmedInv, FinishedInv
  <1>23. SpendsInv(t, g)
      BY <1>3, <1>13, <1>14, <1>15 DEF Submitted, SpendsInv
  <1>24. TimeoutArgs(t.ref[g], t.map[g].coin) = t.map[g].coin
    <2>1. r.spend # c
        BY <1>1, <1>15, SucceedsLater
    <2> QED
        BY <2>1, <1>14, <1>15, ClaimArgs
  <1>25. Orderly => ClaimsGood(t.me, t.claims)
      BY <1>13 DEF SessionInv
  <1>26. Placed(t, g) /\ Tracked(t, g)
      BY <1>14, <1>17, <1>18, <1>19, <1>20, <1>21, <1>22, <1>23 DEF Placed, Tracked
  <1>27. Unclaimed(t, g)
      BY <1>16, <1>24, <1>25, <1>26 DEF Unclaimed
  <1>28. Carries(t, w) /\ w.err = t.err
      BY <1>13, <1>14, <1>15, <1>27, RegisterKeeps
  <1>29. w.ref = t.ref /\ w.last = t.last
      BY <1>1, <1>13, RegisterRefs
  <1> HIDE DEF w
  <1>30. Carries(s, w) /\ w.err = s.err
      BY <1>13, <1>28 DEF Carries
  <1>31. w.ref = s.ref /\ w.last = s.last
      BY <1>4, <1>5, <1>11, <1>29
  <1> QED
      BY <1>30, <1>31 DEF w, t, v, u, pd, sp, c

\* One game's part of the transition.
LEMMA StartGameKeeps ==
    ASSUME StartInv, NEW s \in Sessions, SessionInv(s), Idle(s), Waiting(s), NEW g \in Games
    PROVE  Started(s, g, StartGame(s, g, start[g][s.me]))
  <1> DEFINE p == s.me
  <1> DEFINE st == start[g][p]
  <1> DEFINE w == StartGame(s, g, st)
  <1> DEFINE e == InitialEntry(st)
  <1>1. p \in Party /\ Standing(p, st)
      BY SessionFields, StartFacts
  <1>2. /\ ~Tracked(s, g) /\ s.pend[g] = Absent /\ s.ref[g] = st.ref /\ s.map[g] = Absent
        /\ told[p][g] = << >> /\ s.told[g] = << >> /\ s.spends[g] = {}
        /\ \A sp \in pool[g] : sp.k = "Move" => sp.coin.mover # p
        /\ s.err = FALSE
      BY DEF Waiting, Idle, Tracked
  <1>3. 0 \in 0..Amount /\ OurCurrentShare(st.ref) \in 0..Amount /\ st.ref.spend \in Positions
        /\ st.ref.mine \in BOOLEAN
      BY <1>1, AmountAssumption, RefereeFields DEF Standing
  <1>4. IsGameOver(st.ref) \in BOOLEAN
      BY <1>3, PositionFields DEF IsGameOver
  <1>5. CASE st.how = "Unheard"
    <2>1. w = s
        BY <1>5 DEF StartGame, GoneOffChain, OffChain
    <2> QED
        BY <2>1, <1>5 DEF Started, Carries
  <1>6. CASE st.how = "Resolved"
    <2> DEFINE sh == OurCurrentShare(st.ref)
    <2>1. w = Settled(s, g, "AcceptSettlement", sh)
        BY <1>6 DEF StartGame, GoneOffChain, OffChain
    <2> HIDE DEF sh
    <2>2. "AcceptSettlement" \in Outcomes
          /\ TellingTrue(p, g, [outcome |-> "AcceptSettlement", share |-> sh])
        BY <1>1, ForfeitTrue
    <2>3. Carries(s, w) /\ w.ref = s.ref /\ w.last = s.last /\ w.err = s.err
        BY <2>1, <2>2, <1>2, <1>3, OffKeeps DEF sh
    <2> HIDE DEF w, st
    <2> QED
        BY <2>3, <1>6 DEF Started, w, st
  <1>7. CASE st.how = "InFlight"
    <2>1. w = Settled(s, g, "EndedCancelled", 0)
        BY <1>7 DEF StartGame, GoneOffChain, OffChain
    <2>2. "EndedCancelled" \in Outcomes
          /\ TellingTrue(p, g, [outcome |-> "EndedCancelled", share |-> 0])
        BY <1>1, ForfeitTrue
    <2>3. Carries(s, w) /\ w.ref = s.ref /\ w.last = s.last /\ w.err = s.err
        BY <2>1, <2>2, <1>2, <1>3, OffKeeps
    <2> QED
        BY <2>3, <1>7 DEF Started
  <1>8. CASE st.how = "Missing"
    <2>1. w = Settled(s, g, "EndedError", 0)
        BY <1>8 DEF StartGame, GoneOffChain, OffChain, EndedError
    <2>2. "EndedError" \in Outcomes
          /\ TellingTrue(p, g, [outcome |-> "EndedError", share |-> 0])
        BY <1>8 DEF Outcomes, TellingTrue, WithoutCoin
    <2>3. /\ Carries(s, w) /\ w.ref = s.ref /\ w.last = s.last /\ w.err = s.err
          /\ w.map[g] = Absent
        BY <2>1, <2>2, <1>2, <1>3, OffKeeps
    <2> QED
        BY <2>3, <1>8 DEF Started
  <1>9. CASE st.how \notin OffChain /\ NothingToGain(st)
    <2> DEFINE o == ZeroRewardOutcome(st)
    <2>1. w = Settled(s, g, o, 0)
        BY <1>9 DEF StartGame
    <2>2. o \in Forfeits
        BY <1>1, <1>9 DEF Standing, ZeroRewardOutcome, Forfeits
    <2> HIDE DEF o
    <2>3. o \in Outcomes /\ TellingTrue(p, g, [outcome |-> o, share |-> 0])
        BY <2>2, <1>1, ForfeitTrue
    <2>4. /\ Carries(s, w) /\ w.ref = s.ref /\ w.last = s.last /\ w.err = s.err
          /\ w.map[g] = Absent
        BY <2>1, <2>3, <1>2, <1>3, OffKeeps
    <2>5. ~(st.how = "Latest" /\ st.ref.mine) /\ st.how # "Missing"
        BY <1>9 DEF NothingToGain, OffChain
    <2> QED
        BY <2>4, <2>5 DEF Started
  <1>10. CASE st.how \notin OffChain /\ ~NothingToGain(st)
    <2>1. st.coin \in Positions /\ st.coin.legal /\ st.how \in {"Latest", "Redo", "Settling"}
        BY <1>1, <1>10 DEF Standing
    <2>2. st.how # "Missing"
        BY <2>1
    <2>3. w = IF st.how = "Redo"
              THEN RegisterCoin(SpendTransaction(Await(Enter(s, g, e), g, Pending(st.coin, st.ref)),
                                                 g, Move(st.coin, st.ref.spend)), g, st.coin)
              ELSE RegisterCoin(Enter(s, g, e), g, st.coin)
        BY <1>10 DEF StartGame, Enter, Await
    <2>4. CASE st.how = "Latest"
      <3> DEFINE turn == st.ref.mine
      <3> DEFINE over == IsGameOver(st.ref)
      <3> DEFINE armed == FALSE
      <3>1. e = Entry(st.coin, turn, over, armed)
          BY <2>4 DEF InitialEntry
      <3>2. turn \in BOOLEAN /\ over \in BOOLEAN /\ armed \in BOOLEAN /\ ~armed
          BY <1>3, <1>4
      <3>3. turn = (st.coin.mover = p) /\ st.ref.spend = st.coin /\ st.ref.create.n = 0
          BY <2>4, <1>1 DEF Standing
      <3>4. st.coin.over => over
          BY <3>3 DEF IsGameOver
      <3> HIDE DEF turn, over, armed, e
      <3>5. /\ e \in Entries /\ e # Absent /\ e.coin = st.coin /\ e.our_turn = turn
            /\ e.finished = over /\ e.armed = armed /\ ~e.slash
        <4>1. turn \in BOOLEAN /\ over \in BOOLEAN /\ armed \in BOOLEAN
            BY <3>2
        <4> QED
            BY <4>1, <3>1, <2>1, EntryMade
      <3>6. /\ e.our_turn = (e.coin.mover = s.me) /\ ~e.armed /\ (e.coin.over => e.finished)
            /\ \A sp \in pool[g] \cup s.spends[g] :
                  sp.k = "Move" /\ sp.coin.mover = s.me => sp.coin.n < e.coin.n
          BY <3>2, <3>3, <3>4, <3>5, <1>2
      <3>7. IF e.coin.mover = s.me
            THEN st.ref.mine /\ st.ref.spend = e.coin /\ e.coin.legal
            ELSE ~st.ref.mine /\ st.ref.spend = e.coin /\ st.ref.create.n <= st.ref.spend.n
        <4>1. st.coin.n \in Nat
            BY <2>1, PositionFields
        <4>2. st.ref.create.n <= st.ref.spend.n
            BY <4>1, <3>3
        <4>3. st.ref.mine <=> e.coin.mover = s.me
            BY <3>3, <3>5 DEF turn
        <4>4. st.ref.spend = e.coin /\ e.coin.legal
            BY <3>3, <3>5, <2>1
        <4> QED
            BY <4>2, <4>3, <4>4
      <3>8. w = RegisterCoin(Enter(s, g, e), g, e.coin)
          BY <3>5, <2>3, <2>4
      <3>9. /\ Carries(s, w) /\ w.ref = s.ref /\ w.last = s.last /\ w.err = s.err
            /\ w.map[g] = e /\ w.pend[g] = Absent
          BY <3>5, <3>6, <3>7, <3>8, <1>2, LatestKeeps
      <3>10. st.ref.mine => e.our_turn
          BY <3>5 DEF turn
      <3>11. w.ref[g].spend = e.coin
          BY <3>9, <3>5, <3>3, <1>2
      <3> HIDE DEF w, st
      <3> QED
          BY <3>5, <3>6, <3>9, <3>10, <3>11, <2>2 DEF Started, w, st
    <2>5. CASE st.how = "Settling"
      <3> DEFINE turn == TRUE
      <3> DEFINE over == FALSE
      <3> DEFINE armed == TRUE
      <3>1. e = Entry(st.coin, turn, over, armed)
          BY <2>5 DEF InitialEntry
      <3>2. turn \in BOOLEAN /\ over \in BOOLEAN /\ armed \in BOOLEAN /\ armed /\ turn
          OBVIOUS
      <3>3. st.ref.mine /\ st.coin.mover = p /\ st.ref.spend = st.coin
          BY <2>5, <1>1 DEF Standing
      <3> HIDE DEF turn, over, armed, e
      <3>5. /\ e \in Entries /\ e # Absent /\ e.coin = st.coin /\ e.our_turn = turn
            /\ e.finished = over /\ e.armed = armed /\ ~e.slash
        <4>1. turn \in BOOLEAN /\ over \in BOOLEAN /\ armed \in BOOLEAN
            BY <3>2
        <4> QED
            BY <4>1, <3>1, <2>1, EntryMade
      <3>6. /\ e.our_turn = (e.coin.mover = s.me) /\ e.armed /\ e.our_turn
            /\ \A sp \in pool[g] \cup s.spends[g] :
                  sp.k = "Move" /\ sp.coin.mover = s.me => sp.coin.n < e.coin.n
          BY <3>2, <3>3, <3>5, <1>2
      <3>7. IF e.coin.mover = s.me
            THEN st.ref.mine /\ st.ref.spend = e.coin /\ e.coin.legal
            ELSE ~st.ref.mine /\ st.ref.spend = e.coin /\ st.ref.create.n <= st.ref.spend.n
          BY <3>3, <3>5, <2>1
      <3>8. w = RegisterCoin(Enter(s, g, e), g, e.coin)
          BY <3>5, <2>3, <2>5
      <3>9. /\ Carries(s, w) /\ w.ref = s.ref /\ w.last = s.last /\ w.err = s.err
          BY <3>5, <3>6, <3>7, <3>8, <1>2, LatestKeeps
      <3> QED
          BY <3>9, <2>2, <2>5 DEF Started
    <2>6. CASE st.how = "Redo"
      <3> DEFINE turn == TRUE
      <3> DEFINE over == IsGameOver(st.ref)
      <3> DEFINE armed == FALSE
      <3>1. e = Entry(st.coin, turn, over, armed)
          BY <2>6 DEF InitialEntry
      <3>2. turn \in BOOLEAN /\ over \in BOOLEAN /\ armed \in BOOLEAN /\ ~armed /\ turn
          BY <1>4
      <3>3. /\ ~st.ref.mine /\ st.coin.mover = p /\ st.ref.create = st.coin
            /\ Succeeds(st.coin, st.ref.spend) /\ ~st.ref.spend.raises
          BY <2>6, <1>1 DEF Standing
      <3> HIDE DEF turn, over, armed, e
      <3>5. /\ e \in Entries /\ e # Absent /\ e.coin = st.coin /\ e.our_turn = turn
            /\ e.armed = armed /\ ~e.slash
        <4>1. turn \in BOOLEAN /\ over \in BOOLEAN /\ armed \in BOOLEAN
            BY <3>2
        <4> QED
            BY <4>1, <3>1, <2>1, EntryMade
      <3>6. ~e.armed /\ e.our_turn
          BY <3>2, <3>5
      <3>7. w = RegisterCoin(SpendTransaction(Await(Enter(s, g, e), g, Pending(e.coin, st.ref)),
                                              g, Move(e.coin, st.ref.spend)), g, e.coin)
          BY <3>5, <2>3, <2>6
      <3>8. Carries(s, w) /\ w.ref = s.ref /\ w.last = s.last /\ w.err = s.err
          BY <3>3, <3>5, <3>6, <3>7, <2>1, <1>2, RedoKeeps, SMTT(40)
      <3> QED
          BY <3>8, <2>2, <2>6 DEF Started
    <2> QED
        BY <2>1, <2>4, <2>5, <2>6
  <1> QED
      BY <1>5, <1>6, <1>7, <1>8, <1>9, <1>10 DEF OffChain

\* All of them together.
LEMMA StartGamesKeeps ==
    ASSUME StartInv, NEW s \in Sessions, SessionInv(s), Idle(s), Waiting(s)
    PROVE  LET t == StartGames(s, [g \in Games |-> start[g][s.me]]) IN
           /\ Carries(s, t) /\ t.queue = s.queue /\ t.err = s.err
           /\ \A g \in Games :
                 \E w : Started(s, g, w) /\ Same(w, t, g)
  <1> DEFINE starts == [g \in Games |-> start[g][s.me]]
  <1> DEFINE W == [g \in Games |-> StartGame(s, g, starts[g])]
  <1> DEFINE mp == [g \in Games |-> W[g].map[g]]
  <1> DEFINE pn == [g \in Games |-> W[g].pend[g]]
  <1> DEFINE td == [g \in Games |-> W[g].told[g]]
  <1> DEFINE sps == [g \in Games |-> W[g].spends[g]]
  <1> DEFINE wt == UNION {W[g].watch : g \in Games}
  <1> DEFINE cl == UNION {W[g].claims : g \in Games}
  <1> DEFINE t == [s EXCEPT !.map = mp, !.pend = pn, !.told = td, !.spends = sps,
                            !.watch = wt, !.claims = cl]
  <1>1. t = StartGames(s, starts)
      BY DEF StartGames
  <1>2. \A g \in Games : Started(s, g, W[g])
      BY StartGameKeeps
  <1> HIDE DEF W
  <1>3. \A g \in Games : W[g] \in Sessions /\ W[g].me = s.me /\ SessionInv(W[g])
                         /\ W[g].ref = s.ref /\ W[g].last = s.last /\ W[g].err = s.err
      BY <1>2 DEF Started, Carries
  <1>4. mp \in [Games -> Entries]
      BY <1>3, SessionFields
  <1>5. pn \in [Games -> Pendings]
      BY <1>3, SessionFields
  <1>6. td \in [Games -> Seq(Tellings)]
    <2>1. \A g \in Games : W[g].told[g] \in Seq(Tellings)
        BY <1>3, SessionFields
    <2> QED
        BY <2>1
  <1>7. sps \in [Games -> SUBSET Spends]
    <2>1. \A g \in Games : W[g].spends[g] \in SUBSET Spends
        BY <1>3, SessionFields
    <2> QED
        BY <2>1
  <1>8. cl \in SUBSET Claims /\ wt \in SUBSET Watches
    <2>1. \A g \in Games : W[g].claims \in SUBSET Claims /\ W[g].watch \in SUBSET Watches
        BY <1>3, SessionFields
    <2> QED
        BY <2>1
  <1>9. \A g \in Games : W[g].claims \subseteq cl
      OBVIOUS
  <1>10. \A c \in cl : \E g \in Games : c \in W[g].claims
      OBVIOUS
  <1>11. \A g \in Games : /\ mp[g] = W[g].map[g] /\ pn[g] = W[g].pend[g]
                          /\ td[g] = W[g].told[g] /\ sps[g] = W[g].spends[g]
      OBVIOUS
  <1> HIDE DEF mp, pn, td, sps, wt, cl
  <1>12. t \in Sessions
      BY <1>4, <1>5, <1>6, <1>7, <1>8 DEF Sessions
  <1>13. t.me = s.me /\ t.queue = s.queue /\ t.err = s.err
      BY DEF Sessions
  <1>14. t.map = mp /\ t.pend = pn
      BY DEF Sessions
  <1>15. t.told = td /\ t.spends = sps
      BY DEF Sessions
  <1>16. t.ref = s.ref /\ t.last = s.last /\ t.claims = cl
      BY DEF Sessions
  <1> HIDE DEF t
  <1>17. \A g \in Games : Same(W[g], t, g)
    <2> SUFFICES ASSUME NEW g \in Games PROVE Same(W[g], t, g)
        OBVIOUS
    <2>1. t.map[g] = W[g].map[g] /\ t.pend[g] = W[g].pend[g]
        BY <1>11, <1>14
    <2>2. t.told[g] = W[g].told[g] /\ t.spends[g] = W[g].spends[g]
        BY <1>11, <1>15
    <2>3. t.ref[g] = W[g].ref[g] /\ t.last[g] = W[g].last[g]
        BY <1>3, <1>16
    <2> QED
        BY <2>1, <2>2, <2>3 DEF Same
  <1>18. \A g \in Games : GameInv(t, g)
    <2> SUFFICES ASSUME NEW g \in Games PROVE GameInv(t, g)
        OBVIOUS
    <2>1. W[g].claims \subseteq t.claims /\ (W[g].err => t.err) /\ t.me = W[g].me
        BY <1>3, <1>9, <1>13, <1>16
    <2>2. W[g] \in Sessions /\ GameInv(W[g], g)
        BY <1>3 DEF SessionInv
    <2> QED
        BY <2>1, <2>2, <1>12, <1>17, SameKeeps
  <1>19. Orderly => ClaimsGood(t.me, t.claims)
    <2> SUFFICES ASSUME Orderly, NEW c \in cl
                 PROVE  c.args = c.coin /\ TimeoutSpend(c.coin).pay[s.me] > 0
        BY <1>13, <1>16 DEF ClaimsGood
    <2>1. PICK g \in Games : c \in W[g].claims
        BY <1>10
    <2>2. ClaimsGood(s.me, W[g].claims)
        BY <1>3 DEF SessionInv
    <2> QED
        BY <2>1, <2>2 DEF ClaimsGood
  <1>20. Carries(s, t)
      BY <1>12, <1>13, <1>18, <1>19 DEF Carries, SessionInv
  <1>21. \A g \in Games : \E w : Started(s, g, w) /\ Same(w, t, g)
      BY <1>2, <1>17
  <1> QED
      BY <1>1, <1>13, <1>20, <1>21

\* finish_on_chain_transition
LEMMA FinishKeeps ==
    ASSUME StartInv, NEW s \in Sessions, SessionInv(s), Idle(s), Waiting(s), Parks(s)
    PROVE  Answers(s, FinishOnChainTransition(s, [g \in Games |-> start[g][s.me]]))
  <1> DEFINE starts == [g \in Games |-> start[g][s.me]]
  <1> DEFINE t == StartGames(s, starts)
  <1>1. /\ Carries(s, t) /\ t.queue = s.queue /\ t.err = s.err
        /\ \A g \in Games : \E w : Started(s, g, w) /\ Same(w, t, g)
      BY StartGamesKeeps
  <1>2. FinishOnChainTransition(s, starts) =
            IF \A g \in Games : ~Tracked(t, g) THEN NewTerminal(t) ELSE ProcessQueuedAction(t)
      BY DEF FinishOnChainTransition
  <1> HIDE DEF t, starts
  <1>3. t \in Sessions /\ t.me = s.me /\ SessionInv(t)
      BY <1>1 DEF Carries
  <1>4. CASE \A g \in Games : ~Tracked(t, g)
    <2> DEFINE nil == << >>
    <2> DEFINE w == [t EXCEPT !.queue = nil]
    <2>1. w \in Sessions
      <3>1. nil \in Seq(Acts({"Move"}))
          OBVIOUS
      <3> HIDE DEF nil
      <3> QED
          BY <3>1, <1>3 DEF Sessions
    <2>2. w.queue = << >> /\ w.me = t.me /\ w.err = t.err /\ w.claims = t.claims
        BY <1>3 DEF Sessions
    <2>3. w.map = t.map /\ w.pend = t.pend /\ w.ref = t.ref /\ w.last = t.last
          /\ w.told = t.told /\ w.spends = t.spends
        BY <1>3 DEF Sessions
    <2> HIDE DEF w
    <2>4. \A h \in Games : Same(t, w, h)
        BY <2>3 DEF Same
    <2>5. (Orderly => ClaimsGood(w.me, w.claims)) /\ t.claims \subseteq w.claims
          /\ (t.err => w.err)
        BY <2>2, <1>3 DEF SessionInv
    <2>6. SessionInv(w)
        BY <2>1, <2>2, <2>4, <2>5, <1>3, AllSameKeeps
    <2>7. Answers(s, w)
        BY <2>1, <2>2, <2>6, <1>1, <1>3 DEF Answers, Carries
    <2> QED
        BY <2>7, <1>2, <1>4 DEF NewTerminal, w, starts
  <1>5. CASE ~\A g \in Games : ~Tracked(t, g)
    <2> DEFINE q == t.queue
    <2> DEFINE a == q[1]
    <2>1. q \in Seq(Acts({"Move"})) /\ q = s.queue
        BY <1>1, <1>3, SessionFields
    <2> HIDE DEF q
    <2>2. ASSUME Len(q) # 0
          PROVE  /\ a.g \in Games
                 /\ start[a.g][s.me].how \in {"Latest", "Missing"} /\ start[a.g][s.me].ref.mine
      <3>1. 1 \in DOMAIN q
          BY <2>1, <2>2
      <3>2. a \in Acts({"Move"})
          BY <2>1, <3>1
      <3>3. a.g \in Games
          BY <3>2 DEF Acts
      <3> QED
          BY <3>1, <3>3, <2>1 DEF Parks
    <2>3. ASSUME Len(q) # 0
          PROVE  Proper(t, a)
      <3> DEFINE g == a.g
      <3> DEFINE st == start[g][s.me]
      <3>1. g \in Games /\ st.how \in {"Latest", "Missing"} /\ st.ref.mine
          BY <2>2, <2>3
      <3> HIDE DEF a
      <3>2. PICK w : Started(s, g, w) /\ Same(w, t, g)
          BY <3>1, <1>1
      <3>3. CASE st.how = "Missing"
        <4>1. t.map[g] = Absent
            BY <3>2, <3>3 DEF Started, Same
        <4> QED
            BY <4>1 DEF Proper, Tracked
      <3>4. CASE st.how = "Latest"
        <4>1. /\ w.map[g] # Absent /\ w.pend[g] = Absent
              /\ w.map[g].our_turn /\ ~w.map[g].armed
            BY <3>1, <3>2, <3>4 DEF Started
        <4>2. t.map[g] = w.map[g] /\ t.pend[g] = Absent
            BY <3>2, <4>1 DEF Same
        <4> HIDE DEF st
        <4> QED
            BY <4>1, <4>2 DEF Proper
      <3> QED
          BY <3>1, <3>3, <3>4
    <2>5. Orderly => Len(q) <= 1
        BY <2>1 DEF Parks
    <2>6. Orderly => Len(t.queue) <= 1 /\ (Len(t.queue) # 0 => Proper(t, t.queue[1]))
      <3>1. Len(q) # 0 => Proper(t, q[1])
          BY <2>3
      <3> QED
          BY <3>1, <2>5 DEF q
    <2>8. Answers(t, ProcessQueuedAction(t))
        BY <2>6, <1>3, QueueKeeps DEF Answers
    <2>9. Answers(s, ProcessQueuedAction(t))
        BY <2>8, <1>1, <1>3, AnswersTwice
    <2> QED
        BY <2>9, <1>2, <1>5 DEF starts
  <1> QED
      BY <1>4, <1>5

-----------------------------------------------------------------------------
(***************************************************************************)
(* The steps of the system: what a call leaves in the state, and what      *)
(* disturbs no session.                                                    *)
(***************************************************************************)

\* A session is left with what it holds of its games.
LEMMA NoEffectsForm ==
    ASSUME NEW s \in Sessions
    PROVE  LET t == NoEffects(s) IN
           /\ t \in Sessions /\ t.me = s.me /\ t.queue = s.queue
           /\ t.map = s.map /\ t.pend = s.pend /\ t.ref = s.ref /\ t.last = s.last
           /\ Idle(t)
  <1> DEFINE td == [g \in Games |-> << >>]
  <1> DEFINE sps == [g \in Games |-> {}]
  <1> DEFINE t == [s EXCEPT !.told = td, !.spends = sps, !.watch = {}, !.claims = {},
                            !.err = FALSE, !.stop = FALSE]
  <1>1. td \in [Games -> Seq(Tellings)] /\ sps \in [Games -> SUBSET Spends]
      OBVIOUS
  <1>2. \A g \in Games : td[g] = << >> /\ sps[g] = {}
      OBVIOUS
  <1>3. t = NoEffects(s)
      BY DEF NoEffects
  <1> HIDE DEF td, sps
  <1>5. t \in Sessions
      BY <1>1 DEF Sessions
  <1>6. t.me = s.me /\ t.queue = s.queue /\ t.map = s.map /\ t.pend = s.pend
      BY DEF Sessions
  <1>7. t.ref = s.ref /\ t.last = s.last /\ t.told = td /\ t.spends = sps
      BY DEF Sessions
  <1>8. t.watch = {} /\ t.claims = {} /\ t.err = FALSE /\ t.stop = FALSE
      BY DEF Sessions
  <1> HIDE DEF t
  <1>9. Idle(t)
      BY <1>2, <1>7, <1>8 DEF Idle
  <1> QED
      BY <1>3, <1>5, <1>6, <1>7, <1>9

\* What was true of a game in the middle of a call is true of the state after.
LEMMA DeliveredGame ==
    ASSUME NEW s, NEW t, NEW g \in Games, GameInv(s, g), t.me = s.me,
           t.map[g] = s.map[g], t.pend[g] = s.pend[g], t.ref[g] = s.ref[g],
           t.last[g] = s.last[g], t.told[g] = << >>, t.spends[g] = {}, t.claims = {},
           Tracked(s, g) => told'[s.me][g] = << >>,
           \A sp \in pool'[g] : sp \in pool[g] \cup s.spends[g]
                                \/ (sp.k = "Move" => sp.coin.mover # s.me),
           lost'[s.me] \/ (/\ claims[s.me] \cup s.claims \subseteq claims'[s.me]
                           /\ pool[g] \cup s.spends[g] \subseteq pool'[g]
                           /\ ~s.err /\ ~lost[s.me])
    PROVE  GameInv(t, g)'
  <1>1. TerminalInv(t, g)'
      BY DEF TerminalInv, Tracked
  <1>2. PendingInv(t, g)'
      BY DEF GameInv, PendingInv, Tracked
  <1>3. TurnInv(t, g)'
      BY DEF GameInv, TurnInv, Tracked
  <1>4. AtCoin(t, g)' = AtCoin(s, g)
      BY DEF AtCoin
  <1>5. RefereeInv(t, g)'
      BY <1>4 DEF GameInv, RefereeInv, Tracked
  <1>6. MovesInv(t, g)'
      BY DEF GameInv, MovesInv, Tracked
  <1>7. ArmedInv(t, g)'
      BY <1>4 DEF GameInv, ArmedInv, Tracked
  <1>8. ClaimInv(t, g)'
      BY DEF GameInv, ClaimInv, Tracked
  <1>9. FinishedInv(t, g)'
      BY DEF GameInv, FinishedInv, Tracked
  <1>10. SpendsInv(t, g)'
      BY DEF SpendsInv
  <1> QED
      BY <1>1, <1>2, <1>3, <1>5, <1>6, <1>7, <1>8, <1>9, <1>10 DEF GameInv

\* What a player was told stays true: a coin paid out stays as it is.
LEMMA TellingStays ==
    ASSUME NEW p, NEW g \in Games, NEW x, TellingTrue(p, g, x),
           start' = start, coin[g] \in Spends => coin'[g] = coin[g],
           spent[g] \subseteq spent'[g], pool[g] \subseteq pool'[g], lost[p] => lost'[p]
    PROVE  TellingTrue(p, g, x)'
  <1>1. Garbled(p, g) => Garbled(p, g)'
      BY DEF Garbled
  <1>2. \A sp : MoveTooLate(p, g, sp) => MoveTooLate(p, g, sp)'
      BY DEF MoveTooLate
  <1>3. ASSUME x.outcome \notin WithoutCoin, Orderly
        PROVE  Story(p, g, coin[g], x.outcome)'
    <2>1. PICK sp : sp = coin[g]
        OBVIOUS
    <2>2. sp = coin'[g] /\ Story(p, g, sp, x.outcome)
        BY <2>1, <1>3 DEF TellingTrue
    <2>3. Story(p, g, sp, x.outcome)'
        BY <2>2, <1>2 DEF Story
    <2> QED
        BY <2>2, <2>3
  <1>4. x.outcome \notin WithoutCoin => coin'[g] \in Spends /\ x.share = coin'[g].pay[p]
      BY DEF TellingTrue
  <1>5. x.outcome = "EndedError" =>
            p \in Misled \/ start'[g][p].how = "Missing" \/ Garbled(p, g)'
      BY <1>1 DEF TellingTrue
  <1>6. Orderly' = Orderly
      BY DEF Orderly, SoleGame
  <1> QED
      BY <1>3, <1>4, <1>5, <1>6 DEF TellingTrue

\* A player whose own state does not change is not disturbed by what the
\* other one submits, or by the chain.
LEMMA Undisturbed ==
    ASSUME GamesInv, NEW p \in Party, start' = start, sess'[p] = sess[p],
           told'[p] = told[p], claims'[p] = claims[p], lost'[p] = lost[p],
           phase'[p] = phase[p],
           \A g \in Games : coin[g] \in Spends => coin'[g] = coin[g],
           \A g \in Games : spent[g] \subseteq spent'[g] /\ pool[g] \subseteq pool'[g],
           \A g \in Games : \A sp \in pool'[g] :
               sp \in pool[g] \/ (sp.k = "Move" => sp.coin.mover # p)
    PROVE  PlayerInv(p)'
  <1>1. PICK s : s = sess[p]
      OBVIOUS
  <1>2. /\ s \in Sessions /\ s.me = p /\ Idle(s) /\ SessionInv(s)
        /\ \A g \in Games : ToldInv(p, g) /\ Len(told[p][g]) <= 1
        /\ UnrollInv(p)
        /\ Orderly => ClaimsGood(p, claims[p])
        /\ Orderly /\ phase[p] = "OnChain" => s.queue = << >>
    <2>1. sess[p] \in Sessions /\ PlayerInv(p)
        BY DEF GamesInv, TypeOK
    <2> QED
        BY <2>1, <1>1 DEF PlayerInv
  <1>3. /\ \A g \in Games : s.told[g] = << >> /\ s.spends[g] = {}
        /\ s.claims = {} /\ s.err = FALSE
      BY <1>2 DEF Idle
  <1>4. \A g \in Games : GameInv(s, g)'
    <2> SUFFICES ASSUME NEW g \in Games PROVE GameInv(s, g)'
        OBVIOUS
    <2>1. GameInv(s, g)
        BY <1>2 DEF SessionInv
    <2>2. Tracked(s, g) => told'[s.me][g] = << >>
        BY <2>1, <1>2 DEF GameInv, TerminalInv
    <2>3. lost'[s.me] \/ (/\ claims[s.me] \cup s.claims \subseteq claims'[s.me]
                          /\ pool[g] \cup s.spends[g] \subseteq pool'[g]
                          /\ ~s.err /\ ~lost[s.me])
      <3>1. lost[s.me] \in BOOLEAN
          BY <1>2 DEF GamesInv, TypeOK
      <3> QED
          BY <3>1, <1>2, <1>3
    <2>4. \A sp \in pool'[g] : sp \in pool[g] \cup s.spends[g]
                               \/ (sp.k = "Move" => sp.coin.mover # s.me)
        BY <1>2
    <2> QED
        BY <2>1, <2>2, <2>3, <2>4, <1>3, DeliveredGame
  <1>5. SessionInv(s)'
    <2>1. Orderly' => ClaimsGood(s.me, s.claims)'
        BY <1>3 DEF ClaimsGood
    <2> QED
        BY <2>1, <1>4 DEF SessionInv
  <1>6. \A g \in Games : ToldInv(p, g)' /\ Len(told'[p][g]) <= 1
    <2> SUFFICES ASSUME NEW g \in Games PROVE ToldInv(p, g)' /\ Len(told'[p][g]) <= 1
        OBVIOUS
    <2>1. ToldInv(p, g) /\ Len(told[p][g]) <= 1
        BY <1>2
    <2>2. ASSUME NEW i \in DOMAIN told[p][g] PROVE TellingTrue(p, g, told[p][g][i])'
      <3>1. PICK x : x = told[p][g][i]
          OBVIOUS
      <3>2. TellingTrue(p, g, x)'
        <4>1. /\ spent[g] \subseteq spent'[g] /\ pool[g] \subseteq pool'[g]
              /\ coin[g] \in Spends => coin'[g] = coin[g]
            OBVIOUS
        <4> QED
            BY <2>1, <3>1, <4>1, TellingStays DEF ToldInv
      <3> QED
          BY <3>1, <3>2 DEF TellingTrue
    <2> QED
        BY <2>1, <2>2 DEF ToldInv
  <1>7. UnrollInv(p)'
    <2>1. Waiting(s) => Waiting(s)'
        BY <1>2 DEF Waiting
    <2>2. Parks(s) => Parks(s)'
        BY <1>2 DEF Parks, Orderly, SoleGame
    <2>3. s = sess'[p]
        BY <1>1
    <2> QED
        BY <2>1, <2>2, <2>3, <1>1, <1>2 DEF UnrollInv
  <1>8. SessionInv(sess[p])' /\ Idle(sess[p])' /\ sess'[p].me = p
    <2>1. s = sess'[p] /\ Idle(s)'
        BY <1>1, <1>2 DEF Idle
    <2> QED
        BY <2>1, <1>2, <1>5
  <1>9. (Orderly => ClaimsGood(p, claims[p]))'
      BY <1>2 DEF ClaimsGood, Orderly, SoleGame
  <1>10. (Orderly /\ phase[p] = "OnChain" => sess[p].queue = << >>)'
      BY <1>1, <1>2 DEF Orderly, SoleGame
  <1> QED
      BY <1>6, <1>7, <1>8, <1>9, <1>10 DEF PlayerInv

\* What is carried out for a call that answers r is what b has to show: the
\* answer and what the loops add to it, or nothing if it was Err.
Shown(p, r, b) ==
    /\ b \in Sessions /\ b.me = p /\ SessionInv(b) /\ (Orderly => b.queue = << >>)
    /\ b.err => r.err
    /\ NoEffects(Flush(r)) = NoEffects(b)
    /\ ~b.err => Flush(r) = b
    /\ b.err => Idle(Flush(r))

LEMMA FlushKeeps ==
    ASSUME NEW p \in Party, NEW r \in Sessions, r.me = p, SessionInv(r),
           Orderly => r.queue = << >>
    PROVE  \E b : Shown(p, r, b)
  <1> DEFINE n == NoEffects(r)
  <1>1. /\ n \in Sessions /\ n.me = r.me /\ n.queue = r.queue
        /\ n.map = r.map /\ n.pend = r.pend /\ n.ref = r.ref /\ n.last = r.last
        /\ Idle(n)
      BY NoEffectsForm
  <1>2. Flush(r) = IF r.err THEN Drain(n, 1) ELSE Drain(r, 2)
      BY DEF Flush
  <1>3. NoEffects(n) = n
      BY DEF NoEffects, Sessions
  <1> HIDE DEF n
  <1>4. CASE Orderly /\ r.err
    <2>1. Flush(r) = n
        BY <1>1, <1>2, <1>4, DrainEmpty
    <2>2. NoEffects(Flush(r)) = NoEffects(r)
        BY <2>1, <1>3 DEF n
    <2> QED
        BY <2>1, <2>2, <1>1, <1>4 DEF Shown
  <1>5. CASE Orderly /\ ~r.err
    <2>1. Flush(r) = r
        BY <1>2, <1>5, DrainEmpty
    <2> QED
        BY <2>1, <1>5 DEF Shown
  <1>6. CASE ~Orderly /\ ~r.err
    <2> DEFINE b == Drain(r, 2)
    <2>1. Carries(r, b) /\ ~b.err
      <3>1. 2 \in Nat
          OBVIOUS
      <3> QED
          BY <3>1, <1>6, DrainKeeps
    <2>2. Flush(r) = b
        BY <1>2, <1>6
    <2> HIDE DEF b
    <2> QED
        BY <2>1, <2>2, <1>6 DEF Shown, Carries
  <1>7. CASE ~Orderly /\ r.err
    <2>1. \A g \in Games : GameInv(n, g)
      <3> SUFFICES ASSUME NEW g \in Games PROVE GameInv(n, g)
          OBVIOUS
      <3>1. GameInv(r, g)
          BY DEF SessionInv
      <3>2. n.map[g] = r.map[g] /\ n.pend[g] = r.pend[g] /\ n.ref[g] = r.ref[g]
            /\ n.last[g] = r.last[g] /\ n.me = r.me
          BY <1>1
      <3>3. n.told[g] = << >> /\ n.spends[g] = {}
          BY <1>1 DEF Idle
      <3>4. TerminalInv(n, g)
          BY <3>1, <3>2, <3>3 DEF GameInv, TerminalInv, Tracked
      <3>5. PendingInv(n, g)
          BY <3>1, <3>2, <1>7 DEF GameInv, PendingInv, Tracked
      <3>6. TurnInv(n, g) /\ FinishedInv(n, g)
          BY <3>1, <3>2 DEF GameInv, TurnInv, FinishedInv, Tracked
      <3>7. RefereeInv(n, g)
          BY <3>1, <3>2 DEF GameInv, RefereeInv, AtCoin, Tracked
      <3>8. MovesInv(n, g)
          BY <3>1, <3>2, <3>3 DEF GameInv, MovesInv, Tracked
      <3>9. ArmedInv(n, g) /\ ClaimInv(n, g)
          BY <1>7 DEF ArmedInv, ClaimInv
      <3>10. SpendsInv(n, g)
          BY <3>3 DEF SpendsInv
      <3> QED
          BY <3>4, <3>5, <3>6, <3>7, <3>8, <3>9, <3>10 DEF GameInv
    <2>2. SessionInv(n) /\ ~n.err
        BY <2>1, <1>1, <1>7 DEF SessionInv, Idle
    <2> DEFINE b == Drain(n, 1)
    <2>3. Carries(n, b) /\ ~b.err
      <3>1. 1 \in Nat
          OBVIOUS
      <3> QED
          BY <3>1, <2>2, <1>1, <1>7, DrainKeeps
    <2>4. Flush(r) = b
        BY <1>2, <1>7
    <2> HIDE DEF b
    <2> QED
        BY <2>3, <2>4, <1>1, <1>7 DEF Shown, Carries
  <1> QED
      BY <1>4, <1>5, <1>6, <1>7

\* Every call of a player ends with Deliver.
LEMMA DeliverKeeps ==
    ASSUME GamesInv, NEW p \in Party, NEW r, Answers(sess[p], r), Deliver(p, r),
           start' = start, coin' = coin, mature' = mature, spent' = spent,
           asked' \in [Party -> [Games -> BOOLEAN]],
           phase' \in [Party -> {"Unroll", "OnChain"}], phase'[p] = "OnChain",
           \A q \in Party : q # p => phase'[q] = phase[q]
    PROVE  GamesInv'
  <1>2. /\ sess \in [Party -> Sessions] /\ lost \in [Party -> BOOLEAN]
        /\ pool \in [Games -> SUBSET Spends] /\ claims \in [Party -> SUBSET Claims]
        /\ watched \in [Party -> SUBSET Watches]
        /\ told \in [Party -> [Games -> Seq(Tellings)]]
      BY DEF GamesInv, TypeOK
  <1>4. PlayerInv(p) /\ sess[p].me = p
      BY DEF GamesInv, PlayerInv
  <1>24. /\ r \in Sessions /\ r.me = p /\ SessionInv(r) /\ r.err \in BOOLEAN
         /\ Orderly => r.queue = << >>
      BY <1>4, SessionFields DEF Answers, Carries
  <1>25. PICK s : Shown(p, r, s)
      BY <1>24, FlushKeeps
  <1> DEFINE t == NoEffects(s)
  <1>3. /\ s \in Sessions /\ SessionInv(s) /\ s.me = p
        /\ Orderly => s.queue = << >>
        /\ s.err => r.err
      BY <1>25 DEF Shown
  <1>26. PICK f : f = Flush(r)
      OBVIOUS
  <1>27. NoEffects(f) = t /\ (~s.err => f = s) /\ (s.err => Idle(f))
      BY <1>25, <1>26 DEF Shown
  <1>28. /\ sess' = [sess EXCEPT ![p] = NoEffects(f)]
         /\ pool' = [g \in Games |-> pool[g] \cup f.spends[g]]
         /\ watched' = [watched EXCEPT ![p] = @ \cup f.watch]
         /\ claims' = [claims EXCEPT ![p] = @ \cup f.claims]
         /\ told' = [told EXCEPT ![p] = [g \in Games |-> told[p][g] \o f.told[g]]]
         /\ lost' = [lost EXCEPT ![p] = @ \/ r.err]
      BY <1>26 DEF Deliver, CarryOut
  <1>29. ASSUME s.err PROVE pool' = pool /\ claims' = claims /\ told' = told
    <2>1. /\ \A g \in Games : f.spends[g] = {} /\ f.told[g] = << >>
          /\ f.claims = {}
        BY <1>27, <1>29 DEF Idle
    <2>2. pool' = pool
        BY <2>1, <1>2, <1>28
    <2>3. claims' = claims
        BY <2>1, <1>2, <1>28
    <2>4. told' = told
      <3> DEFINE td == [g \in Games |-> told[p][g] \o f.told[g]]
      <3>1. \A g \in Games : told[p][g] \in Seq(Tellings)
          BY <1>2
      <3>2. \A g \in Games : told[p][g] \o << >> = told[p][g]
          BY <3>1
      <3>3. td = told[p]
        <4>1. \A g \in Games : td[g] = told[p][g]
            BY <2>1, <3>2
        <4>2. told[p] \in [Games -> Seq(Tellings)]
            BY <1>2
        <4> QED
            BY <4>1, <4>2
      <3>4. told' = [told EXCEPT ![p] = td]
          BY <1>28
      <3> HIDE DEF td
      <3> QED
          BY <3>3, <3>4, <1>2
    <2> QED
        BY <2>2, <2>3, <2>4
  <1>1. /\ sess' = [sess EXCEPT ![p] = t]
        /\ lost' = [lost EXCEPT ![p] = @ \/ r.err]
        /\ s.err => pool' = pool /\ claims' = claims /\ told' = told
        /\ ~s.err =>
              /\ pool' = [g \in Games |-> pool[g] \cup s.spends[g]]
              /\ claims' = [claims EXCEPT ![p] = @ \cup s.claims]
              /\ told' = [told EXCEPT ![p] = [g \in Games |-> told[p][g] \o s.told[g]]]
    <2> HIDE DEF t
    <2>1. ~s.err => f = s
        BY <1>27
    <2> QED
        BY <2>1, <1>27, <1>28, <1>29
  <1>5. s.me = p /\ s.err \in BOOLEAN
      BY <1>3, SessionFields
  <1>30. watched' \in [Party -> SUBSET Watches]
    <2>1. f.watch \in SUBSET Watches
      <3>1. CASE s.err
          BY <3>1, <1>27 DEF Idle
      <3>2. CASE ~s.err
          BY <3>2, <1>3, <1>27, SessionFields
      <3> QED
          BY <3>1, <3>2
    <2>2. watched[p] \cup f.watch \in SUBSET Watches
        BY <2>1, <1>2
    <2> QED
        BY <2>2, <1>2, <1>28
  <1>6. /\ t \in Sessions /\ t.me = p /\ t.queue = s.queue
        /\ t.map = s.map /\ t.pend = s.pend /\ t.ref = s.ref /\ t.last = s.last /\ Idle(t)
      BY <1>3, <1>5, NoEffectsForm
  <1> HIDE DEF t
  <1>7. sess'[p] = t /\ (\A q \in Party : q # p => sess'[q] = sess[q]) /\ sess' \in [Party -> Sessions]
      BY <1>1, <1>2, <1>6
  <1>8. /\ lost'[p] = (lost[p] \/ r.err) /\ lost' \in [Party -> BOOLEAN]
        /\ \A q \in Party : q # p => lost'[q] = lost[q]
      BY <1>1, <1>2, <1>24
  <1>9. /\ s.spends \in [Games -> SUBSET Spends] /\ s.claims \in SUBSET Claims
        /\ s.told \in [Games -> Seq(Tellings)]
      BY <1>3, SessionFields
  <1>10. /\ pool' \in [Games -> SUBSET Spends]
         /\ \A g \in Games : pool[g] \subseteq pool'[g] /\ pool'[g] \subseteq pool[g] \cup s.spends[g]
         /\ ~s.err => \A g \in Games : pool'[g] = pool[g] \cup s.spends[g]
    <2>1. CASE s.err
        BY <2>1, <1>1, <1>2
    <2>2. CASE ~s.err
      <3>1. \A g \in Games : pool[g] \in SUBSET Spends /\ s.spends[g] \in SUBSET Spends
          BY <1>2, <1>9
      <3>2. \A g \in Games : pool[g] \cup s.spends[g] \in SUBSET Spends
          BY <3>1
      <3>3. pool' = [g \in Games |-> pool[g] \cup s.spends[g]]
          BY <2>2, <1>1
      <3> QED
          BY <3>2, <3>3, <2>2
    <2> QED
        BY <2>1, <2>2
  <1>11. /\ claims' \in [Party -> SUBSET Claims]
         /\ \A q \in Party : q # p => claims'[q] = claims[q]
         /\ claims'[p] \subseteq claims[p] \cup s.claims
         /\ ~s.err => claims'[p] = claims[p] \cup s.claims
    <2>1. CASE s.err
        BY <2>1, <1>1, <1>2
    <2>2. CASE ~s.err
      <3> DEFINE cl == claims[p] \cup s.claims
      <3>1. claims' = [claims EXCEPT ![p] = cl]
          BY <2>2, <1>1
      <3>2. cl \in SUBSET Claims
          BY <1>2, <1>9
      <3> HIDE DEF cl
      <3>3. claims' \in [Party -> SUBSET Claims] /\ claims'[p] = cl
            /\ \A q \in Party : q # p => claims'[q] = claims[q]
          BY <3>1, <3>2, <1>2
      <3> QED
          BY <3>3, <2>2 DEF cl
    <2> QED
        BY <2>1, <2>2
  <1>12. /\ told' \in [Party -> [Games -> Seq(Tellings)]]
         /\ \A q \in Party : q # p => told'[q] = told[q]
         /\ \A g \in Games : told'[p][g] = told[p][g]
                             \/ (~s.err /\ told'[p][g] = told[p][g] \o s.told[g])
    <2>1. CASE s.err
        BY <2>1, <1>1, <1>2
    <2>2. CASE ~s.err
      <3> DEFINE td == [g \in Games |-> told[p][g] \o s.told[g]]
      <3>1. \A g \in Games : told[p][g] \in Seq(Tellings) /\ s.told[g] \in Seq(Tellings)
          BY <1>2, <1>9
      <3>2. \A g \in Games : told[p][g] \o s.told[g] \in Seq(Tellings)
          BY <3>1, ConcatProperties
      <3>3. td \in [Games -> Seq(Tellings)] /\ \A g \in Games : td[g] = told[p][g] \o s.told[g]
          BY <3>2
      <3>4. told' = [told EXCEPT ![p] = td]
          BY <2>2, <1>1
      <3> HIDE DEF td
      <3>5. told' \in [Party -> [Games -> Seq(Tellings)]] /\ told'[p] = td
            /\ \A q \in Party : q # p => told'[q] = told[q]
          BY <3>3, <3>4, <1>2
      <3> QED
          BY <3>3, <3>5, <2>2
    <2> QED
        BY <2>1, <2>2
  <1>13. TypeOK'
    <2>1. coin' \in [Games -> Positions \cup Spends \cup {Absent}] /\ mature' \in [Games -> BOOLEAN]
          /\ spent' \in [Games -> SUBSET Spends]
        BY DEF GamesInv, TypeOK
    <2> QED
        BY <2>1, <1>7, <1>8, <1>10, <1>11, <1>12, <1>30 DEF TypeOK
  <1>14. StartInv'
      BY DEF GamesInv, StartInv, StartPositions
  <1>15. \A g \in Games : GameInv(s, g)
      BY <1>3 DEF SessionInv
  <1>16. PoolInv'
    <2> SUFFICES ASSUME NEW g \in Games, NEW sp \in pool'[g] PROVE Submitted(sp)
        BY DEF PoolInv, Submitted
    <2>1. sp \in pool[g] \/ sp \in s.spends[g]
        BY <1>10
    <2> QED
        BY <2>1, <1>15 DEF GamesInv, PoolInv, GameInv, SpendsInv
  <1>17. ChainInv'
      BY <1>10 DEF GamesInv, ChainInv, PayOut
  <1>18. \A q \in Party : q # p => PlayerInv(q)'
    <2> SUFFICES ASSUME NEW q \in Party, q # p PROVE PlayerInv(q)'
        OBVIOUS
    <2>1. /\ sess'[q] = sess[q] /\ told'[q] = told[q] /\ claims'[q] = claims[q]
          /\ lost'[q] = lost[q] /\ phase'[q] = phase[q]
        BY <1>7, <1>8, <1>11, <1>12
    <2>2. \A g \in Games : \A sp \in pool'[g] :
              sp \in pool[g] \/ (sp.k = "Move" => sp.coin.mover # q)
      <3> SUFFICES ASSUME NEW g \in Games, NEW sp \in s.spends[g], sp.k = "Move"
                   PROVE  sp.coin.mover # q
          BY <1>10
      <3>1. sp.coin.mover = p
          BY <1>5, <1>15 DEF GameInv, SpendsInv
      <3> QED
          BY <3>1
    <2>3. \A g \in Games : coin[g] \in Spends => coin'[g] = coin[g]
        OBVIOUS
    <2>4. \A g \in Games : spent[g] \subseteq spent'[g] /\ pool[g] \subseteq pool'[g]
        BY <1>10
    <2> QED
        BY <2>1, <2>2, <2>3, <2>4, Undisturbed
  <1>19. \A g \in Games : GameInv(t, g)'
    <2> SUFFICES ASSUME NEW g \in Games PROVE GameInv(t, g)'
        OBVIOUS
    <2>1. GameInv(s, g) /\ t.me = s.me
        BY <1>5, <1>6, <1>15
    <2>2. t.map[g] = s.map[g] /\ t.pend[g] = s.pend[g] /\ t.ref[g] = s.ref[g] /\ t.last[g] = s.last[g]
        BY <1>6
    <2>3. t.told[g] = << >> /\ t.spends[g] = {} /\ t.claims = {}
        BY <1>6 DEF Idle
    <2>4. Tracked(s, g) => told'[s.me][g] = << >>
      <3> SUFFICES ASSUME Tracked(s, g) PROVE told'[p][g] = << >>
          BY <1>5
      <3>1. told[p][g] = << >> /\ s.told[g] = << >>
          BY <2>1, <1>5 DEF GameInv, TerminalInv
      <3>2. << >> \o << >> = << >>
          OBVIOUS
      <3> QED
          BY <3>1, <3>2, <1>12
    <2>5. \A sp \in pool'[g] : sp \in pool[g] \cup s.spends[g]
                               \/ (sp.k = "Move" => sp.coin.mover # s.me)
        BY <1>10
    <2>6. lost'[s.me] \/ (/\ claims[s.me] \cup s.claims \subseteq claims'[s.me]
                          /\ pool[g] \cup s.spends[g] \subseteq pool'[g]
                          /\ ~s.err /\ ~lost[s.me])
        BY <1>3, <1>5, <1>8, <1>10, <1>11
    <2> QED
        BY <2>1, <2>2, <2>3, <2>4, <2>5, <2>6, DeliveredGame
  <1>20. SessionInv(t)'
    <2>1. Orderly' => ClaimsGood(t.me, t.claims)'
        BY <1>6 DEF ClaimsGood, Idle
    <2> QED
        BY <2>1, <1>19 DEF SessionInv
  <1>21. \A g \in Games : ToldInv(p, g)' /\ Len(told'[p][g]) <= 1
    <2> SUFFICES ASSUME NEW g \in Games PROVE ToldInv(p, g)' /\ Len(told'[p][g]) <= 1
        OBVIOUS
    <2>1. ToldInv(p, g) /\ Len(told[p][g]) <= 1 /\ told[p][g] \in Seq(Tellings)
          /\ s.told[g] \in Seq(Tellings)
        BY <1>2, <1>4, <1>9 DEF PlayerInv
    <2>5. /\ spent[g] \subseteq spent'[g] /\ pool[g] \subseteq pool'[g] /\ (lost[p] => lost'[p])
          /\ coin[g] \in Spends => coin'[g] = coin[g]
        BY <1>8, <1>10
    <2>2. ASSUME told'[p][g] = told[p][g]
          PROVE  ToldInv(p, g)' /\ Len(told'[p][g]) <= 1
      <3>1. ASSUME NEW i \in DOMAIN told[p][g] PROVE TellingTrue(p, g, told[p][g][i])'
        <4>1. PICK x : x = told[p][g][i]
            OBVIOUS
        <4>2. TellingTrue(p, g, x)'
            BY <2>1, <2>5, <4>1, TellingStays DEF ToldInv
        <4>3. x = told'[p][g][i]
            BY <4>1, <2>2
        <4> QED
            BY <4>2, <4>3 DEF TellingTrue
      <3> QED
          BY <2>1, <2>2, <3>1 DEF ToldInv
    <2>3. CASE s.told[g] = << >>
      <3>1. told[p][g] \o << >> = told[p][g]
          BY <2>1
      <3> QED
          BY <2>2, <2>3, <3>1, <1>12
    <2>4. CASE s.told[g] # << >> /\ told'[p][g] = told[p][g] \o s.told[g]
      <3>1. told[p][g] = << >> /\ Len(s.told[g]) = 1 /\ TellingTrue(p, g, s.told[g][1])
          BY <2>4, <1>5, <1>15 DEF GameInv, TerminalInv
      <3>2. << >> \o s.told[g] = s.told[g]
          BY <2>1
      <3>3. told'[p][g] = s.told[g]
          BY <2>4, <3>1, <3>2
      <3>4. DOMAIN s.told[g] = {1}
          BY <2>1, <3>1
      <3>5. PICK x : x = s.told[g][1]
          OBVIOUS
      <3>6. TellingTrue(p, g, x)'
          BY <2>5, <3>1, <3>5, TellingStays
      <3>7. \A i \in DOMAIN told'[p][g] : told'[p][g][i] = x
          BY <3>3, <3>4, <3>5
      <3>8. ToldInv(p, g)'
          BY <3>6, <3>7 DEF ToldInv, TellingTrue
      <3>9. Len(told'[p][g]) <= 1
        <4> DEFINE n == Len(told'[p][g])
        <4>1. n = 1
            BY <3>1, <3>3
        <4> HIDE DEF n
        <4>2. n <= 1
            BY <4>1
        <4> QED
            BY <4>2 DEF n
      <3> QED
          BY <3>8, <3>9
    <2> QED
        BY <2>2, <2>3, <2>4, <1>12
  <1>22. PlayerInv(p)'
    <2>1. SessionInv(sess[p])' /\ Idle(sess[p])' /\ sess'[p].me = p
      <3>1. Idle(t)'
          BY <1>6 DEF Idle
      <3>2. t = sess'[p]
          BY <1>7
      <3> QED
          BY <3>1, <3>2, <1>6, <1>20
    <2>2. UnrollInv(p)'
        BY DEF UnrollInv
    <2>3. (Orderly => ClaimsGood(p, claims[p]))'
        BY <1>3, <1>4, <1>5, <1>11 DEF ClaimsGood, SessionInv, PlayerInv, Orderly, SoleGame
    <2>4. (Orderly /\ phase[p] = "OnChain" => sess[p].queue = << >>)'
        BY <1>3, <1>6, <1>7 DEF Orderly, SoleGame
    <2> QED
        BY <2>1, <2>2, <2>3, <2>4, <1>21 DEF PlayerInv
  <1>23. \A q \in Party : PlayerInv(q)'
      BY <1>18, <1>22
  <1> QED
      BY <1>13, <1>14, <1>16, <1>17, <1>23 DEF GamesInv

\* What the player does on its turn.
LEMMA ActKeeps ==
    ASSUME GamesInv, NEW p \in Party, NEW g \in Games, MayAct(p, g),
           NEW a \in Actions, a.g = g, a.k = "Garble" => p \in Faulty
    PROVE  Answers(sess[p], DoOnChainAction(sess[p], a))
  <1>1. PICK s : s = sess[p]
      OBVIOUS
  <1>2. s \in Sessions /\ PlayerInv(p)
      BY <1>1 DEF GamesInv, TypeOK
  <1>3. /\ s.me = p /\ SessionInv(s) /\ GameInv(s, g)
        /\ Orderly /\ phase[p] = "OnChain" => s.queue = << >>
      BY <1>1, <1>2 DEF PlayerInv, SessionInv
  <1> DEFINE e == s.map[g]
  <1>4. /\ phase[p] = "OnChain" /\ Tracked(s, g) /\ e.our_turn /\ ~e.armed
        /\ ~HasPending(s, g, e.coin)
      BY <1>1 DEF MayAct
  <1>5. s.pend[g] = Absent
      BY <1>3, <1>4 DEF HasPending, GameInv, PendingInv
  <1>6. Proper(s, a)
      BY <1>4, <1>5 DEF Proper
  <1> DEFINE t == DoOnChainAction(s, a)
  <1>7. Carries(s, t) /\ t.queue = s.queue
      BY <1>2, <1>3, <1>6, ActionKeeps
  <1> HIDE DEF t
  <1>8. Answers(s, t)
      BY <1>3, <1>4, <1>7 DEF Answers
  <1> QED
      BY <1>1, <1>8 DEF t

\* A session that is on chain answers for itself.
LEMMA IdleAnswers ==
    ASSUME GamesInv, NEW p \in Party, phase[p] = "OnChain"
    PROVE  Answers(sess[p], sess[p])
  <1>1. PlayerInv(p) /\ sess[p] \in Sessions
      BY DEF GamesInv, TypeOK
  <1> QED
      BY <1>1 DEF PlayerInv, Answers, Carries

\* A session that tracks a coin is on chain.
LEMMA TracksOnChain ==
    ASSUME GamesInv, NEW p \in Party, NEW g \in Games, Tracked(sess[p], g)
    PROVE  /\ phase[p] = "OnChain"
           /\ sess[p] \in Sessions /\ sess[p].me = p /\ SessionInv(sess[p])
           /\ Idle(sess[p]) /\ (Orderly => sess[p].queue = << >>)
  <1>1. PlayerInv(p) /\ sess[p] \in Sessions /\ phase[p] \in {"Unroll", "OnChain"}
      BY DEF GamesInv, TypeOK
  <1>2. phase[p] # "Unroll"
      BY <1>1 DEF PlayerInv, UnrollInv, Waiting, Tracked
  <1> QED
      BY <1>1, <1>2 DEF PlayerInv

LEMMA TransitionStep ==
    ASSUME GamesInv, NEW p \in Party, Transition(p)
    PROVE  GamesInv'
  <1>1. PICK b : b = sess[p]
      OBVIOUS
  <1>2. b \in Sessions /\ PlayerInv(p) /\ StartInv
      BY <1>1 DEF GamesInv, TypeOK
  <1>3. b.me = p /\ SessionInv(b) /\ Idle(b) /\ Waiting(b) /\ Parks(b)
      BY <1>1, <1>2 DEF PlayerInv, UnrollInv, Transition
  <1> DEFINE starts == [g \in Games |-> start[g][p]]
  <1>4. PICK s : s = FinishOnChainTransition(b, starts)
      OBVIOUS
  <1>5. Answers(b, s)
      BY <1>2, <1>3, <1>4, FinishKeeps
  <1>6. Deliver(p, s)
      BY <1>1, <1>4 DEF Transition, Deliver
  <1>7. /\ phase' \in [Party -> {"Unroll", "OnChain"}] /\ phase'[p] = "OnChain"
        /\ \A q \in Party : q # p => phase'[q] = phase[q]
      BY DEF Transition, GamesInv, TypeOK
  <1>8. /\ start' = start /\ coin' = coin /\ mature' = mature /\ spent' = spent
        /\ asked' \in [Party -> [Games -> BOOLEAN]]
      BY DEF Transition, chain, GamesInv, TypeOK
  <1> QED
      BY <1>1, <1>5, <1>6, <1>7, <1>8, DeliverKeeps

\* A call that changes neither the phase nor the chain.
LEMMA CallStep ==
    ASSUME GamesInv, NEW p \in Party, NEW s, Answers(sess[p], s), Deliver(p, s),
           phase[p] = "OnChain", asked' \in [Party -> [Games -> BOOLEAN]],
           UNCHANGED <<start, phase, chain>>
    PROVE  GamesInv'
  <1>1. /\ start' = start /\ coin' = coin /\ mature' = mature /\ spent' = spent
        /\ phase' = phase
      BY DEF chain
  <1>2. phase \in [Party -> {"Unroll", "OnChain"}]
      BY DEF GamesInv, TypeOK
  <1>3. /\ phase' \in [Party -> {"Unroll", "OnChain"}] /\ phase'[p] = "OnChain"
        /\ \A q \in Party : q # p => phase'[q] = phase[q]
      BY <1>1, <1>2
  <1> QED
      BY <1>1, <1>3, DeliverKeeps

\* What may be chosen on one's turn.
LEMMA ChoiceActs ==
    ASSUME NEW g \in Games, NEW pos, NEW a \in Choices(g, pos)
    PROVE  /\ a \in Acts({"Move"}) /\ a \in Actions /\ a.g = g
           /\ a.k # "Garble" /\ a.k # "AcceptSettlement"
  <1>1. CASE a = [k |-> "Rejected", g |-> g]
      BY <1>1 DEF Acts, Actions
  <1>2. CASE a # [k |-> "Rejected", g |-> g]
    <2>1. PICK mv \in GameMoves(pos) : a = [k |-> "Move", g |-> g, mv |-> mv]
        BY <1>2 DEF Choices
    <2>2. mv \in [share : 0..Amount, over : BOOLEAN]
        BY DEF GameMoves
    <2> QED
        BY <2>1, <2>2 DEF Acts, Actions
  <1> QED
      BY <1>1, <1>2

LEMMA ActStep ==
    ASSUME GamesInv, NEW p \in Party, NEW g \in Games,
           MakeMove(p, g) \/ CheatGame(p, g) \/ AcceptSettlement(p, g)
    PROVE  GamesInv'
  <1>1. \E a \in Actions :
            /\ a.g = g /\ (a.k = "Garble" => p \in Faulty)
            /\ Answer(p, DoOnChainAction(sess[p], a))
    <2>1. CASE MakeMove(p, g)
      <3>1. PICK a \in Choices(g, sess[p].map[g].coin) :
                Answer(p, DoOnChainAction(sess[p], a))
          BY <2>1 DEF MakeMove
      <3>2. a \in Actions /\ a.g = g /\ a.k # "Garble"
          BY ChoiceActs
      <3>3. Answer(p, DoOnChainAction(sess[p], a))
          BY <3>1
      <3> QED
          BY <3>2, <3>3
    <2>2. CASE CheatGame(p, g)
      <3>1. PICK share \in 0..Amount, k \in {"Cheat", "Garble"} :
                Answer(p, DoOnChainAction(sess[p], [k |-> k, g |-> g,
                               mv |-> [share |-> share, over |-> FALSE]]))
          BY <2>2 DEF CheatGame
      <3> DEFINE a == [k |-> k, g |-> g, mv |-> [share |-> share, over |-> FALSE]]
      <3>2. a \in Actions /\ a.g = g
          BY DEF Actions, Acts
      <3> HIDE DEF a
      <3>3. Answer(p, DoOnChainAction(sess[p], a)) /\ p \in Faulty
          BY <3>1, <2>2 DEF CheatGame, a
      <3> QED
          BY <3>2, <3>3
    <2>3. CASE AcceptSettlement(p, g)
      <3> DEFINE a == [k |-> "AcceptSettlement", g |-> g]
      <3>1. a \in Actions /\ a.g = g /\ a.k = "AcceptSettlement"
          BY DEF Actions, Acts
      <3> HIDE DEF a
      <3>2. Answer(p, DoOnChainAction(sess[p], a))
          BY <2>3 DEF AcceptSettlement, a
      <3> QED
          BY <3>1, <3>2
    <2> QED
        BY <2>1, <2>2, <2>3
  <1>2. PICK a \in Actions :
            /\ a.g = g /\ (a.k = "Garble" => p \in Faulty)
            /\ Answer(p, DoOnChainAction(sess[p], a))
      BY <1>1
  <1>3. MayAct(p, g) /\ UNCHANGED <<start, phase, asked, chain>>
      BY DEF MakeMove, CheatGame, AcceptSettlement
  <1>4. PICK r : r = DoOnChainAction(sess[p], a)
      OBVIOUS
  <1>5. Answers(sess[p], r)
      BY <1>2, <1>3, <1>4, ActKeeps
  <1>6. phase[p] = "OnChain" /\ asked' \in [Party -> [Games -> BOOLEAN]]
      BY <1>3 DEF MayAct, GamesInv, TypeOK
  <1>7. PICK s : s = IF r.err THEN sess[p] ELSE r
      OBVIOUS
  <1>8. Answers(sess[p], s)
      BY <1>5, <1>6, <1>7, IdleAnswers
  <1>9. Deliver(p, s)
      BY <1>2, <1>4, <1>7 DEF Answer
  <1>10. UNCHANGED <<start, phase, chain>>
      BY <1>3
  <1> QED
      BY <1>6, <1>8, <1>9, <1>10, CallStep

LEMMA SpentStep ==
    ASSUME GamesInv, NEW p \in Party, NEW g \in Games,
           CoinPuzzleAndSolution(p, g) \/ CoinUnanswered(p, g)
    PROVE  GamesInv'
  <1>1. /\ asked' = [asked EXCEPT ![p][g] = FALSE] /\ UNCHANGED <<start, phase, chain>>
        /\ Tracked(sess[p], g)
      BY DEF CoinPuzzleAndSolution, CoinUnanswered, Tracks
  <1>2. PICK b : b = sess[p]
      OBVIOUS
  <1>3. phase[p] = "OnChain" /\ b \in Sessions /\ b.me = p /\ SessionInv(b)
        /\ (Orderly => b.queue = << >>) /\ Tracked(b, g) /\ Idle(b)
      BY <1>1, <1>2, TracksOnChain
  <1>4. asked' \in [Party -> [Games -> BOOLEAN]]
      BY <1>1 DEF GamesInv, TypeOK
  <1>5. \E s : Answers(sess[p], s) /\ Deliver(p, s)
    <2>1. CASE CoinPuzzleAndSolution(p, g)
      <3>1. PICK sp \in spent[g] : Tracks(b, g, sp.coin)
                                   /\ Deliver(p, HandleGameCoinSpent(b, g, sp))
          BY <2>1, <1>2 DEF CoinPuzzleAndSolution
      <3>2. PICK s : s = HandleGameCoinSpent(b, g, sp)
          OBVIOUS
      <3>3. TypeOK /\ ChainInv /\ PoolInv
          BY DEF GamesInv
      <3>6. ~b.err /\ b.spends[g] = {}
          BY <1>3 DEF Idle
      <3>4. Answers(b, s)
          BY <3>1, <3>2, <3>3, <3>6, <1>3, SpentKeeps
      <3>5. Deliver(p, s)
          BY <3>1, <3>2 DEF Deliver
      <3> QED
          BY <3>4, <3>5, <1>2
    <2>2. CASE CoinUnanswered(p, g)
      <3>1. p \in Misled /\ Deliver(p, CoinSpentUnknown(b, g))
          BY <2>2, <1>2 DEF CoinUnanswered
      <3>2. PICK s : s = CoinSpentUnknown(b, g)
          OBVIOUS
      <3>3. Answers(b, s)
          BY <3>1, <3>2, <1>3, UnknownKeeps
      <3>4. Deliver(p, s)
          BY <3>1, <3>2 DEF Deliver
      <3> QED
          BY <3>3, <3>4, <1>2
    <2> QED
        BY <2>1, <2>2
  <1>6. PICK s : Answers(sess[p], s) /\ Deliver(p, s)
      BY <1>5
  <1> QED
      BY <1>1, <1>3, <1>4, <1>6, CallStep

\* A step that only time takes.
LEMMA QuietStep ==
    ASSUME GamesInv, mature' \in [Games -> BOOLEAN],
           UNCHANGED <<start, phase, sess, asked, coin, spent, pool, watched, claims,
                       told, lost>>
    PROVE  GamesInv'
  <1>1. \A p \in Party : PlayerInv(p)'
    <2> SUFFICES ASSUME NEW p \in Party PROVE PlayerInv(p)'
        OBVIOUS
    <2> QED
        BY Undisturbed
  <1>2. TypeOK'
      BY DEF GamesInv, TypeOK
  <1>3. StartInv'
      BY DEF GamesInv, StartInv, StartPositions
  <1>4. PoolInv' /\ ChainInv'
      BY DEF GamesInv, PoolInv, ChainInv, Submitted, PayOut
  <1> QED
      BY <1>1, <1>2, <1>3, <1>4 DEF GamesInv

\* The chain confirms a spend: it is one that was submitted, or a timeout.
LEMMA ConfirmKeeps ==
    ASSUME GamesInv, NEW g \in Games, NEW sp \in Spends, Confirm(g, sp),
           sp \in pool[g] \/ sp = TimeoutSpend(sp.coin)
    PROVE  GamesInv'
  <1> DEFINE c == IF sp.k = "Move" THEN sp.to ELSE sp
  <1>1. /\ coin[g] \in Positions /\ PuzzleAccepts(sp, mature[g])
        /\ coin' = [coin EXCEPT ![g] = c] /\ mature' = [mature EXCEPT ![g] = FALSE]
        /\ spent' = [spent EXCEPT ![g] = @ \cup {sp}]
        /\ UNCHANGED <<start, phase, sess, asked, pool, watched, claims, told, lost>>
      BY DEF Confirm, Unspent
  <1>2. c \in Positions \cup Spends /\ (sp.k # "Move" => c = sp)
      BY SpendFields
  <1> HIDE DEF c
  <1>3. TypeOK /\ StartInv /\ PoolInv /\ ChainInv
      BY DEF GamesInv
  <1>4. /\ coin'[g] = c /\ spent'[g] = spent[g] \cup {sp}
        /\ \A h \in Games : h # g => coin'[h] = coin[h] /\ spent'[h] = spent[h]
      BY <1>1, <1>3 DEF TypeOK
  <1>5. TypeOK'
    <2>1. coin' \in [Games -> Positions \cup Spends \cup {Absent}]
        BY <1>1, <1>2, <1>3 DEF TypeOK
    <2>2. mature' \in [Games -> BOOLEAN]
        BY <1>1, <1>3 DEF TypeOK
    <2>3. spent' \in [Games -> SUBSET Spends]
        BY <1>1, <1>3 DEF TypeOK
    <2> QED
        BY <2>1, <2>2, <2>3, <1>1, <1>3 DEF TypeOK
  <1>6. coin[g] \notin Spends
      BY <1>1, CoinsApart
  <1>7. \A p \in Party : PlayerInv(p)'
    <2> SUFFICES ASSUME NEW p \in Party PROVE PlayerInv(p)'
        OBVIOUS
    <2>1. \A h \in Games : coin[h] \in Spends => coin'[h] = coin[h]
        BY <1>4, <1>6
    <2>2. \A h \in Games : spent[h] \subseteq spent'[h] /\ pool[h] \subseteq pool'[h]
        BY <1>1, <1>4
    <2> QED
        BY <2>1, <2>2, <1>1, Undisturbed
  <1>8. StartInv'
      BY <1>1, <1>3 DEF StartInv, StartPositions
  <1>9. PoolInv'
      BY <1>1, <1>3 DEF PoolInv, Submitted
  <1>10. sp.k = "Move" => sp \in pool[g] /\ ~sp.coin.over
    <2>1. TimeoutSpend(sp.coin).k = "Timeout"
        BY DEF TimeoutSpend
    <2> QED
        BY <2>1, <1>1 DEF PuzzleAccepts
  <1>11. sp.k # "Move" => PayOut(sp)
    <2>1. sp \in pool[g] /\ sp.k # "Move" => sp = SlashSpend(sp.coin)
        BY <1>3 DEF PoolInv, Submitted
    <2>2. SlashSpend(sp.coin).k = "Slash"
        BY DEF SlashSpend
    <2>3. sp.k = "Slash" => ~sp.coin.legal
        BY <1>1 DEF PuzzleAccepts
    <2> QED
        BY <2>1, <2>2, <2>3 DEF PayOut
  <1>12. ChainInv'
    <2> SUFFICES ASSUME NEW h \in Games, NEW x \in spent'[h]
                 PROVE  IF x.k = "Move" THEN x \in pool[h] /\ ~x.coin.over
                        ELSE x = coin'[h] /\ PayOut(x)
        BY <1>1 DEF ChainInv, PayOut
    <2>1. CASE x \in spent[h]
      <3>1. h = g => x.k = "Move"
        <4>1. spent[h] \subseteq Spends
            BY <1>3 DEF TypeOK
        <4> QED
            BY <4>1, <2>1, <1>3, <1>6 DEF ChainInv
      <3> QED
          BY <2>1, <3>1, <1>3, <1>4 DEF ChainInv
    <2>2. CASE h = g /\ x = sp
        BY <2>2, <1>2, <1>4, <1>10, <1>11
    <2> QED
        BY <2>1, <2>2, <1>4
  <1> QED
      BY <1>5, <1>7, <1>8, <1>9, <1>12 DEF GamesInv

LEMMA ChainStep ==
    ASSUME GamesInv, NEW g \in Games,
           Mature(g) \/ ConfirmSpend(g) \/ (\E p \in Party : ConfirmClaim(p, g))
    PROVE  GamesInv'
  <1>1. TypeOK
      BY DEF GamesInv
  <1>2. CASE Mature(g)
    <2>1. mature' \in [Games -> BOOLEAN]
        BY <1>1, <1>2 DEF Mature, TypeOK
    <2>2. UNCHANGED <<start, phase, sess, asked, coin, spent, pool, watched, claims,
                      told, lost>>
        BY <1>2 DEF Mature
    <2> QED
        BY <2>1, <2>2, QuietStep
  <1>3. CASE ConfirmSpend(g)
    <2>1. PICK sp \in pool[g] : Confirm(g, sp)
        BY <1>3 DEF ConfirmSpend
    <2>2. sp \in Spends
        BY <1>1 DEF TypeOK
    <2> QED
        BY <2>1, <2>2, ConfirmKeeps
  <1>4. CASE \E p \in Party : ConfirmClaim(p, g)
    <2>1. PICK p \in Party : ConfirmClaim(p, g)
        BY <1>4
    <2>2. PICK c \in claims[p] : Confirm(g, TimeoutSpend(c.coin))
        BY <2>1 DEF ConfirmClaim
    <2>3. c.coin \in Positions
        BY <1>1 DEF TypeOK, Claims
    <2>4. PICK sp : sp = TimeoutSpend(c.coin)
        OBVIOUS
    <2>5. sp \in Spends /\ sp = TimeoutSpend(sp.coin)
        BY <2>3, <2>4, TimeoutPays
    <2>6. Confirm(g, sp)
        BY <2>2, <2>4 DEF Confirm
    <2> QED
        BY <2>5, <2>6, ConfirmKeeps
  <1> QED
      BY <1>2, <1>3, <1>4

LEMMA AskStep ==
    ASSUME GamesInv, NEW p \in Party,
           NewBlock(p) \/ \E g \in Games : CoinForgotten(p, g)
    PROVE  GamesInv'
  <1>1. asked \in [Party -> [Games -> BOOLEAN]]
      BY DEF GamesInv, TypeOK
  <1>2. CASE NewBlock(p)
    <2>1. PICK gs : asked' = [asked EXCEPT ![p] = [g \in Games |-> g \in gs \/ @[g]]]
        BY <1>2 DEF NewBlock
    <2>2. asked' \in [Party -> [Games -> BOOLEAN]]
        BY <1>1, <2>1
    <2>3. /\ phase[p] = "OnChain" /\ Deliver(p, sess[p])
          /\ UNCHANGED <<start, phase, chain>>
        BY <1>2 DEF NewBlock
    <2>4. Answers(sess[p], sess[p])
        BY <2>3, IdleAnswers
    <2>5. PICK s : s = sess[p]
        OBVIOUS
    <2>6. Answers(sess[p], s) /\ Deliver(p, s)
        BY <2>3, <2>4, <2>5
    <2> QED
        BY <2>2, <2>3, <2>6, CallStep
  <1>3. CASE \E g \in Games : CoinForgotten(p, g)
    <2>1. PICK g \in Games : CoinForgotten(p, g)
        BY <1>3
    <2>2. asked' \in [Party -> [Games -> BOOLEAN]]
        BY <1>1, <2>1 DEF CoinForgotten
    <2>3. /\ phase[p] = "OnChain" /\ Deliver(p, sess[p])
          /\ UNCHANGED <<start, phase, chain>>
        BY <2>1 DEF CoinForgotten
    <2>4. Answers(sess[p], sess[p])
        BY <2>3, IdleAnswers
    <2>5. PICK s : s = sess[p]
        OBVIOUS
    <2>6. Answers(sess[p], s) /\ Deliver(p, s)
        BY <2>3, <2>4, <2>5
    <2> QED
        BY <2>2, <2>3, <2>6, CallStep
  <1> QED
      BY <1>2, <1>3

\* A player parks an action for when it gets to the chain.
LEMMA ParkStep ==
    ASSUME GamesInv, NEW p \in Party, Park(p)
    PROVE  GamesInv'
  <1>1. /\ phase[p] = "Unroll" /\ Len(sess[p].queue) < MaxPark
        /\ UNCHANGED <<start, phase, asked, coin, mature, spent, pool, watched, claims,
                       told, lost>>
      BY DEF Park, chain
  <1>2. PICK b : b = sess[p]
      OBVIOUS
  <1>3. b \in Sessions /\ PlayerInv(p) /\ sess \in [Party -> Sessions] /\ StartInv
      BY <1>2 DEF GamesInv, TypeOK
  <1>4. /\ b.me = p /\ Idle(b) /\ SessionInv(b) /\ Waiting(b) /\ Parks(b) /\ ~lost[p]
        /\ \A g \in Games : ToldInv(p, g) /\ Len(told[p][g]) <= 1
        /\ Orderly => ClaimsGood(p, claims[p])
      BY <1>1, <1>2, <1>3 DEF PlayerInv, UnrollInv
  <1> DEFINE May(g) == {[k |-> "AcceptSettlement", g |-> g]} \cup
                       (IF start[g][p].ref.spend.over THEN {}
                        ELSE Choices(g, start[g][p].ref.spend))
  <1>5. PICK g \in Games :
            /\ start[g][p].how \in {"Latest", "Missing"} /\ start[g][p].ref.mine
            /\ \A i \in DOMAIN b.queue : b.queue[i].g # g
            /\ \E a \in May(g) : sess' = [sess EXCEPT ![p].queue = Append(@, a)]
      BY <1>2 DEF Park
  <1>6. PICK a \in May(g) : sess' = [sess EXCEPT ![p].queue = Append(@, a)]
      BY <1>5
  <1>7. /\ a \in Acts({"Move"}) /\ a.g = g
        /\ a.k # "AcceptSettlement" => ~start[g][p].ref.spend.over
    <2>1. CASE a = [k |-> "AcceptSettlement", g |-> g]
        BY <2>1 DEF Acts
    <2>2. CASE a # [k |-> "AcceptSettlement", g |-> g]
      <3>1. ~start[g][p].ref.spend.over /\ a \in Choices(g, start[g][p].ref.spend)
          BY <1>6, <2>2
      <3> QED
          BY <3>1, ChoiceActs
    <2> QED
        BY <2>1, <2>2
  <1>8. b.queue \in Seq(Acts({"Move"}))
      BY <1>3, SessionFields
  <1> DEFINE q == Append(b.queue, a)
  <1>9. /\ q \in Seq(Acts({"Move"})) /\ Len(q) = Len(b.queue) + 1
        /\ \A i \in DOMAIN q : q[i] = a \/ (i \in DOMAIN b.queue /\ q[i] = b.queue[i])
      BY <1>7, <1>8
  <1> DEFINE t == [b EXCEPT !.queue = q]
  <1>10. sess' = [sess EXCEPT ![p] = t]
      BY <1>2, <1>3, <1>6
  <1> HIDE DEF q
  <1>11. /\ t \in Sessions /\ t.me = b.me /\ t.map = b.map /\ t.ref = b.ref /\ t.last = b.last
         /\ t.pend = b.pend /\ t.told = b.told /\ t.spends = b.spends /\ t.claims = b.claims
         /\ t.watch = b.watch /\ t.err = b.err /\ t.queue = q
      BY <1>3, <1>9 DEF Sessions
  <1> HIDE DEF t
  <1>12. sess' \in [Party -> Sessions] /\ sess'[p] = t
         /\ \A o \in Party : o # p => sess'[o] = sess[o]
      BY <1>3, <1>10, <1>11
  <1>13. TypeOK' /\ StartInv' /\ PoolInv' /\ ChainInv'
    <2>1. TypeOK'
        BY <1>1, <1>12 DEF GamesInv, TypeOK
    <2>2. StartInv'
        BY <1>1 DEF GamesInv, StartInv, StartPositions
    <2>3. PoolInv' /\ ChainInv'
        BY <1>1 DEF GamesInv, PoolInv, ChainInv, Submitted, PayOut
    <2> QED
        BY <2>1, <2>2, <2>3
  <1>14. \A o \in Party : o # p => PlayerInv(o)'
    <2> SUFFICES ASSUME NEW o \in Party, o # p PROVE PlayerInv(o)'
        OBVIOUS
    <2>1. sess'[o] = sess[o]
        BY <1>12
    <2> QED
        BY <2>1, <1>1, Undisturbed
  <1>15. Idle(t) /\ t.me = p
      BY <1>4, <1>11 DEF Idle
  <1>16. \A h \in Games : GameInv(t, h)'
    <2> SUFFICES ASSUME NEW h \in Games PROVE GameInv(t, h)'
        OBVIOUS
    <2>1. GameInv(b, h)
        BY <1>4 DEF SessionInv
    <2>2. t.told[h] = << >> /\ t.spends[h] = {} /\ t.claims = {}
        BY <1>15 DEF Idle
    <2>3. t.me = b.me /\ t.map[h] = b.map[h] /\ t.pend[h] = b.pend[h] /\ t.ref[h] = b.ref[h]
          /\ t.last[h] = b.last[h]
        BY <1>11
    <2>4. Tracked(b, h) => told'[b.me][h] = << >>
        BY <1>1, <2>1 DEF GameInv, TerminalInv
    <2>5. /\ claims[b.me] \cup b.claims \subseteq claims'[b.me] /\ ~b.err /\ ~lost[b.me]
          /\ pool[h] \cup b.spends[h] \subseteq pool'[h]
        BY <1>1, <1>4 DEF Idle
    <2>6. \A sp \in pool'[h] : sp \in pool[h] \cup b.spends[h]
                               \/ (sp.k = "Move" => sp.coin.mover # b.me)
        BY <1>1
    <2> QED
        BY <2>1, <2>2, <2>3, <2>4, <2>5, <2>6, DeliveredGame
  <1>17. SessionInv(t)'
      BY <1>15, <1>16 DEF SessionInv, ClaimsGood, Idle
  <1>18. Waiting(t)'
      BY <1>1, <1>4, <1>11 DEF Waiting
  <1>19. Parks(t)'
    <2>1. \A i \in DOMAIN q :
              /\ start[q[i].g][p].how \in {"Latest", "Missing"} /\ start[q[i].g][p].ref.mine
              /\ q[i].k # "AcceptSettlement" => ~start[q[i].g][p].ref.spend.over
        BY <1>4, <1>5, <1>7, <1>9 DEF Parks
    <2>2. Orderly => Len(q) <= 1
      <3> DEFINE n == Len(b.queue)
      <3> DEFINE m == Len(q)
      <3>1. n \in Nat /\ m = n + 1 /\ n < MaxPark /\ MaxPark \in Nat
          BY <1>1, <1>2, <1>8, <1>9, MaxParkAssumption
      <3>2. SoleGame => n = 0
        <4> SUFFICES ASSUME SoleGame, n # 0 PROVE FALSE
            OBVIOUS
        <4>1. 1 \in DOMAIN b.queue /\ b.queue[1] \in Acts({"Move"})
            BY <1>8, <3>1
        <4>2. b.queue[1].g \in Games
            BY <4>1 DEF Acts
        <4> QED
            BY <4>1, <4>2, <1>5 DEF SoleGame
      <3> HIDE DEF n, m
      <3>3. Orderly => m <= 1
          BY <3>1, <3>2 DEF Orderly
      <3> QED
          BY <3>3 DEF m
    <2>3. t.queue = q /\ t.me = p /\ start' = start
        BY <1>1, <1>11, <1>15
    <2> QED
        BY <2>1, <2>2, <2>3 DEF Parks, Orderly, SoleGame
  <1>20. PlayerInv(p)'
    <2>1. SessionInv(sess[p])' /\ Idle(sess[p])' /\ sess'[p].me = p
      <3>1. Idle(t)' /\ t = sess'[p]
          BY <1>12, <1>15 DEF Idle
      <3> QED
          BY <3>1, <1>15, <1>17
    <2>2. UnrollInv(p)'
      <3>1. t = sess'[p]
          BY <1>12
      <3> QED
          BY <3>1, <1>1, <1>4, <1>18, <1>19 DEF UnrollInv
    <2>3. \A h \in Games : ToldInv(p, h)' /\ Len(told'[p][h]) <= 1
      <3> SUFFICES ASSUME NEW h \in Games PROVE ToldInv(p, h)' /\ Len(told'[p][h]) <= 1
          OBVIOUS
      <3>1. ASSUME NEW i \in DOMAIN told[p][h] PROVE TellingTrue(p, h, told[p][h][i])'
        <4>1. PICK x : x = told[p][h][i]
            OBVIOUS
        <4>2. TellingTrue(p, h, x)'
            BY <1>1, <1>4, <4>1, TellingStays DEF ToldInv
        <4>3. x = told'[p][h][i]
            BY <1>1, <4>1
        <4> QED
            BY <4>2, <4>3 DEF TellingTrue
      <3> QED
          BY <3>1, <1>1, <1>4 DEF ToldInv
    <2>4. (Orderly => ClaimsGood(p, claims[p]))'
        BY <1>1, <1>4 DEF ClaimsGood, Orderly, SoleGame
    <2>5. phase'[p] # "OnChain"
        BY <1>1
    <2> QED
        BY <2>1, <2>2, <2>3, <2>4, <2>5 DEF PlayerInv
  <1> QED
      BY <1>13, <1>14, <1>20 DEF GamesInv

-----------------------------------------------------------------------------
(***************************************************************************)
(* The invariant holds to begin with and at every step.                    *)
(***************************************************************************)

LEMMA InitHolds == Init => GamesInv
  <1> SUFFICES ASSUME Init PROVE GamesInv
      OBVIOUS
  <1>1. StartInv
      BY DEF Init, StartInv
  <1>2. \A p \in Party, g \in Games : Standing(p, start[g][p])
      BY <1>1, StartFacts
  <1>3. /\ phase = [p \in Party |-> "Unroll"]
        /\ sess = [p \in Party |-> Parked(p, [g \in Games |-> start[g][p]])]
        /\ asked = [p \in Party |-> [g \in Games |-> FALSE]]
        /\ coin = [g \in Games |-> start[g]["alice"].coin]
        /\ mature = [g \in Games |-> FALSE]
        /\ spent = [g \in Games |-> {}] /\ pool = [g \in Games |-> {}]
        /\ watched = [p \in Party |-> {}]
        /\ claims = [p \in Party |-> {}] /\ told = [p \in Party |-> [g \in Games |-> << >>]]
        /\ lost = [p \in Party |-> FALSE]
      BY DEF Init
  <1>4. ASSUME NEW p \in Party
        PROVE  /\ sess[p] \in Sessions /\ sess[p].me = p /\ Idle(sess[p])
               /\ sess[p].queue = << >>
               /\ \A g \in Games : /\ sess[p].map[g] = Absent /\ sess[p].pend[g] = Absent
                                   /\ sess[p].ref[g] = start[g][p].ref
                                   /\ sess[p].last[g] = start[g][p].ref.spend
    <2> DEFINE ref == [g \in Games |-> start[g][p].ref]
    <2> DEFINE last == [g \in Games |-> start[g][p].ref.spend]
    <2> DEFINE none == [g \in Games |-> Absent]
    <2> DEFINE mute == [g \in Games |-> << >>]
    <2> DEFINE void == [g \in Games |-> {}]
    <2> DEFINE nil == << >>
    <2>1. sess[p] = [me |-> p, map |-> none, ref |-> ref, last |-> last, pend |-> none,
                     queue |-> nil, told |-> mute, spends |-> void, watch |-> {},
                     claims |-> {}, err |-> FALSE, stop |-> FALSE]
        BY <1>3 DEF Parked
    <2>2. ref \in [Games -> Referees] /\ last \in [Games -> Positions]
        BY <1>2 DEF Standing, Referees
    <2>3. none \in [Games -> Entries] /\ none \in [Games -> Pendings]
          /\ \A g \in Games : none[g] = Absent
        BY DEF Entries, Pendings
    <2>4. nil \in Seq(Acts({"Move"})) /\ nil \in Seq(Tellings)
        OBVIOUS
    <2>5. mute \in [Games -> Seq(Tellings)] /\ \A g \in Games : mute[g] = << >>
        BY <2>4
    <2>6. void \in [Games -> SUBSET Spends] /\ \A g \in Games : void[g] = {}
        OBVIOUS
    <2>7. \A g \in Games : ref[g] = start[g][p].ref /\ last[g] = start[g][p].ref.spend
        OBVIOUS
    <2>8. nil = << >>
        OBVIOUS
    <2> HIDE DEF ref, last, none, mute, void, nil
    <2>9. sess[p] \in Sessions
        BY <2>1, <2>2, <2>3, <2>4, <2>5, <2>6 DEF Sessions
    <2>10. Idle(sess[p])
        BY <2>1, <2>5, <2>6 DEF Idle
    <2> QED
        BY <2>1, <2>3, <2>7, <2>8, <2>9, <2>10
  <1>5. \A p \in Party, g \in Games : told[p][g] = << >>
      BY <1>3
  <1>6. \A g \in Games : pool[g] = {} /\ spent[g] = {}
      BY <1>3
  <1>7. TypeOK
    <2>1. sess \in [Party -> Sessions]
        BY <1>3, <1>4
    <2>2. coin \in [Games -> Positions \cup Spends \cup {Absent}]
      <3>1. \A g \in Games : start[g]["alice"].coin \in Positions \cup {Absent}
          BY <1>2 DEF Standing, Party
      <3> QED
          BY <3>1, <1>3
    <2>3. told \in [Party -> [Games -> Seq(Tellings)]]
      <3> DEFINE mute == [g \in Games |-> << >>]
      <3> DEFINE nil == << >>
      <3>1. nil \in Seq(Tellings)
          OBVIOUS
      <3>2. mute \in [Games -> Seq(Tellings)]
          BY <3>1
      <3>3. told = [p \in Party |-> mute]
          BY <1>3
      <3> HIDE DEF mute
      <3> QED
          BY <3>2, <3>3
    <2>4. phase \in [Party -> {"Unroll", "OnChain"}] /\ lost \in [Party -> BOOLEAN]
        BY <1>3
    <2>5. asked \in [Party -> [Games -> BOOLEAN]] /\ mature \in [Games -> BOOLEAN]
        BY <1>3
    <2>6. spent \in [Games -> SUBSET Spends] /\ pool \in [Games -> SUBSET Spends]
          /\ claims \in [Party -> SUBSET Claims] /\ watched \in [Party -> SUBSET Watches]
        BY <1>3
    <2> QED
        BY <2>1, <2>2, <2>3, <2>4, <2>5, <2>6 DEF TypeOK
  <1>8. PoolInv /\ ChainInv
      BY <1>6 DEF PoolInv, ChainInv
  <1>9. ASSUME NEW p \in Party PROVE PlayerInv(p)
    <2>1. PICK s : s = sess[p]
        OBVIOUS
    <2>2. /\ s \in Sessions /\ s.me = p /\ Idle(s) /\ s.queue = << >>
          /\ \A g \in Games : /\ s.map[g] = Absent /\ s.pend[g] = Absent
                              /\ s.ref[g] = start[g][p].ref
                              /\ s.last[g] = start[g][p].ref.spend
        BY <2>1, <1>4
    <2>3. ASSUME NEW g \in Games PROVE GameInv(s, g)
      <3>1. ~Tracked(s, g)
          BY <2>2 DEF Tracked
      <3>2. TerminalInv(s, g) /\ SpendsInv(s, g)
          BY <3>1, <2>2 DEF TerminalInv, SpendsInv, Idle
      <3>3. PendingInv(s, g)
          BY <2>2 DEF PendingInv
      <3>4. RefereeInv(s, g)
          BY <3>1, <2>2 DEF RefereeInv
      <3> QED
          BY <3>1, <3>2, <3>3, <3>4
             DEF GameInv, TurnInv, MovesInv, ArmedInv, ClaimInv, FinishedInv
    <2>4. SessionInv(s)
        BY <2>2, <2>3 DEF SessionInv, ClaimsGood, Idle
    <2>5. \A g \in Games : ToldInv(p, g) /\ Len(told[p][g]) <= 1
      <3> SUFFICES ASSUME NEW g \in Games PROVE ToldInv(p, g) /\ Len(told[p][g]) <= 1
          OBVIOUS
      <3>1. DOMAIN << >> = {} /\ Len(<< >>) = 0
          OBVIOUS
      <3>2. told[p][g] = << >>
          BY <1>5
      <3>3. ToldInv(p, g)
          BY <3>1, <3>2 DEF ToldInv
      <3> QED
          BY <3>1, <3>2, <3>3
    <2>6. ~lost[p] /\ claims[p] = {} /\ phase[p] = "Unroll"
        BY <1>3
    <2>7. Waiting(s)
        BY <2>2, <1>5, <1>6 DEF Waiting
    <2>8. Parks(s)
      <3>1. DOMAIN << >> = {} /\ Len(<< >>) = 0
          OBVIOUS
      <3> QED
          BY <3>1, <2>2 DEF Parks
    <2> QED
        BY <2>1, <2>2, <2>4, <2>5, <2>6, <2>7, <2>8 DEF PlayerInv, UnrollInv, ClaimsGood
  <1> QED
      BY <1>1, <1>7, <1>8, <1>9 DEF GamesInv

LEMMA StepKeeps == GamesInv /\ [Next]_vars => GamesInv'
  <1> SUFFICES ASSUME GamesInv, [Next]_vars PROVE GamesInv'
      OBVIOUS
  <1>1. CASE UNCHANGED vars
    <2>1. mature' \in [Games -> BOOLEAN]
        BY <1>1 DEF vars, GamesInv, TypeOK
    <2>2. UNCHANGED <<start, phase, sess, asked, coin, spent, pool, watched, claims,
                      told, lost>>
        BY <1>1 DEF vars
    <2> QED
        BY <2>1, <2>2, QuietStep
  <1>2. CASE \E p \in Party : Park(p) \/ Transition(p)
      BY <1>2, ParkStep, TransitionStep
  <1>3. CASE \E p \in Party, g \in Games :
                MakeMove(p, g) \/ CheatGame(p, g) \/ AcceptSettlement(p, g)
      BY <1>3, ActStep
  <1>4. CASE \E p \in Party, g \in Games :
                CoinPuzzleAndSolution(p, g) \/ CoinUnanswered(p, g)
      BY <1>4, SpentStep
  <1>5. CASE \E p \in Party : NewBlock(p) \/ \E g \in Games : CoinForgotten(p, g)
      BY <1>5, AskStep
  <1>6. CASE \E g \in Games :
                Mature(g) \/ ConfirmSpend(g) \/ (\E p \in Party : ConfirmClaim(p, g))
      BY <1>6, ChainStep
  <1> QED
      BY <1>1, <1>2, <1>3, <1>4, <1>5, <1>6 DEF Next

\* The inductive invariant of the games on chain: every session, between calls,
\* is where its coin is, one move of its own ahead of it, or done with it, and
\* the chain has confirmed only what was submitted or what time allows.
THEOREM GamesInvariant == Spec => []GamesInv
  <1> QED
      BY InitHolds, StepKeeps, PTL DEF Spec

-----------------------------------------------------------------------------
(***************************************************************************)
(* What it is for.                                                         *)
(***************************************************************************)

\* A game ends at most once for each player (UX_NOTIFICATIONS.md, Rule B),
\* however accepts, forfeits, late moves and slashes race.
THEOREM EndsOnce == Spec => []OneTerminal
  <1>1. GamesInv => OneTerminal
      BY DEF GamesInv, PlayerInv, OneTerminal
  <1> QED
      BY <1>1, GamesInvariant, PTL

\* The share a player is told is what the chain paid it.
THEOREM ReportsTrue == Spec => []ReportedIsPaid
  <1>1. GamesInv => ReportedIsPaid
      BY DEF GamesInv, PlayerInv, ToldInv, TellingTrue, ReportedIsPaid, Paid
  <1> QED
      BY <1>1, GamesInvariant, PTL

\* Both players have complementary our_turn values for a coin (ON_CHAIN.md).
THEOREM TurnsAgree == Spec => []TurnsComplementary
  <1>1. GamesInv => TurnsComplementary
    <2> SUFFICES ASSUME GamesInv, NEW g \in Games, NEW p \in Party, NEW q \in Party, p # q,
                        Tracked(sess[p], g), Tracked(sess[q], g),
                        sess[p].map[g].coin = sess[q].map[g].coin,
                        ~sess[p].map[g].slash, ~sess[q].map[g].slash
                 PROVE  sess[p].map[g].our_turn # sess[q].map[g].our_turn
        BY DEF TurnsComplementary
    <2> DEFINE c == sess[p].map[g].coin
    <2>1. \A o \in Party : sess[o].me = o /\ TurnInv(sess[o], g)
        BY DEF GamesInv, PlayerInv, SessionInv, GameInv
    <2>2. sess[p].map[g].our_turn = (c.mover = p) /\ sess[q].map[g].our_turn = (c.mover = q)
        BY <2>1 DEF TurnInv
    <2>3. c.mover \in Party
      <3>1. sess[p].map[g] \in Entries /\ sess[p].map[g] # Absent
          BY DEF GamesInv, TypeOK, Sessions, Tracked
      <3>2. c \in Positions
          BY <3>1 DEF Entries
      <3> QED
          BY <3>2, PositionFields
    <2>4. (c.mover = p) # (c.mover = q)
        BY <2>3, OtherParty
    <2> QED
        BY <2>2, <2>4
  <1> QED
      BY <1>1, GamesInvariant, PTL

\* A player whose node answers sees a game with a coin end in an error only
\* when a faulty opponent made a move on chain that its referee raises on.
THEOREM NoErrors == Spec => []NoEndedError
  <1>1. GamesInv => NoEndedError
      BY DEF GamesInv, PlayerInv, ToldInv, TellingTrue, NoEndedError, Honest
  <1> QED
      BY <1>1, GamesInvariant, PTL

\* With nothing stale in the queue the stories told of a settlement are true:
\* who was slashed, who cheated and who let the clock run out; a player told
\* that the opponent did, on its own turn, had a move that came too late.
THEOREM StoriesAreTrue ==
    ASSUME Orderly
    PROVE  Spec => []StoriesTrue
  <1>1. GamesInv => StoriesTrue
    <2> SUFFICES ASSUME GamesInv, NEW p \in Party, NEW g \in Games,
                        NEW i \in DOMAIN told[p][g], coin[g] \in Spends
                 PROVE  Story(p, g, coin[g], told[p][g][i].outcome)
        BY DEF StoriesTrue
    <2>1. TellingTrue(p, g, told[p][g][i])
        BY DEF GamesInv, PlayerInv, ToldInv
    <2>2. CASE told[p][g][i].outcome \in WithoutCoin
        BY <2>2 DEF WithoutCoin, Forfeits, Story
    <2>3. CASE told[p][g][i].outcome \notin WithoutCoin
        BY <2>1, <2>3 DEF TellingTrue
    <2> QED
        BY <2>2, <2>3
  <1> QED
      BY <1>1, GamesInvariant, PTL

\* With nothing stale in the queue a coin that would pay the player on timeout
\* has its claim with the transaction manager, and every claim held is one the
\* puzzle accepts.
THEOREM ClaimsKept ==
    ASSUME Orderly
    PROVE  Spec => [](ClaimsHeld /\ ClaimsSound)
  <1>1. GamesInv => ClaimsHeld /\ ClaimsSound
    <2> SUFFICES ASSUME GamesInv PROVE ClaimsHeld /\ ClaimsSound
        OBVIOUS
    <2>1. \A p \in Party : sess[p].me = p /\ Idle(sess[p]) /\ SessionInv(sess[p])
                           /\ ClaimsGood(p, claims[p])
        BY DEF GamesInv, PlayerInv
    <2>2. ClaimsHeld
      <3> SUFFICES ASSUME NEW p \in Party, NEW g \in Games, Tracked(sess[p], g),
                          ~sess[p].map[g].slash, ~lost[p],
                          TimeoutSpend(sess[p].map[g].coin).pay[p] > 0
                   PROVE  [g |-> g, coin |-> sess[p].map[g].coin,
                           args |-> sess[p].map[g].coin] \in claims[p]
          BY DEF ClaimsHeld
      <3>1. ClaimInv(sess[p], g) /\ sess[p].claims = {} /\ ~sess[p].err /\ sess[p].me = p
          BY <2>1 DEF SessionInv, GameInv, Idle
      <3> QED
          BY <3>1 DEF ClaimInv
    <2>3. ClaimsSound
        BY <2>1 DEF ClaimsSound, ClaimsGood
    <2> QED
        BY <2>2, <2>3
  <1> QED
      BY <1>1, GamesInvariant, PTL
=============================================================================
