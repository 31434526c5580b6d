---------------------------- MODULE UnrollProofs ----------------------------
(***************************************************************************)
(* Unroll's safety properties, for every number of states and every set of *)
(* faulty players.  IInv is inductive; each property follows from it.      *)
(***************************************************************************)
EXTENDS UnrollInvariant, TLAPS

\* Each player's peer is the other one, and the two receive states of
\* different parity.
LEMMA Parties ==
    \A p \in Party :
        /\ Other(p) \in Party
        /\ Other(p) # p
        /\ Other(Other(p)) = p
        /\ \A q \in Party : q = p \/ q = Other(p)
        /\ Parity(p) \in {0, 1}
        /\ Parity(Other(p)) = 1 - Parity(p)
    BY DEF Party, Other, Parity

\* Consecutive states have different parities.
LEMMA NextParity ==
    \A n \in Nat : /\ n % 2 \in {0, 1}
                   /\ (n + 1) % 2 = 1 - (n % 2)
    OBVIOUS

\* The handshake leaves the players in a state that satisfies the invariant.
LEMMA InitIInv == Init => IInv
<1> SUFFICES ASSUME Init PROVE IInv
    OBVIOUS
<1> USE DEF Init
<1>1. TypeOK
  <2>1. potato \in [Party -> BOOLEAN] /\ stale \in [Party -> BOOLEAN]
      BY Zenon
  <2>2. sn \in [Party -> Nat] /\ recv \in [Party -> Nat]
      OBVIOUS
  <2>3. held \in [Party -> SUBSET Nat] /\ wire \in [Party -> SUBSET Nat]
      OBVIOUS
  <2>4. published \in [Party -> SUBSET Nat] /\ preempts \in [Party -> SUBSET Nat]
      OBVIOUS
  <2>5. phase \in [Party -> Phases]
      BY DEF Phases
  <2>6. coin \in Coins /\ mature \in BOOLEAN
      BY DEF Coins, ChannelCoin
  <2> QED
      BY <2>1, <2>2, <2>3, <2>4, <2>5, <2>6, Zenon DEF TypeOK
<1>2. ParityRule
  <2>1. 0 % 2 = 0
      OBVIOUS
  <2>2. \A p \in Party : potato[p] => Parity(p) = 0
      BY Zenon DEF Parity
  <2>3. \A p \in Party : sn[p] = 0 /\ recv[p] = 0 /\ held[p] = {0} /\ wire[p] = {}
      OBVIOUS
  <2> QED
      BY <2>1, <2>2, <2>3 DEF ParityRule
<1>3. Numbers
    BY Parties DEF Numbers
<1>4. Submitted
    BY DEF Submitted
<1>5. Reactions /\ OnChain
    BY DEF Reactions, OnChain, ChannelCoin
<1>6. HonestNeverStale
    BY DEF HonestNeverStale
<1> QED
    BY <1>1, <1>2, <1>3, <1>4, <1>5, <1>6 DEF IInv

\* update_cached_unroll_state preserves the invariant: the potato says that
\* the state before it is the one received, so the new one has the peer's
\* parity.
LEMMA SendIInv == ASSUME NEW p \in Party, IInv, Send(p) PROVE IInv'
<1> USE DEF IInv, Send
<1>1. TypeOK'
    BY Parties DEF TypeOK
<1>2. ParityRule'
  <2>1. sn[p] \in Nat /\ sn[p] % 2 = Parity(p)
      BY DEF TypeOK, ParityRule
  <2>2. (sn[p] + 1) % 2 = Parity(Other(p))
      BY <2>1, Parties, NextParity
  <2>3. /\ ~potato'[p] /\ recv' = recv /\ held' = held
        /\ wire'[Other(p)] = wire[Other(p)] \cup {sn[p] + 1}
        /\ wire'[p] = wire[p]
        /\ \A q \in Party : q # p => potato'[q] = potato[q] /\ sn'[q] = sn[q]
      BY Parties DEF TypeOK
  <2> QED
      BY <2>2, <2>3, Parties DEF ParityRule
<1>3. Numbers'
    BY Parties DEF TypeOK, Numbers, ParityRule
<1>4. Submitted' /\ Reactions' /\ OnChain' /\ HonestNeverStale'
    BY DEF Submitted, Reactions, OnChain, HonestNeverStale
<1> QED
    BY <1>1, <1>2, <1>3, <1>4

\* received_potato_verify_signatures preserves the invariant: only a player
\* who is still off chain, and so has submitted nothing, gets a newer state.
LEMMA ReceiveIInv == ASSUME NEW p \in Party, IInv, Receive(p) PROVE IInv'
<1> USE DEF IInv
<1>1. PICK n \in wire[p] :
          /\ phase[p] = "OffChain"
          /\ n = sn[p] + 1
          /\ sn' = [sn EXCEPT ![p] = n]
          /\ recv' = [recv EXCEPT ![p] = n]
          /\ held' = [held EXCEPT ![p] = @ \cup {n}]
          /\ potato' = [potato EXCEPT ![p] = TRUE]
          /\ wire' = [wire EXCEPT ![p] = @ \ {n}]
          /\ UNCHANGED <<phase, published, preempts, stale, coin, mature>>
    BY DEF Receive
<1>2. n \in Nat /\ n % 2 = Parity(p)
    BY <1>1 DEF TypeOK, ParityRule
<1>3. TypeOK'
    BY <1>1, <1>2 DEF TypeOK
<1>4. ParityRule'
    BY <1>1, <1>2 DEF TypeOK, ParityRule
<1>5. Numbers'
    BY <1>1, <1>2, Parties DEF TypeOK, Numbers
<1>6. Submitted'
    BY <1>1, <1>2 DEF TypeOK, Submitted
<1>7. Reactions'
    BY <1>1, <1>2 DEF TypeOK, Reactions
<1>8. OnChain'
    BY <1>1, <1>2 DEF TypeOK, OnChain
<1>9. HonestNeverStale'
    BY <1>1 DEF HonestNeverStale
<1> QED
    BY <1>3, <1>4, <1>5, <1>6, <1>7, <1>8, <1>9

\* go_on_chain preserves the invariant.
LEMMA GoOnChainIInv == ASSUME NEW p \in Party, IInv, GoOnChain(p) PROVE IInv'
<1> USE DEF IInv, GoOnChain, exchange
<1>1. TypeOK'
    BY DEF TypeOK, Phases
<1>2. ParityRule' /\ Numbers'
    BY DEF ParityRule, Numbers
<1>3. Submitted'
    BY DEF TypeOK, Submitted, Numbers
<1>4. Reactions'
    BY DEF TypeOK, Reactions
<1>5. OnChain'
  <2>1. ~(mature /\ coin.k = "Unroll" /\ p \in Honest)
      BY DEF OnChain
  <2>2. \A q \in Party : published[q] \subseteq published'[q]
      BY DEF TypeOK
  <2> QED
      BY <2>1, <2>2 DEF TypeOK, OnChain, Honest
<1>6. HonestNeverStale'
  <2>1. \A q \in Party : published[q] \subseteq published'[q]
      BY DEF TypeOK
  <2> QED
      BY <2>1, FaultyAssumption DEF HonestNeverStale
<1> QED
    BY <1>1, <1>2, <1>3, <1>4, <1>5, <1>6

\* A later action may rely on what was submitted before it.
LEMMA Grown ==
    ASSUME NEW p \in Party, TypeOK, NEW S,
           published' = [published EXCEPT ![p] = @ \cup S]
    PROVE  \A q \in Party : published[q] \subseteq published'[q]
    BY DEF TypeOK

\* The states a player may see unrolled are all in its map: its own, and those
\* its peer got from it.
LEMMA NotFromFuture ==
    ASSUME IInv, coin.k # "Channel"
    PROVE  \A p \in Party : coin.from <= sn[p]
<1> USE DEF IInv
<1>1. PICK q \in Party : coin.from \in published[q]
    BY DEF OnChain
<1>2. coin.from \in held[q] /\ coin.from \in Nat
    BY <1>1 DEF TypeOK, Submitted, Coins
<1>3. coin.from <= recv[q]
    BY <1>2 DEF Numbers
<1>4. recv[q] <= sn[q] /\ recv[q] <= sn[Other(q)]
    BY DEF TypeOK, Numbers
<1> QED
    BY <1>2, <1>3, <1>4, Parties DEF TypeOK

\* channel_coin_spent with the answer it gives preserves the invariant.
LEMMA ObserveIInv == ASSUME NEW p \in Party, IInv, Observe(p) PROVE IInv'
<1> USE DEF IInv, Observe, exchange
<1> DEFINE old == coin.from
<1>1. old \in Nat /\ sn[p] \in Nat /\ recv[p] \in Nat /\ old <= sn[p]
    BY NotFromFuture DEF TypeOK, Coins
<1>2. Preempts(p, old) => recv[p] > old /\ recv[p] % 2 # old % 2
  <2>1. ASSUME Preempts(p, old) PROVE recv[p] % 2 # old % 2 /\ old < sn[p]
      BY <2>1 DEF Preempts, PreemptionSource
  <2>2. sn[p] = recv[p] \/ sn[p] = recv[p] + 1
      BY DEF Numbers
  <2> QED
      BY <1>1, <2>1, <2>2
<1>3. ~Preempts(p, old) => old >= recv[p] \/ recv[p] % 2 = old % 2
    BY <1>1 DEF Preempts, PreemptionSource, Numbers
<1>4. PreemptionSource(p, old) \subseteq {recv[p]}
    BY DEF PreemptionSource
<1>5. Preempts(p, old) => recv[p] \in PreemptionSource(p, old)
    BY DEF Preempts, PreemptionSource
<1>6. /\ ~Preempts(p, old) => preempts'[p] = preempts[p]
      /\ Preempts(p, old) => preempts'[p] = preempts[p] \cup PreemptionSource(p, old)
      /\ \A q \in Party : q # p => preempts'[q] = preempts[q] /\ phase'[q] = phase[q]
    BY DEF TypeOK
<1>7. /\ Preempts(p, old) => phase'[p] = "UnrollSpend"
      /\ ~Preempts(p, old) => phase'[p] = "UnrollTimeoutOrSpend"
    BY <1>1 DEF TypeOK
<1>8. TypeOK'
    BY <1>1, <1>4 DEF TypeOK, Phases
<1>9. ParityRule' /\ Numbers' /\ HonestNeverStale'
    BY DEF ParityRule, Numbers, HonestNeverStale
<1>10. Submitted'
  <2>1. \A q \in Party : preempts'[q] \subseteq preempts[q] \cup {recv[q]}
      BY <1>4, <1>6
  <2>2. \A q \in Party : phase[q] # "OffChain" => phase'[q] # "OffChain"
      BY <1>6, <1>7
  <2>3. \A q \in Party : q # p => preempts'[q] = preempts[q]
      BY <1>6
  <2>4. phase'[p] # "OffChain"
      BY <1>7
  <2> QED
      BY <2>1, <2>2, <2>3, <2>4 DEF Submitted, Numbers
<1>11. Reactions'
  <2>1. CASE Preempts(p, old)
      BY <2>1, <1>2, <1>5, <1>6, <1>7 DEF Reactions
  <2>2. CASE ~Preempts(p, old)
      BY <2>2, <1>3, <1>6, <1>7 DEF Reactions
  <2> QED
      BY <2>1, <2>2
<1>12. OnChain'
  <2>1. ~(mature /\ coin.k = "Unroll" /\ p \in Honest)
      BY DEF OnChain
  <2> QED
      BY <2>1, <1>6, <1>7 DEF OnChain, Honest
<1> QED
    BY <1>8, <1>9, <1>10, <1>11, <1>12

\* finish_on_chain_transition preserves the invariant: two honest players are
\* at most one state apart, so is_stale is false for both.
LEMMA FinishIInv == ASSUME NEW p \in Party, IInv, Finish(p) PROVE IInv'
<1> USE DEF IInv, Finish, exchange
<1>1. TypeOK'
  <2>1. IsStale(p) \in BOOLEAN
      BY DEF IsStale
  <2>2. stale' \in [Party -> BOOLEAN]
      BY <2>1, Zenon DEF TypeOK
  <2> QED
      BY <2>2 DEF TypeOK, Phases
<1>2. ParityRule' /\ Numbers'
    BY DEF ParityRule, Numbers
<1>3. Submitted' /\ Reactions' /\ OnChain'
    BY DEF TypeOK, Submitted, Reactions, OnChain
<1>4. HonestNeverStale'
  <2>1. PICK q \in Party : coin.from \in published[q]
      BY DEF OnChain
  <2>2. ASSUME q \notin Faulty PROVE ~IsStale(p)
    <3>1. coin.from = recv[q]
        BY <2>1, <2>2 DEF Submitted, Honest
    <3>2. recv[p] <= recv[q] + 1
        BY Parties DEF Numbers, TypeOK
    <3> QED
        BY <3>1, <3>2 DEF IsStale, TypeOK
  <2>3. \A r \in Party : r # p => stale'[r] = stale[r]
      BY DEF TypeOK
  <2>4. stale'[p] = IsStale(p)
      BY DEF TypeOK
  <2> QED
      BY <2>1, <2>2, <2>3, <2>4 DEF HonestNeverStale
<1> QED
    BY <1>1, <1>2, <1>3, <1>4

\* What a faulty player submits changes nothing that is said of the others.
LEMMA FaultyIInv ==
    ASSUME NEW p \in Party, IInv, PublishOld(p) \/ PreemptOld(p) PROVE IInv'
<1> USE DEF IInv, exchange
<1>1. ASSUME PublishOld(p) PROVE IInv'
  <2>1. PICK n \in held[p] : published' = [published EXCEPT ![p] = @ \cup {n}]
      BY <1>1 DEF PublishOld
  <2>2. \A q \in Party : published[q] \subseteq published'[q]
      BY <2>1, Grown
  <2>3. p \notin Honest
      BY <1>1 DEF PublishOld, Honest
  <2>4. \A q \in Honest : published'[q] = published[q]
      BY <2>1, <2>3 DEF TypeOK, Honest
  <2>5. TypeOK'
      BY <1>1, <2>1 DEF TypeOK, PublishOld
  <2>6. ParityRule' /\ Numbers' /\ Reactions'
      BY <1>1 DEF PublishOld, ParityRule, Numbers, Reactions
  <2>7. Submitted'
      BY <1>1, <2>1, <2>4 DEF PublishOld, TypeOK, Submitted
  <2>8. OnChain' /\ HonestNeverStale'
      BY <1>1, <2>2, FaultyAssumption
      DEF PublishOld, OnChain, HonestNeverStale
  <2> QED
      BY <2>5, <2>6, <2>7, <2>8
<1>2. ASSUME PreemptOld(p) PROVE IInv'
  <2>1. PICK n \in held[p] : preempts' = [preempts EXCEPT ![p] = @ \cup {n}]
      BY <1>2 DEF PreemptOld
  <2>2. \A q \in Honest : preempts'[q] = preempts[q]
      BY <1>2, <2>1 DEF TypeOK, Honest, PreemptOld
  <2>3. TypeOK'
      BY <1>2, <2>1 DEF TypeOK, PreemptOld
  <2>4. ParityRule' /\ Numbers' /\ OnChain' /\ HonestNeverStale'
      BY <1>2 DEF PreemptOld, ParityRule, Numbers, OnChain, HonestNeverStale
  <2>5. Submitted' /\ Reactions'
      BY <1>2, <2>1, <2>2 DEF PreemptOld, TypeOK, Submitted, Reactions
  <2> QED
      BY <2>3, <2>4, <2>5
<1> QED
    BY <1>1, <1>2

\* The channel coin is spent to the unroll coin of a submitted state.
LEMMA ConfirmChannelSpendIInv ==
    ASSUME NEW p \in Party, IInv, ConfirmChannelSpend(p) PROVE IInv'
<1> USE DEF IInv, ConfirmChannelSpend, exchange
<1>1. PICK n \in published[p] : coin' = UnrollCoin(n)
    OBVIOUS
<1>2. n \in Nat /\ coin'.k = "Unroll" /\ coin'.from = n
    BY <1>1 DEF TypeOK, UnrollCoin
<1>3. coin.k = "Channel"
    BY DEF ChannelCoin
<1>4. TypeOK'
    BY <1>1, <1>2 DEF TypeOK, Coins, UnrollCoin
<1>5. ParityRule' /\ Numbers' /\ Submitted'
    BY DEF ParityRule, Numbers, Submitted
<1>6. Reactions'
    BY <1>2, <1>3 DEF Reactions
<1>7. OnChain'
    BY <1>1, <1>2, <1>3 DEF OnChain
<1>8. HonestNeverStale'
    BY <1>3 DEF HonestNeverStale, OnChain
<1> QED
    BY <1>4, <1>5, <1>6, <1>7, <1>8

\* The parity rule at work: a state that a player holds and that preempts
\* another one it holds can only preempt state 0, and only bob has such states.
LEMMA SelfPreemption ==
    ASSUME IInv, NEW p \in Party, NEW n \in held[p], NEW m \in held[p],
           PuzzleAccepts(n, m)
    PROVE  p = "bob" /\ n = 0
<1>1. n \in Nat /\ m \in Nat
    BY DEF IInv, TypeOK
<1>2. (n % 2 = Parity(p) \/ n = 0) /\ (m % 2 = Parity(p) \/ m = 0)
    BY DEF IInv, ParityRule
<1>3. m > n /\ m % 2 # n % 2
    BY DEF PuzzleAccepts
<1>4. m % 2 = Parity(p) /\ n = 0
    BY <1>1, <1>2, <1>3
<1>5. Parity(p) # 0
    BY <1>3, <1>4
<1> QED
    BY <1>4, <1>5 DEF Parity, Party

\* What is left of the invariant when the unroll coin of state old settles.
LEMMA SettleIInv ==
    ASSUME IInv, coin.k = "Unroll", NEW n \in Nat,
           coin' = SettledCoin(coin.from, n),
           UNCHANGED <<exchange, phase, published, preempts, stale, mature>>,
           \A p \in Honest :
             \/ p = "alice" /\ coin.from = 0
             \/ n >= recv[p] /\ phase[p] # "OffChain"
    PROVE  IInv'
<1> USE DEF IInv, exchange
<1>1. coin'.k = "Settled" /\ coin'.from = coin.from /\ coin'.sn = n
    BY DEF SettledCoin
<1>2. TypeOK'
    BY DEF TypeOK, Coins, SettledCoin
<1>3. ParityRule' /\ Numbers' /\ Submitted'
    BY DEF ParityRule, Numbers, Submitted
<1>4. Reactions'
    BY <1>1 DEF Reactions
<1>5. OnChain'
    BY <1>1 DEF OnChain
<1>6. HonestNeverStale'
    BY <1>1 DEF HonestNeverStale
<1> QED
    BY <1>2, <1>3, <1>4, <1>5, <1>6

\* A preemption settles at a state no honest player has gone beyond: whoever
\* published the old state, an honest player's last received state is the one
\* preempting, or the one preempted.
LEMMA ConfirmPreemptIInv ==
    ASSUME NEW p \in Party, IInv, ConfirmPreempt(p) PROVE IInv'
<1> USE DEF IInv
<1>1. PICK n \in preempts[p] :
          PuzzleAccepts(coin.from, n) /\ coin' = SettledCoin(coin.from, n)
    BY DEF ConfirmPreempt
<1>2. n \in Nat /\ n \in held[p] /\ coin.from \in Nat
    BY <1>1 DEF TypeOK, Submitted, Coins
<1>3. PICK q \in Party : coin.from \in published[q]
    BY DEF OnChain, ConfirmPreempt
<1>4. coin.from \in held[q]
    BY <1>3 DEF Submitted
<1>5. n > coin.from
    BY <1>1 DEF PuzzleAccepts
<1>6. ASSUME NEW h \in Honest
      PROVE  \/ h = "alice" /\ coin.from = 0
             \/ n >= recv[h] /\ phase[h] # "OffChain"
  <2>1. h \in Party
      BY DEF Honest
  <2>2. CASE h = p
      BY <1>1, <1>2, <2>1, <2>2 DEF Submitted, TypeOK
  <2>3. CASE h = q
    <3>1. coin.from = recv[h] /\ phase[h] # "OffChain"
        BY <1>3, <2>1, <2>3 DEF Submitted
    <3> QED
        BY <3>1, <1>2, <1>5
  <2>4. CASE h # p /\ h # q
    <3>1. p = q
        BY <2>1, <2>4, Parties
    <3>2. p = "bob" /\ coin.from = 0
        BY <1>1, <1>2, <1>4, <3>1, SelfPreemption
    <3> QED
        BY <2>1, <2>4, <3>2 DEF Party
  <2> QED
      BY <2>2, <2>3, <2>4
<1> QED
    BY <1>1, <1>2, <1>6, SettleIInv DEF ConfirmPreempt

\* The unroll coin matures when every honest player waits for its timeout.
LEMMA MatureIInv == ASSUME IInv, Mature PROVE IInv'
<1> USE DEF IInv, Mature, exchange
<1>1. ASSUME NEW p \in Honest PROVE phase[p] = "UnrollTimeoutOrSpend"
  <2>1. p \in Party /\ ~Settling(p)
      BY DEF Honest
  <2>2. phase[p] # "UnrollSpend"
    <3>1. SUFFICES ASSUME phase[p] = "UnrollSpend" PROVE FALSE
        OBVIOUS
    <3>2. PICK n \in preempts[p] : TRUE
        BY <2>1, <3>1 DEF Reactions
    <3>3. n = recv[p] /\ recv[p] > coin.from /\ recv[p] % 2 # coin.from % 2
        BY <2>1, <3>1, <3>2 DEF Reactions, Submitted
    <3> QED
        BY <2>1, <3>1, <3>2, <3>3 DEF Settling, PuzzleAccepts
  <2>3. phase[p] \notin {"OffChain", "ChannelSpend", "Resolved", "Failed"}
      BY <2>1 DEF Settling, Reactions
  <2> QED
      BY <2>1, <2>2, <2>3 DEF TypeOK, Phases
<1>2. TypeOK'
    BY DEF TypeOK
<1>3. ParityRule' /\ Numbers' /\ Submitted' /\ Reactions' /\ HonestNeverStale'
    BY DEF ParityRule, Numbers, Submitted, Reactions, HonestNeverStale
<1>4. OnChain'
    BY <1>1 DEF OnChain
<1> QED
    BY <1>2, <1>3, <1>4

\* The timeout settles at the published state.  A player who waited for it has
\* nothing newer, or cannot preempt it: then the parities are equal, the state
\* was not published by its peer, unless it is state 0.
LEMMA ConfirmTimeoutIInv ==
    ASSUME NEW p \in Party, IInv, ConfirmTimeout(p) PROVE IInv'
<1> USE DEF IInv
<1>1. coin.from \in Nat
    BY DEF TypeOK, Coins
<1>2. PICK q \in Party : coin.from \in published[q]
    BY DEF OnChain, ConfirmTimeout
<1>3. coin.from \in held[q]
    BY <1>2 DEF Submitted
<1>4. ASSUME NEW h \in Honest
      PROVE  \/ h = "alice" /\ coin.from = 0
             \/ coin.from >= recv[h] /\ phase[h] # "OffChain"
  <2>1. h \in Party /\ recv[h] \in Nat
      BY DEF Honest, TypeOK
  <2>2. phase[h] = "UnrollTimeoutOrSpend"
      BY DEF OnChain, ConfirmTimeout
  <2>3. coin.from >= recv[h] \/ recv[h] % 2 = coin.from % 2
      BY <2>1, <2>2 DEF Reactions
  <2>4. CASE h = q
    <3>1. coin.from = recv[h]
        BY <1>2, <2>1, <2>4 DEF Submitted
    <3> QED
        BY <3>1, <2>1, <2>2
  <2>5. CASE h # q /\ ~(coin.from >= recv[h])
    <3>1. h = Other(q)
        BY <2>1, <2>5, Parties
    <3>2. recv[h] # 0 /\ recv[h] % 2 = coin.from % 2
        BY <1>1, <2>1, <2>3, <2>5
    <3>3. coin.from % 2 = Parity(h)
        BY <2>1, <3>2 DEF ParityRule
    <3>4. coin.from % 2 = Parity(q) \/ coin.from = 0
        BY <1>3 DEF ParityRule
    <3>5. coin.from = 0
        BY <3>1, <3>3, <3>4, Parties
    <3>6. Parity(h) = 0
        BY <3>3, <3>5
    <3> QED
        BY <2>1, <3>5, <3>6 DEF Parity, Party
  <2> QED
      BY <2>2, <2>4, <2>5
<1> QED
    BY <1>1, <1>4, SettleIInv DEF ConfirmTimeout

\* The invariant is inductive.
LEMMA NextIInv == IInv /\ [Next]_vars => IInv'
<1> SUFFICES ASSUME IInv, [Next]_vars PROVE IInv'
    OBVIOUS
<1>1. ASSUME NEW p \in Party,
             \/ Send(p) \/ Receive(p) \/ GoOnChain(p) \/ Observe(p) \/ Finish(p)
             \/ PublishOld(p) \/ PreemptOld(p)
             \/ ConfirmChannelSpend(p) \/ ConfirmPreempt(p) \/ ConfirmTimeout(p)
      PROVE  IInv'
    BY <1>1, SendIInv, ReceiveIInv, GoOnChainIInv, ObserveIInv, FinishIInv,
       FaultyIInv, ConfirmChannelSpendIInv, ConfirmPreemptIInv,
       ConfirmTimeoutIInv
<1>2. CASE Mature
    BY <1>2, MatureIInv
<1>3. CASE UNCHANGED vars
    BY <1>3 DEF vars, IInv, TypeOK, ParityRule, Numbers, Submitted, Reactions,
        OnChain, HonestNeverStale
<1> QED
    BY <1>1, <1>2, <1>3 DEF Next

\* The dispute over the channel coin (channel_coin_spent, the unroll puzzle
\* and the spend phase) always satisfies the inductive invariant.
THEOREM Invariance == Spec => []IInv
<1>1. Init => IInv
    BY InitIInv
<1>2. IInv /\ [Next]_vars => IInv'
    BY NextIInv
<1> QED
    BY <1>1, <1>2, PTL DEF Spec

\* Every variable keeps its type.
THEOREM TypeCorrect == Spec => []TypeOK
<1>1. IInv => TypeOK
    BY DEF IInv
<1> QED
    BY <1>1, Invariance, PTL

\* The preemption that make_preemption_unroll_spend builds is one that the
\* unroll puzzle accepts, though preemption_source looks at parities only.
THEOREM PreemptionsAreAccepted == Spec => []PreemptionAccepted
<1>1. IInv => PreemptionAccepted
  <2> SUFFICES ASSUME IInv, NEW p \in Honest, phase[p] = "UnrollSpend",
                      NEW n \in preempts[p]
               PROVE  PuzzleAccepts(coin.from, n)
      BY DEF PreemptionAccepted
  <2>1. p \in Party
      BY DEF Honest
  <2>2. n = recv[p]
      BY <2>1 DEF IInv, Submitted
  <2> QED
      BY <2>1, <2>2 DEF IInv, Reactions, PuzzleAccepts
<1> QED
    BY <1>1, Invariance, PTL

\* The unroll never settles behind the state an honest player last received,
\* but for alice and the unroll of state 0.
THEOREM NoRollbackHolds == Spec => []NoRollback
<1>1. IInv => NoRollback
    BY DEF IInv, OnChain, NoRollback
<1> QED
    BY <1>1, Invariance, PTL

\* Every unroll that can appear on chain is in both players' puzzle hash maps.
THEOREM NoReplyFromTheFuture == Spec => []NeverFromFuture
<1>1. IInv => NeverFromFuture
    BY DEF IInv, Reactions, NeverFromFuture
<1> QED
    BY <1>1, Invariance, PTL

\* is_stale is never true of an unroll that an honest player published.
THEOREM StaleIsSomeonesFault == Spec => []HonestNeverStale
<1>1. IInv => HonestNeverStale
    BY DEF IInv
<1> QED
    BY <1>1, Invariance, PTL
=============================================================================
