------------------------------- MODULE Unroll -------------------------------
(***************************************************************************)
(* The dispute over the channel coin.  Off chain the players exchange      *)
(* states by number: whoever has the potato signs the next one.  A state   *)
(* becomes publishable for its receiver, who then has both signatures.     *)
(* The channel coin may be spent to the unroll coin of any such state; the *)
(* unroll coin is spent either by a preemption, with a higher state of the *)
(* other parity, or by its timeout.                                        *)
(*                                                                         *)
(* A state's contents play no part here: see PotatoChannel, whose          *)
(* KnownStatesAgree says that a number stands for one state.               *)
(***************************************************************************)
EXTENDS Naturals

CONSTANTS
    MaxState,  \* bound on the state numbers the players reach
    Faulty     \* players whose software may publish what it should not

\* alice starts with the potato.
Party == {"alice", "bob"}

Other(p) == IF p = "alice" THEN "bob" ELSE "alice"

Honest == Party \ Faulty

ASSUME MaxStateAssumption == MaxState \in Nat

ASSUME FaultyAssumption == Faulty \subseteq Party

VARIABLES
    sn,         \* [Party -> Nat]: ChannelState.state_number
    recv,       \* [Party -> Nat]: latest_received_unroll's state number
    held,       \* [Party -> SUBSET Nat]: states it has had both signatures of
    potato,     \* [Party -> BOOLEAN]: have_potato
    wire,       \* [Party -> SUBSET Nat]: states in flight to that player
    phase,      \* [Party -> Phases]: the session phase, or spend phase's state
    published,  \* [Party -> SUBSET Nat]: channel spends it submitted
    preempts,   \* [Party -> SUBSET Nat]: preemptions it submitted
    stale,      \* [Party -> BOOLEAN]: was_stale
    coin,       \* the channel coin's descent on chain
    mature      \* the unroll coin has reached its timeout

exchange == <<sn, recv, held, potato, wire>>

vars == <<sn, recv, held, potato, wire, phase, published, preempts, stale,
          coin, mature>>

Phases == {"OffChain", "ChannelSpend", "UnrollSpend", "UnrollTimeoutOrSpend",
           "Resolved", "Failed"}

ChannelCoin == [k |-> "Channel", from |-> 0, sn |-> 0]

UnrollCoin(n) == [k |-> "Unroll", from |-> n, sn |-> n]

SettledCoin(old, n) == [k |-> "Settled", from |-> old, sn |-> n]

Init ==
    /\ sn = [p \in Party |-> 0]
    /\ recv = [p \in Party |-> 0]
    /\ held = [p \in Party |-> {0}]
    /\ potato = [p \in Party |-> p = "alice"]
    /\ wire = [p \in Party |-> {}]
    /\ phase = [p \in Party |-> "OffChain"]
    /\ published = [p \in Party |-> {}]
    /\ preempts = [p \in Party |-> {}]
    /\ stale = [p \in Party |-> FALSE]
    /\ coin = ChannelCoin
    /\ mature = FALSE

-----------------------------------------------------------------------------
(***************************************************************************)
(* Off chain.                                                              *)
(***************************************************************************)

\* Mutant: the sender keeps the potato.
SendKeepingPotato(p) ==
    /\ phase[p] = "OffChain"
    /\ potato[p]
    /\ sn[p] < MaxState
    /\ sn' = [sn EXCEPT ![p] = @ + 1]
    /\ wire' = [wire EXCEPT ![Other(p)] = @ \cup {sn[p] + 1}]
    /\ UNCHANGED <<recv, held, potato, phase, published, preempts, stale, coin,
                   mature>>

\* update_cached_unroll_state
Send(p) ==
    /\ phase[p] = "OffChain"
    /\ potato[p]
    /\ sn[p] < MaxState
    /\ sn' = [sn EXCEPT ![p] = @ + 1]
    /\ potato' = [potato EXCEPT ![p] = FALSE]
    /\ wire' = [wire EXCEPT ![Other(p)] = @ \cup {sn[p] + 1}]
    /\ UNCHANGED <<recv, held, phase, published, preempts, stale, coin, mature>>

\* received_potato_verify_signatures: the signatures must be those of the
\* next state.
Receive(p) == \E n \in wire[p] :
    /\ phase[p] = "OffChain"
    /\ n = sn[p] + 1
    /\ sn' = [sn EXCEPT ![p] = n]
    /\ recv' = [recv EXCEPT ![p] = n]
    /\ held' = [held EXCEPT ![p] = @ \cup {n}]
    /\ potato' = [potato EXCEPT ![p] = TRUE]
    /\ wire' = [wire EXCEPT ![p] = @ \ {n}]
    /\ UNCHANGED <<phase, published, preempts, stale, coin, mature>>

\* go_on_chain submits the spend of the state last received.
GoOnChain(p) ==
    /\ phase[p] = "OffChain"
    /\ phase' = [phase EXCEPT ![p] = "ChannelSpend"]
    /\ published' = [published EXCEPT ![p] = @ \cup {recv[p]}]
    /\ UNCHANGED <<exchange, preempts, stale, coin, mature>>

-----------------------------------------------------------------------------
(***************************************************************************)
(* The spend phase: SpendChannelCoinPhase over channel_coin_spent.         *)
(***************************************************************************)

\* preemption_source: a stored state of the other parity with the peer's half
\* signature.  The state last sent never has it; the one last received does.
PreemptionSource(p, old) == {n \in {recv[p]} : n % 2 # old % 2}

\* Mutant: an older state is always preempted, source or none.
PreemptsAlways(p, old) == old <= sn[p]

Preempts(p, old) == old < sn[p] /\ PreemptionSource(p, old) # {}

\* classify_unroll and handle_unroll_from_channel_conditions, for the unroll
\* of state old.  Every state up to state_number is in the puzzle hash map;
\* one from the future is not, and fails the channel.
Observe(p) ==
    LET old == coin.from IN
    /\ coin.k # "Channel"
    /\ phase[p] \in {"OffChain", "ChannelSpend"}
    /\ phase' = [phase EXCEPT ![p] =
           IF old > sn[p] THEN "Failed"
           ELSE IF Preempts(p, old) THEN "UnrollSpend"
           ELSE "UnrollTimeoutOrSpend"]
    /\ preempts' = [preempts EXCEPT ![p] =
           IF Preempts(p, old) THEN @ \cup PreemptionSource(p, old) ELSE @]
    /\ UNCHANGED <<exchange, published, stale, coin, mature>>

\* finish_on_chain_transition: is_stale
IsStale(p) == coin.from + 1 < recv[p]

\* The unroll coin is spent: coin_spent and coin_puzzle_and_solution.
Finish(p) ==
    /\ coin.k = "Settled"
    /\ phase[p] \in {"UnrollSpend", "UnrollTimeoutOrSpend"}
    /\ phase' = [phase EXCEPT ![p] = "Resolved"]
    /\ stale' = [stale EXCEPT ![p] = IsStale(p)]
    /\ UNCHANGED <<exchange, published, preempts, coin, mature>>

-----------------------------------------------------------------------------
(***************************************************************************)
(* The chain and the faulty players (external).                            *)
(***************************************************************************)

\* A faulty player submits any state it ever had both signatures of, as the
\* spend of the channel coin or as a preemption.
PublishOld(p) ==
    /\ p \in Faulty
    /\ \E n \in held[p] :
          published' = [published EXCEPT ![p] = @ \cup {n}]
    /\ UNCHANGED <<exchange, phase, preempts, stale, coin, mature>>

PreemptOld(p) ==
    /\ p \in Faulty
    /\ \E n \in held[p] :
          preempts' = [preempts EXCEPT ![p] = @ \cup {n}]
    /\ UNCHANGED <<exchange, phase, published, stale, coin, mature>>

ConfirmChannelSpend(p) ==
    /\ coin = ChannelCoin
    /\ \E n \in published[p] : coin' = UnrollCoin(n)
    /\ UNCHANGED <<exchange, phase, published, preempts, stale, mature>>

\* Mutant: the puzzle compares the numbers only.
PuzzleAcceptsAnyParity(old, new) == new > old

\* unroll_puzzle.clsp, preemption path.
PuzzleAccepts(old, new) == new > old /\ new % 2 # old % 2

ConfirmPreempt(p) ==
    /\ coin.k = "Unroll"
    /\ \E n \in preempts[p] :
          PuzzleAccepts(coin.from, n) /\ coin' = SettledCoin(coin.from, n)
    /\ UNCHANGED <<exchange, phase, published, preempts, stale, mature>>

\* unroll_timeout is long enough for an honest player to see the unroll coin
\* and to get a preemption the puzzle accepts confirmed.
Settling(p) ==
    phase[p] \in {"OffChain", "ChannelSpend"} \/
        (phase[p] = "UnrollSpend" /\ \E n \in preempts[p] : PuzzleAccepts(coin.from, n))

Mature ==
    /\ coin.k = "Unroll"
    /\ \A p \in Honest : ~Settling(p)
    /\ mature' = TRUE
    /\ UNCHANGED <<exchange, phase, published, preempts, stale, coin>>

\* The timeout claim is registered with the unroll coin and submitted when it
\* matures; it needs no signature.
ConfirmTimeout(p) ==
    /\ coin.k = "Unroll"
    /\ mature
    /\ phase[p] = "UnrollTimeoutOrSpend" \/ p \in Faulty
    /\ coin' = SettledCoin(coin.from, coin.from)
    /\ UNCHANGED <<exchange, phase, published, preempts, stale, mature>>

Next ==
    \/ \E p \in Party :
          \/ Send(p) \/ Receive(p) \/ GoOnChain(p) \/ Observe(p) \/ Finish(p)
          \/ PublishOld(p) \/ PreemptOld(p)
          \/ ConfirmChannelSpend(p) \/ ConfirmPreempt(p) \/ ConfirmTimeout(p)
    \/ Mature

Spec == Init /\ [][Next]_vars

\* An honest host keeps watching and the chain keeps confirming; nobody has
\* to play on or to go on chain.
Fairness ==
    /\ \A p \in Party :
          WF_vars(ConfirmChannelSpend(p)) /\ WF_vars(ConfirmPreempt(p))
    /\ \A p \in Honest :
          WF_vars(Observe(p)) /\ WF_vars(Finish(p)) /\ WF_vars(ConfirmTimeout(p))
    /\ WF_vars(Mature)

FairSpec == Spec /\ Fairness

-----------------------------------------------------------------------------
Coins == [k : {"Channel", "Unroll", "Settled"}, from : Nat, sn : Nat]

\* Every variable has the type of the field it models.
TypeOK ==
    /\ sn \in [Party -> Nat]
    /\ recv \in [Party -> Nat]
    /\ held \in [Party -> SUBSET Nat]
    /\ potato \in [Party -> BOOLEAN]
    /\ wire \in [Party -> SUBSET Nat]
    /\ phase \in [Party -> Phases]
    /\ published \in [Party -> SUBSET Nat]
    /\ preempts \in [Party -> SUBSET Nat]
    /\ stale \in [Party -> BOOLEAN]
    /\ coin \in Coins
    /\ mature \in BOOLEAN

\* Every preemption an honest player submits is one the puzzle accepts:
\* preemption_source does not compare the state numbers, and need not.
PreemptionAccepted ==
    \A p \in Honest : phase[p] = "UnrollSpend" =>
        \A n \in preempts[p] : PuzzleAccepts(coin.from, n)

\* The unroll coin never settles at a state older than the one an honest
\* player last received, with one exception: the unroll of state 0, which
\* both players signed, cannot be preempted by alice, whose received states
\* are even.
NoRollback ==
    coin.k = "Settled" =>
        \A p \in Honest : coin.sn >= recv[p] \/ (p = "alice" /\ coin.from = 0)

\* Whatever the peer publishes, an honest player has it in its map
\* (unroll_puzzle_hash_map): "Reply from the future" never happens.
NeverFromFuture == \A p \in Party : phase[p] # "Failed"

\* A resolution is reported as stale (ResolvedStale) only when a faulty player
\* published the state that was unrolled: honest players, who may be one state
\* apart when they go on chain, never get to see it.
HonestNeverStale ==
    \A p \in Party : stale[p] => \E q \in Faulty : coin.from \in published[q]

\* A submitted spend of the channel coin ends in a resolution for every
\* honest player, whoever submitted it.
SpendResolves ==
    (\E p \in Party : published[p] # {})
        ~> (\A p \in Honest : phase[p] = "Resolved")
=============================================================================
