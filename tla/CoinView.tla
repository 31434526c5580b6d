------------------------------ MODULE CoinView ------------------------------
(***************************************************************************)
(* What the layers below promise a protocol handler: what it is told of    *)
(* the coins it watches is at every report what the chain holds, except    *)
(* that it is not told of a coin whose creation was undone.                *)
(***************************************************************************)
CONSTANTS
    Coin,      \* coins
    Status     \* "Absent", "Live", or the transaction that spent the coin

VARIABLES
    real,      \* [Coin -> Status] on chain
    view,      \* [Coin -> Status] as the handler was last told
    watch      \* the coins the handler has asked for

vars == <<real, view, watch>>

Init ==
    /\ real \in [Coin -> Status]
    /\ view = [c \in Coin |-> "Absent"]
    /\ watch \in SUBSET Coin

\* Blocks and reorganisations.
ChainMoves ==
    /\ real' \in [Coin -> Status]
    /\ UNCHANGED <<view, watch>>

WatchMore ==
    /\ watch' \in SUBSET Coin
    /\ watch \subseteq watch'
    /\ UNCHANGED <<real, view>>

\* A report, after which the coins spent for good are let go of.
Follow ==
    /\ view' = [c \in Coin |->
                  IF c \in watch /\ real[c] # "Absent" THEN real[c] ELSE view[c]]
    /\ watch' \in SUBSET watch
    /\ \A c \in watch \ watch' : real[c] \notin {"Absent", "Live"}
    /\ UNCHANGED real

\* The session is abandoned.
Abandon ==
    /\ watch' = {}
    /\ UNCHANGED <<real, view>>

Next == ChainMoves \/ WatchMore \/ Follow \/ Abandon

Spec == Init /\ [][Next]_vars
=============================================================================
