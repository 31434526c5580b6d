------------------------------- MODULE Chain -------------------------------
(***************************************************************************)
(* The block chain as the transaction manager meets it, after the          *)
(* simulator the repository tests against (src/simulator/mod.rs): coins    *)
(* with the height they were created and spent at, a mempool, a height,    *)
(* and reorganisations that lower it.                                      *)
(*                                                                         *)
(* The coins are the ones of one step of a game on chain: "a" is there     *)
(* from the start, "launch" is our spend of it and creates "b", which our  *)
(* "claim" spends once it is Timeout blocks old.  The opponent may spend   *)
(* either first, with "steal" and "rival".                                 *)
(*                                                                         *)
(* Blocks are numbered from 1, and height 0 stands for None.               *)
(***************************************************************************)
EXTENDS Naturals, FiniteSets

CONSTANTS
    Timeout,     \* relative timeout of b
    Expiry,      \* height from which launch is not valid, or 0 for none
    MaxHeight    \* bound on the height

ASSUME ChainAssumption ==
    Timeout \in Nat \ {0} /\ Expiry \in Nat /\ MaxHeight \in Nat \ {0}

Coins == {"a", "b"}

Txs == {"launch", "claim", "steal", "rival"}

Heights == 0..MaxHeight

\* The coin a transaction spends.
Input(t) == IF t \in {"launch", "steal"} THEN "a" ELSE "b"

\* The coins of ours it creates; what else it creates nobody watches.
Outputs(t) == IF t = "launch" THEN {"b"} ELSE {}

ExpiryOf(t) == IF t = "launch" THEN Expiry ELSE 0

Chains ==
    [height : Heights, created : [Coins -> Heights], spent : [Coins -> Heights],
     by : [Coins -> Txs], mempool : SUBSET Txs]

\* farm_block has made a.
Genesis ==
    [height  |-> 1,
     created |-> [c \in Coins |-> IF c = "a" THEN 1 ELSE 0],
     spent   |-> [c \in Coins |-> 0],
     by      |-> [c \in Coins |-> "steal"],
     mempool |-> {}]

Unspent(ch, c) == ch.created[c] # 0 /\ ch.spent[c] = 0

\* ASSERT_HEIGHT_RELATIVE of the claim, ASSERT_BEFORE_HEIGHT_ABSOLUTE of launch.
TimelocksHold(ch, t) ==
    /\ t = "claim" => ch.created["b"] + Timeout <= ch.height
    /\ ExpiryOf(t) # 0 => ch.height < ExpiryOf(t)

Conflicts(ch, t) == \E u \in ch.mempool : u # t /\ Input(u) = Input(t)

Valid(ch, t) == Unspent(ch, Input(t)) /\ TimelocksHold(ch, t)

\* push_transactions: a transaction that is not valid now is refused.
PushTransaction(ch, t) ==
    IF Valid(ch, t) /\ ~Conflicts(ch, t) THEN [ch EXCEPT !.mempool = @ \cup {t}] ELSE ch

\* farm_block_inner: the block holds the whole mempool.
FarmBlock(ch) ==
    LET h == ch.height + 1 IN
    [height  |-> h,
     created |-> [c \in Coins |->
                    IF \E t \in ch.mempool : c \in Outputs(t) THEN h ELSE ch.created[c]],
     spent   |-> [c \in Coins |->
                    IF \E t \in ch.mempool : c = Input(t) THEN h ELSE ch.spent[c]],
     by      |-> [c \in Coins |->
                    IF \E t \in ch.mempool : c = Input(t)
                    THEN CHOOSE t \in ch.mempool : c = Input(t) ELSE ch.by[c]],
     mempool |-> {}]

\* reorg: what lies above the new tip is undone, and its transactions are
\* eligible again, without being in the mempool.
Rollback(ch, h) ==
    [ch EXCEPT !.height  = h,
               !.created = [c \in Coins |-> IF @[c] > h THEN 0 ELSE @[c]],
               !.spent   = [c \in Coins |-> IF @[c] > h THEN 0 ELSE @[c]]]

\* A node drops from its mempool what the rollback has made invalid.  (The
\* simulator leaves that to its caller.)
Reorg(ch, h) ==
    LET back == Rollback(ch, h) IN
    [back EXCEPT !.mempool = {t \in @ : Valid(back, t)}]

\* get_coin_states
GetCoinStates(ch) ==
    [c \in Coins |-> [created |-> ch.created[c], spent |-> ch.spent[c]]]
=============================================================================
