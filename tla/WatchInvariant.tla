--------------------------- MODULE WatchInvariant ---------------------------
(***************************************************************************)
(* The inductive invariants behind the watch kept on the chain: what the   *)
(* manager, the poller and the chain hold of one another between two       *)
(* steps.  ChainSound and Settled need nothing of the poller; the others   *)
(* hold of one that sees every reorganisation.                             *)
(***************************************************************************)
EXTENDS ChainWatch

\* The chain is a history: a spend is not below its coin's creation, b was
\* made by the spend of a, and the mempool spends coins that are there.
ChainSound ==
    /\ chain.height # 0 /\ chain.height <= top /\ top \in Nat
    /\ chain.created["a"] = 1
    /\ \A c \in Coins : chain.created[c] <= chain.height /\ chain.spent[c] <= chain.height
    /\ \A c \in Coins : chain.spent[c] # 0 =>
           chain.created[c] # 0 /\ chain.created[c] <= chain.spent[c]
    /\ chain.created["b"] # 0 => chain.spent["a"] = chain.created["b"]
    /\ \A t \in chain.mempool : Unspent(chain, Input(t))

\* Nothing is kept of a coin that is not watched, and an abandoned session
\* watches and submits nothing.
Settled ==
    /\ launched \in BOOLEAN /\ abandoned \in BOOLEAN
    /\ \A c \in Coins \ mgr.watched :
           mgr.birth[c] = 0 /\ mgr.spent[c] = 0 /\ c \notin mgr.vanished
    /\ ~abandoned => mgr.present \subseteq mgr.watched
    /\ abandoned => mgr.watched = {} /\ mgr.pending = {} /\ mgr.submitted = {}

\* What holds whatever the poller sees.
BasicInv == TypeOK /\ ChainSound /\ Settled

-----------------------------------------------------------------------------
\* The poller has asked for the height of the chain as it is, or lags behind
\* it; while a reorganisation is unseen its peak is above the chain, or has
\* just fallen, or it is new.
PollerKnows ==
    /\ poll.peak = 0 \/ mgr.last = poll.peak
    /\ poll.peak <= top
    /\ ~undone => poll.peak <= chain.height
    /\ seen # "nothing" => poll.peak = chain.height
    /\ seen = "coins" => ~undone
    /\ undone /\ seen = "nothing" => poll.peak > chain.height \/ poll.observed = {}
    /\ undone /\ seen = "height" => poll.peak < poll.prev \/ poll.observed = {}

\* A birthday is the creation on chain, or lies above an unseen rollback that
\* the next report shows.
BirthdaysTrue ==
    \A c \in Coins : mgr.birth[c] # 0 =>
        \/ mgr.birth[c] = chain.created[c]
        \/ /\ undone /\ chain.created[c] = 0
           /\ mgr.birth[c] > chain.height /\ mgr.snap > chain.height

\* The snapshot a rollback is measured against covers every birthday.
SnapshotCovers ==
    /\ mgr.snap = 0 => \A c \in Coins : mgr.birth[c] = 0
    /\ seen = "coins" => \A c \in Coins : mgr.birth[c] <= mgr.snap

\* A recorded spend is the one on chain, which the session was told of, or
\* lies above an unseen rollback that the next report shows.
SpendsTrue ==
    \A c \in Coins : mgr.spent[c] # 0 =>
        \/ mgr.spent[c] = chain.spent[c] /\ view[c] = chain.by[c]
        \/ /\ undone /\ chain.spent[c] = 0
           /\ mgr.spent[c] > chain.height /\ mgr.last > chain.height

\* A rollback is dealt with once: the height it fell to is behind the manager
\* only until a higher one is reported.
RollbackEpoch == mgr.rollback = 0 \/ mgr.rollback >= mgr.last

\* A coin in the live set was told of as live, and its creation is known.
LiveIsTold ==
    /\ \A c \in mgr.present : view[c] = "Live"
    /\ \A c \in mgr.present \cap mgr.watched : mgr.birth[c] # 0 /\ c \notin mgr.vanished

\* A coin the manager let go of was spent deeper than any rollback reaches.
LetGoIsBuried ==
    /\ launched /\ ~abandoned => \A c \in Coins \ mgr.watched :
           chain.spent[c] # 0 /\ chain.spent[c] + ConfirmationDepth <= top
    /\ ~launched /\ ~abandoned => "a" \in mgr.watched \/ view["a"] # "Live"

WatchInv ==
    /\ PollerKnows /\ BirthdaysTrue /\ SnapshotCovers /\ SpendsTrue
    /\ RollbackEpoch /\ LiveIsTold /\ LetGoIsBuried

\* Both, for a poller that sees every reorganisation.
FullWatchInv == BasicInv /\ WatchInv
=============================================================================
