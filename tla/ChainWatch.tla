----------------------------- MODULE ChainWatch -----------------------------
(***************************************************************************)
(* The transaction manager between a session and the chain, with the       *)
(* poller that reports the chain to it                                     *)
(* (front-end/src/hooks/BlockchainPoller.ts).  The height and the coins    *)
(* are asked for separately, and a report of the coins carries the height  *)
(* that was asked for last.                                                *)
(***************************************************************************)
EXTENDS TransactionManager

CONSTANTS
    Attentive,    \* the poller sees every reorganisation: it knows the chain
                  \* before it, and asks for the height once and then for the
                  \* coins before the next block, and its first answer is a
                  \* height
    Rivals,       \* the transactions the opponent may send
    MaxReorgs,    \* bound on the reorganisations
    MaxRollback,  \* bound on how far below its highest the chain falls
    MaxUpsets     \* bound on reloads and lost submissions

ASSUME WatchAssumption ==
    /\ Attentive \in BOOLEAN
    /\ Rivals \subseteq {"steal", "rival"}
    /\ MaxReorgs \in Nat /\ MaxRollback \in Nat /\ MaxUpsets \in Nat
    /\ MaxRollback < ConfirmationDepth

VARIABLES
    chain,      \* the chain
    mgr,        \* the transaction manager
    view,       \* [Coins -> what the session was last told]
    launched,   \* the session has asked for launch and for a watch on b
    abandoned,  \* the session is abandoned
    poll,       \* the poller: peak, prev(iousPeakForCoinReport), observed(Names)
    seen,       \* how much of the chain as it is has been polled
    undone,     \* a reorganisation has not been polled yet
    top,        \* the greatest height so far
    reorgs,     \* reorganisations so far
    upsets,     \* reloads and lost submissions so far
    lost        \* the transactions lost on the way to the network

host == <<launched, abandoned>>

bounds == <<top, reorgs, upsets>>

vars == <<chain, mgr, view, launched, abandoned, poll, seen, undone, top, reorgs, upsets, lost>>

NewPoller == [peak |-> 0, prev |-> 0, observed |-> {}]

\* The session watches a.
Init ==
    /\ chain = Genesis
    /\ mgr = RegisterWatch(NewManager, "a", FALSE)
    /\ view = [c \in Coins |-> "Absent"]
    /\ launched = FALSE
    /\ abandoned = FALSE
    /\ poll = NewPoller
    /\ seen = "nothing"
    /\ undone = FALSE
    /\ top = 1
    /\ reorgs = 0
    /\ upsets = 0
    /\ lost = {}

-----------------------------------------------------------------------------
(***************************************************************************)
(* The session.                                                            *)
(***************************************************************************)

\* A handler told of a's creation spends it, and watches the coin that makes,
\* with or without a claim.
Launch ==
    /\ view["a"] = "Live" /\ ~launched /\ ~abandoned
    /\ launched' = TRUE
    /\ \E claim \in BOOLEAN :
          mgr' = Submit(RegisterWatch(mgr, "b", claim), "launch")
    /\ UNCHANGED <<chain, view, abandoned, poll, seen, bounds, undone, lost>>

\* A handler registers b again, with the claim.
Rewatch ==
    /\ "b" \in mgr.watched /\ ~mgr.claim["b"]
    /\ mgr' = RegisterWatch(mgr, "b", TRUE)
    /\ UNCHANGED <<chain, view, host, poll, seen, bounds, undone, lost>>

\* flush_and_collect, for a session that has been abandoned.
Abandon ==
    /\ ~abandoned
    /\ abandoned' = TRUE
    /\ mgr' = DiscardLocalArtifacts(mgr)
    /\ UNCHANGED <<chain, view, launched, poll, seen, bounds, undone, lost>>

-----------------------------------------------------------------------------
(***************************************************************************)
(* The host.                                                               *)
(***************************************************************************)

\* runHeightPoll
HeightPoll ==
    /\ Attentive /\ undone => seen # "height"
    /\ poll' = [poll EXCEPT !.prev = poll.peak, !.peak = chain.height]
    /\ ReportHeight(mgr, chain.height, mgr')
    /\ seen' = "height"
    /\ UNCHANGED <<chain, view, host, bounds, undone, lost>>

OnChain(c) == chain.created[c] # 0

\* Real: what a coin is on chain.
Real(c) ==
    IF ~OnChain(c) THEN "Absent" ELSE IF chain.spent[c] = 0 THEN "Live" ELSE chain.by[c]

\* reportToCradles: an answer that leaves out a coin seen before is taken for
\* a failure of the node, unless the height has just decreased.
Forwarded ==
    /\ mgr.watched # {}
    /\ \/ poll.peak < poll.prev
       \/ \A c \in mgr.watched \cap poll.observed : OnChain(c)

\* runCoinPoll.  The session is told of creations, then of spends.
CoinPoll ==
    /\ Attentive /\ undone => seen # "nothing"
    /\ Attentive => poll.peak # 0
    /\ poll' = [poll EXCEPT !.observed = @ \cup {c \in mgr.watched : OnChain(c)}]
    /\ seen' = IF seen = "height" THEN "coins" ELSE seen
    /\ undone' = (undone /\ seen # "height")
    /\ IF Forwarded
       THEN \E created, deleted \in SUBSET Coins :
              /\ ReportCoinStates(mgr, poll.peak, GetCoinStates(chain),
                                  created, deleted, mgr')
              /\ view' = [c \in Coins |-> IF c \in deleted THEN Real(c)
                                         ELSE IF c \in created THEN "Live" ELSE view[c]]
       ELSE UNCHANGED <<mgr, view>>
    /\ UNCHANGED <<chain, host, bounds, lost>>

\* drainAndSubmitTransactions, of what the manager m has pending.
Submitted(m) ==
    /\ mgr' = DrainSubmissions(m)
    /\ chain' = [chain EXCEPT !.mempool = @ \cup
                    UNION {PushTransaction(chain, t).mempool : t \in m.pending}]
    /\ lost' = lost \ m.pending

Drain ==
    /\ mgr.pending # {}
    /\ Submitted(mgr)
    /\ UNCHANGED <<view, host, poll, seen, bounds, undone>>

\* The submissions are drained and never reach the network.
DrainLost ==
    /\ mgr.pending # {} /\ upsets < MaxUpsets
    /\ mgr' = DrainSubmissions(mgr)
    /\ lost' = lost \cup mgr.pending
    /\ upsets' = upsets + 1
    /\ UNCHANGED <<chain, view, host, poll, seen, top, reorgs, undone>>

\* resubmit_submitted and the drain after it, by a host that was restored, or
\* attached to the chain again, once it has had a coin snapshot.
Resubmit ==
    /\ mgr.submitted # {}
    /\ upsets > 0
    /\ Attentive => seen = "coins"
    /\ Submitted(RequeueSubmitted(mgr))
    /\ UNCHANGED <<view, host, poll, seen, bounds, undone>>

\* The page is loaded again: the manager is restored and the poller is new.
Reload ==
    /\ upsets < MaxUpsets
    /\ upsets' = upsets + 1
    /\ poll' = NewPoller
    /\ seen' = "nothing"
    /\ UNCHANGED <<chain, mgr, view, host, top, reorgs, undone, lost>>

-----------------------------------------------------------------------------
(***************************************************************************)
(* The chain.                                                              *)
(***************************************************************************)

PushRival(t) ==
    /\ chain' = PushTransaction(chain, t)
    /\ chain' # chain
    /\ UNCHANGED <<mgr, view, host, poll, seen, bounds, undone, lost>>

Farm ==
    /\ ~(Attentive /\ undone)
    /\ chain.height < MaxHeight
    /\ chain' = FarmBlock(chain)
    /\ seen' = "nothing"
    /\ top' = IF chain'.height > top THEN chain'.height ELSE top
    /\ UNCHANGED <<mgr, view, host, poll, reorgs, upsets, undone, lost>>

Reorganise ==
    /\ Attentive => seen = "coins"
    /\ reorgs < MaxReorgs
    /\ \E h \in 1..(chain.height - 1) :
          /\ top - h <= MaxRollback
          /\ chain' = Reorg(chain, h)
    /\ seen' = "nothing"
    /\ undone' = TRUE
    /\ reorgs' = reorgs + 1
    /\ UNCHANGED <<mgr, view, host, poll, top, upsets, lost>>

Next ==
    \/ Launch \/ Rewatch \/ Abandon
    \/ HeightPoll \/ CoinPoll \/ Drain \/ DrainLost \/ Resubmit \/ Reload
    \/ \E t \in Rivals : PushRival(t)
    \/ Farm \/ Reorganise

Spec == Init /\ [][Next]_vars

\* The poller keeps asking, the host submits what the manager hands it, and
\* blocks keep coming.
Fairness ==
    /\ WF_vars(HeightPoll) /\ WF_vars(CoinPoll)
    /\ WF_vars(Drain) /\ WF_vars(Farm)

FairSpec == Spec /\ Fairness

-----------------------------------------------------------------------------
\* The fields hold what the code's fields can hold.
TypeOK ==
    /\ chain \in Chains
    /\ mgr \in Managers
    /\ view \in [Coins -> Txs \cup {"Absent", "Live"}]
    /\ poll \in [peak : Heights, prev : Heights, observed : SUBSET Coins]
    /\ seen \in {"nothing", "height", "coins"} /\ undone \in BOOLEAN
    /\ lost \subseteq Txs

\* After a session is abandoned the manager submits nothing, whatever is
\* polled, drained or requeued.
AbandonedIsQuiet == abandoned => mgr.pending = {} /\ mgr.submitted = {}

\* A coin the manager stopped watching is spent, for good.
LetGoIsSpent ==
    launched /\ ~abandoned => \A c \in Coins \ mgr.watched : chain.spent[c] # 0

\* What the manager holds for a session.
ManagerInv == TypeOK /\ AbandonedIsQuiet /\ LetGoIsSpent

\* A claim is handed out only once the chain would take it: no rollback leaves
\* a birthday behind that makes it early.
ClaimsRipe ==
    [][mgr'.claimed["b"] /\ ~mgr.claimed["b"] => TimelocksHold(chain, "claim")]_vars

\* A handler is told a coin is spent only when it is: a reorganisation that
\* undoes the coin's creation is not a spend.
NoPhantomSpend ==
    [][\A c \in Coins :
         view'[c] # view[c] /\ view'[c] # "Live" => chain.spent[c] # 0]_vars

\* The promise to the handlers.
View == INSTANCE CoinView WITH
            Coin <- Coins, Status <- Txs \cup {"Absent", "Live"},
            real <- [c \in Coins |-> Real(c)], view <- view, watch <- mgr.watched

ViewFollows == View!Spec

\* Once a coin is ripe its claim reaches the network, whatever blocks were
\* undone meanwhile, unless the host lost it.
ClaimsSubmitted ==
    <>[]("b" \in mgr.watched /\ mgr.claim["b"] /\ Valid(chain, "claim")
            => "claim" \in chain.mempool \cup lost \/ Conflicts(chain, "claim"))

\* A transaction whose output was seen is replayed when the output vanishes,
\* unless it may have been given up as expired.
LaunchReplayed ==
    <>[](view["b"] # "Absent" /\ ~abandoned /\ Valid(chain, "launch")
            /\ (Expiry # 0 => top < Expiry)
            => "launch" \in chain.mempool \cup lost \/ Conflicts(chain, "launch"))

\* A spend that stays is told.
SpendsTold ==
    \A c \in Coins :
        <>[](c \in mgr.watched /\ chain.spent[c] # 0 => view[c] = chain.by[c])
=============================================================================
