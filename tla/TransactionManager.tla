------------------------- MODULE TransactionManager -------------------------
(***************************************************************************)
(* struct TransactionManager of src/transaction_manager.rs: the layer that *)
(* hides reorganisations from the protocol handlers.  It turns reports of  *)
(* the chain into Created and Spent, submits the timeout claims it is      *)
(* given once they are ripe, and replays what a rollback has undone.       *)
(*                                                                         *)
(*   watched   watched_coins, whose fields are, by coin,                   *)
(*   birth     birthday                                                    *)
(*   spent     spent_confirmed_at                                          *)
(*   claim     there is a timeout_spend                                    *)
(*   claimed   claim_submitted                                             *)
(*   pending   pending_submissions                                         *)
(*   submitted the transactions retained, and the ones of them that        *)
(*   landed    have landed                                                 *)
(*   present   present_coins                                               *)
(*   vanished  vanished_coins                                              *)
(*   last      last_height                                                 *)
(*   snap      last_snapshot_height                                        *)
(*   rollback  timeout_rollback_height                                     *)
(***************************************************************************)
EXTENDS Chain

CONSTANTS
    ConfirmationDepth,   \* confirmation_depth
    ExpiryBuffer         \* CHANNEL_EXPIRY_BUFFER

ASSUME DepthAssumption == ConfirmationDepth \in Nat \ {0} /\ ExpiryBuffer \in Nat

Managers ==
    [watched : SUBSET Coins, birth : [Coins -> Heights], spent : [Coins -> Heights],
     claim : [Coins -> BOOLEAN], claimed : [Coins -> BOOLEAN],
     pending : SUBSET Txs, submitted : SUBSET Txs, landed : SUBSET Txs,
     present : SUBSET Coins, vanished : SUBSET Coins,
     last : Heights, snap : Heights, rollback : Heights]

NewManager ==
    [watched |-> {}, birth |-> [c \in Coins |-> 0], spent |-> [c \in Coins |-> 0],
     claim |-> [c \in Coins |-> FALSE], claimed |-> [c \in Coins |-> FALSE],
     pending |-> {}, submitted |-> {}, landed |-> {}, present |-> {}, vanished |-> {},
     last |-> 0, snap |-> 0, rollback |-> 0]

\* The timeout_spend of a coin.
ClaimOf(c) == "claim"

Parent(c) == IF c = "b" THEN "a" ELSE "none"

-----------------------------------------------------------------------------
(***************************************************************************)
(* What the session and the host ask for.                                  *)
(***************************************************************************)

\* absorb_events, OutboundTransaction.
Submit(m, t) == [m EXCEPT !.pending = @ \cup {t}]

\* register_watch: a refresh without a claim leaves the claim alone.
RegisterWatch(m, c, claim) ==
    [m EXCEPT !.watched = @ \cup {c}, !.claim[c] = @ \/ claim]

\* drain_submissions: what the host takes is retained.
DrainSubmissions(m) == [m EXCEPT !.submitted = @ \cup m.pending, !.pending = {}]

\* requeue_submitted
RequeueSubmitted(m) ==
    LET live == {t \in m.submitted : ExpiryOf(t) = 0 \/ m.last < ExpiryOf(t)} IN
    [m EXCEPT !.submitted = live, !.landed = @ \cap live, !.pending = @ \cup live]

Forget(m, gone) ==
    [m EXCEPT !.watched = @ \ gone,
              !.birth   = [c \in Coins |-> IF c \in gone THEN 0 ELSE @[c]],
              !.spent   = [c \in Coins |-> IF c \in gone THEN 0 ELSE @[c]],
              !.claim   = [c \in Coins |-> c \notin gone /\ @[c]],
              !.claimed = [c \in Coins |-> c \notin gone /\ @[c]],
              !.vanished = @ \ gone]

\* discard_local_artifacts
DiscardLocalArtifacts(m) ==
    [Forget(m, Coins) EXCEPT !.pending = {}, !.submitted = {}, !.landed = {}]

-----------------------------------------------------------------------------
(***************************************************************************)
(* Reports of the chain.                                                   *)
(***************************************************************************)

\* Mutant: claims are not re-armed.
InvalidateSpendsOnly(m, h, is_rollback) ==
    IF ~is_rollback
    THEN [m EXCEPT !.rollback = IF @ # 0 /\ h > @ THEN 0 ELSE @]
    ELSE [m EXCEPT !.rollback = h,
                   !.spent    = [c \in Coins |-> IF @[c] > h THEN 0 ELSE @[c]]]

\* invalidate_timeout_claims_for_rollback_epoch: once for each rollback, which
\* a report of the height and one of the coins both show.
InvalidateTimeoutClaims(m, h, is_rollback) ==
    IF ~is_rollback
    THEN [m EXCEPT !.rollback = IF @ # 0 /\ h > @ THEN 0 ELSE @]
    ELSE IF m.rollback = h THEN m
    ELSE [m EXCEPT !.rollback = h,
                   !.spent    = [c \in Coins |-> IF @[c] > h THEN 0 ELSE @[c]],
                   !.claimed  = [c \in Coins |-> FALSE]]

\* Mutant: a block too early.
RipeEarly(m, c, h) == m.birth[c] # 0 /\ m.birth[c] + Timeout <= h + 1

Ripe(m, c, h) == m.birth[c] # 0 /\ m.birth[c] + Timeout <= h

\* evaluate_mature_timeout_claims
EvaluateMatureTimeoutClaims(m, h) ==
    LET due == {c \in m.watched : Ripe(m, c, h) /\ ~m.claimed[c]
                                      /\ m.spent[c] = 0 /\ m.claim[c]} IN
    [m EXCEPT !.claimed = [c \in Coins |-> @[c] \/ c \in due],
              !.pending = @ \cup {ClaimOf(c) : c \in due}]

\* report_height: next is the manager after it.
ReportHeight(m, h, next) ==
    \E reset \in {InvalidateTimeoutClaims([m EXCEPT !.last = h], h, h < m.last)} :
        next = EvaluateMatureTimeoutClaims(reset, h)

\* The coins whose creation a rollback to h has undone.
RolledBack(m, h) == {c \in m.watched : h < m.snap /\ m.birth[c] > h}

\* The rollback half of report_coin_states, for records rec.
TakeRollback(m, h, rec) ==
    LET gone  == RolledBack(m, h)
        reset == InvalidateTimeoutClaims([m EXCEPT !.last = h, !.snap = h], h, h < m.snap) IN
    [reset EXCEPT
        !.birth    = [c \in Coins |-> IF c \in gone THEN 0 ELSE @[c]],
        !.claimed  = [c \in Coins |-> c \notin gone /\ @[c]],
        !.vanished = {c \in @ \cup gone : ~(h < m.snap /\ rec[c].created # 0)}]

\* Birthdays and spends as the records have them; a changed birthday re-arms
\* the claim.
TakeRecords(m, rec) ==
    LET moved == {c \in m.watched : rec[c].created \notin {0, m.birth[c]}}
        spent == {c \in m.watched : rec[c].spent # 0} IN
    [m EXCEPT !.birth   = [c \in Coins |-> IF c \in moved THEN rec[c].created ELSE @[c]],
              !.claimed = [c \in Coins |-> c \notin moved /\ @[c]],
              !.spent   = [c \in Coins |-> IF c \in spent THEN rec[c].spent ELSE @[c]]]

\* Mutant: every submission whose input is spent is given up.
PruneLanded(m, rec) ==
    LET kept == {t \in m.submitted :
                   Input(t) \notin m.watched \/ rec[Input(t)].spent = 0} IN
    [m EXCEPT !.submitted = kept, !.landed = {}]

\* Retained submissions: what has landed is kept, what lost its input is not.
PruneSubmitted(m, rec) ==
    LET landed == m.landed \cup
                  {t \in m.submitted : \E c \in Outputs(t) \cap m.watched : rec[c].created # 0}
        kept   == {t \in m.submitted :
                     \/ t \in landed
                     \/ Input(t) \notin m.watched
                     \/ rec[Input(t)].spent = 0} IN
    [m EXCEPT !.submitted = kept, !.landed = landed \cap kept]

PresentNow(m, rec) ==
    {c \in m.watched : rec[c].created # 0 /\ rec[c].spent = 0}

\* Mutant: only coins seen live are seen spent.
FirstSeenSpentNone(m, rec) == {}

\* Coins first seen spent.
FirstSeenSpent(m, rec) ==
    {c \in m.watched \ m.present : rec[c].spent # 0 /\ m.spent[c] = 0}

\* What the session is told, given the manager before and after TakeRollback.
Created(m, rolled, rec) ==
    (PresentNow(m, rec) \ m.present) \cup FirstSeenSpent(rolled, rec)

\* Mutant: a coin that left the live set is spent, rolled back or not.
DeletedAlsoVanished(m, rolled, rec) ==
    (m.present \ PresentNow(m, rec)) \cup FirstSeenSpent(rolled, rec)

\* A coin that left the live set is spent, unless its creation is undone.
Deleted(m, rolled, rec) ==
    ((m.present \ PresentNow(m, rec)) \ rolled.vanished) \cup FirstSeenSpent(rolled, rec)

\* resubmit_vanished: the transaction that made a coin, replayed while it may
\* still be included.
ResubmitVanished(m, vanished, h) ==
    LET makers == {t \in m.submitted : \E c \in vanished : Input(t) = Parent(c)}
        late   == {t \in makers : ExpiryOf(t) # 0 /\ h >= ExpiryOf(t) + ExpiryBuffer} IN
    [m EXCEPT !.submitted = @ \ late, !.landed = @ \ late,
              !.pending   = @ \cup (makers \ late)]

\* Mutant: a spend is final at once.
EvictAtOnce(m, h) ==
    LET buried == {c \in m.watched : m.spent[c] # 0 /\ m.spent[c] <= h}
        over   == {t \in m.submitted : Input(t) \in buried} IN
    [Forget(m, buried) EXCEPT !.present = @ \ buried,
                              !.submitted = @ \ over, !.landed = @ \ over]

\* evict_confirmed_spends
EvictConfirmedSpends(m, h) ==
    LET buried == {c \in m.watched : m.spent[c] # 0 /\ m.spent[c] + ConfirmationDepth <= h}
        over   == {t \in m.submitted : Input(t) \in buried} IN
    [Forget(m, buried) EXCEPT !.present = @ \ buried,
                              !.submitted = @ \ over, !.landed = @ \ over]

\* The session is about to be told: a spend without a height gets this one.
TellSession(m, h, created, deleted, present) ==
    [m EXCEPT !.present  = present,
              !.spent    = [c \in Coins |-> IF c \in deleted /\ @[c] = 0 THEN h ELSE @[c]],
              !.vanished = @ \ created]

\* report_coin_states: created and deleted are what the session is told, next
\* is the manager after it.
ReportCoinStates(m, h, rec, created, deleted, next) ==
    \E rolled \in {TakeRollback(m, h, rec)} :
        /\ created = Created(m, rolled, rec)
        /\ deleted = Deleted(m, rolled, rec)
        /\ \E taken  \in {TakeRecords(rolled, rec)} :
           \E pruned \in {PruneSubmitted(taken, rec)} :
           \E told   \in {TellSession(pruned, h, Created(m, rolled, rec),
                                     Deleted(m, rolled, rec), PresentNow(m, rec))} :
           \E again  \in {ResubmitVanished(told, RolledBack(m, h) \ m.vanished, h)} :
           \E mature \in {EvaluateMatureTimeoutClaims(again, h)} :
              next = EvictConfirmedSpends(mature, h)
=============================================================================
