---------------------------- MODULE WatchProofs ----------------------------
(***************************************************************************)
(* Proofs about the watch on the chain.                                    *)
(***************************************************************************)
EXTENDS WatchInvariant, TLAPS

-----------------------------------------------------------------------------
(***************************************************************************)
(* The operators of the transaction manager, field by field.               *)
(***************************************************************************)

\* Records of the coins, as a report of the chain carries them.
Records == [Coins -> [created : Heights, spent : Heights]]

\* get_coin_states answers with the chain's own heights.
LEMMA GetCoinStatesFields ==
    ASSUME NEW ch \in Chains
    PROVE  /\ GetCoinStates(ch) \in Records
           /\ \A c \in Coins : /\ GetCoinStates(ch)[c].created = ch.created[c]
                               /\ GetCoinStates(ch)[c].spent = ch.spent[c]
BY DEF GetCoinStates, Records, Chains

\* invalidate_timeout_claims_for_rollback_epoch forgets the spends above the
\* height a rollback fell to, unless the epoch is known, and adds no claim.
LEMMA InvalidateFields ==
    ASSUME NEW m \in Managers, NEW h \in Heights, NEW k \in Heights,
           NEW n, n = InvalidateTimeoutClaims(m, h, h < k)
    PROVE  /\ n \in Managers
           /\ n.watched = m.watched /\ n.birth = m.birth /\ n.claim = m.claim
           /\ n.pending = m.pending /\ n.submitted = m.submitted
           /\ n.landed = m.landed /\ n.present = m.present
           /\ n.vanished = m.vanished /\ n.last = m.last /\ n.snap = m.snap
           /\ \A c \in Coins : n.spent[c] = m.spent[c] \/ n.spent[c] = 0
           /\ h < k /\ m.rollback # h =>
                \A c \in Coins : m.spent[c] > h => n.spent[c] = 0
           /\ h < k => n.rollback = h
           /\ ~(h < k) => n.rollback = 0 \/ (n.rollback = m.rollback /\ n.rollback >= h)
           /\ \A c \in Coins : n.claimed[c] => m.claimed[c]
<1>1. CASE ~(h < k)
  <2>1. n = [m EXCEPT !.rollback = IF m.rollback # 0 /\ h > m.rollback THEN 0
                                   ELSE m.rollback]
    BY <1>1 DEF InvalidateTimeoutClaims, Managers
  <2>2. m.rollback \in Heights /\ 0 \in Heights
    BY ChainAssumption DEF Managers, Heights
  <2>3. n \in Managers
    BY <2>1, <2>2 DEF Managers
  <2>4. n.rollback = IF m.rollback # 0 /\ h > m.rollback THEN 0 ELSE m.rollback
    BY <2>1 DEF Managers
  <2>5. n.rollback = 0 \/ (n.rollback = m.rollback /\ n.rollback >= h)
    BY <2>2, <2>4, ChainAssumption DEF Heights
  <2> QED
    BY <1>1, <2>1, <2>3, <2>5 DEF Managers
<1>2. CASE h < k /\ m.rollback = h
  BY <1>2 DEF InvalidateTimeoutClaims, Managers, Heights
<1>3. CASE h < k /\ m.rollback # h
  <2>1. 0 \in Heights
    BY ChainAssumption DEF Heights
  <2> QED
    BY <1>3, <2>1 DEF InvalidateTimeoutClaims, Managers, Heights
<1> QED
  BY <1>1, <1>2, <1>3

\* evaluate_mature_timeout_claims hands out the claims of ripe, unspent coins
\* under watch, and touches only the claims and the queue.
LEMMA MatureFields ==
    ASSUME NEW m \in Managers, NEW h \in Heights,
           NEW n, n = EvaluateMatureTimeoutClaims(m, h)
    PROVE  /\ n \in Managers
           /\ n.watched = m.watched /\ n.birth = m.birth /\ n.spent = m.spent
           /\ n.claim = m.claim /\ n.submitted = m.submitted
           /\ n.landed = m.landed /\ n.present = m.present
           /\ n.vanished = m.vanished /\ n.last = m.last /\ n.snap = m.snap
           /\ n.rollback = m.rollback
           /\ m.watched = {} => n.pending = m.pending
           /\ \A c \in Coins : n.claimed[c] /\ ~m.claimed[c] => Ripe(m, c, h)
<1> DEFINE due == {c \in m.watched : Ripe(m, c, h) /\ ~m.claimed[c]
                                      /\ m.spent[c] = 0 /\ m.claim[c]}
<1>1. due \subseteq Coins /\ (m.watched = {} => due = {})
  BY DEF Managers
<1>2. \A c \in due : Ripe(m, c, h)
  OBVIOUS
<1>3. {ClaimOf(c) : c \in due} \subseteq Txs /\ (due = {} => {ClaimOf(c) : c \in due} = {})
  BY DEF ClaimOf, Txs
<1>4. n = [m EXCEPT !.claimed = [c \in Coins |-> m.claimed[c] \/ c \in due],
                    !.pending = m.pending \cup {ClaimOf(c) : c \in due}]
  BY DEF EvaluateMatureTimeoutClaims, Managers
<1>5. [c \in Coins |-> m.claimed[c] \/ c \in due] \in [Coins -> BOOLEAN]
  OBVIOUS
<1> HIDE DEF due
<1>6. n \in Managers
  BY <1>3, <1>4, <1>5 DEF Managers
<1>7. \A c \in Coins : n.claimed[c] = (m.claimed[c] \/ c \in due)
  BY <1>4 DEF Managers
<1>8. m.watched = {} => n.pending = m.pending
  BY <1>1, <1>3, <1>4 DEF Managers
<1> QED
  BY <1>2, <1>4, <1>6, <1>7, <1>8 DEF Managers

\* The rollback half of report_coin_states.
LEMMA TakeRollbackFields ==
    ASSUME NEW m \in Managers, NEW h \in Heights, NEW rec \in Records,
           NEW n, n = TakeRollback(m, h, rec)
    PROVE  /\ n \in Managers
           /\ n.watched = m.watched /\ n.claim = m.claim
           /\ n.pending = m.pending /\ n.submitted = m.submitted
           /\ n.landed = m.landed /\ n.present = m.present
           /\ n.last = h /\ n.snap = h
           /\ \A c \in Coins : n.birth[c] = IF c \in RolledBack(m, h) THEN 0 ELSE m.birth[c]
           /\ n.vanished = {c \in m.vanished \cup RolledBack(m, h) :
                              ~(h < m.snap /\ rec[c].created # 0)}
           /\ \A c \in Coins : n.spent[c] = m.spent[c] \/ n.spent[c] = 0
           /\ h < m.snap => n.rollback = h
           /\ ~(h < m.snap) => n.rollback = 0 \/ (n.rollback = m.rollback /\ n.rollback >= h)
           /\ \A c \in Coins : n.claimed[c] => m.claimed[c]
<1> DEFINE m1 == [m EXCEPT !.last = h, !.snap = h]
           r  == InvalidateTimeoutClaims(m1, h, h < m.snap)
           gone == RolledBack(m, h)
<1>1. m1 \in Managers /\ m.snap \in Heights
  BY DEF Managers
<1>2. /\ m1.watched = m.watched /\ m1.claim = m.claim /\ m1.pending = m.pending
      /\ m1.submitted = m.submitted /\ m1.landed = m.landed /\ m1.present = m.present
      /\ m1.vanished = m.vanished /\ m1.last = h /\ m1.snap = h /\ m1.birth = m.birth
      /\ m1.spent = m.spent /\ m1.claimed = m.claimed /\ m1.rollback = m.rollback
  BY DEF Managers
<1>3. gone \subseteq Coins
  BY DEF RolledBack, Managers
<1> HIDE DEF m1
<1>4. /\ r \in Managers
      /\ r.watched = m1.watched /\ r.birth = m1.birth /\ r.claim = m1.claim
      /\ r.pending = m1.pending /\ r.submitted = m1.submitted
      /\ r.landed = m1.landed /\ r.present = m1.present
      /\ r.vanished = m1.vanished /\ r.last = m1.last /\ r.snap = m1.snap
      /\ \A c \in Coins : r.spent[c] = m1.spent[c] \/ r.spent[c] = 0
      /\ h < m.snap => r.rollback = h
      /\ ~(h < m.snap) => r.rollback = 0 \/ (r.rollback = m1.rollback /\ r.rollback >= h)
      /\ \A c \in Coins : r.claimed[c] => m1.claimed[c]
  BY <1>1, InvalidateFields, SMTT(40)
<1>5. n = [r EXCEPT
        !.birth    = [c \in Coins |-> IF c \in gone THEN 0 ELSE r.birth[c]],
        !.claimed  = [c \in Coins |-> c \notin gone /\ r.claimed[c]],
        !.vanished = {c \in r.vanished \cup gone : ~(h < m.snap /\ rec[c].created # 0)}]
  BY <1>4 DEF TakeRollback, m1, Managers
<1> HIDE DEF r, gone
<1>6. /\ [c \in Coins |-> IF c \in gone THEN 0 ELSE r.birth[c]] \in [Coins -> Heights]
      /\ [c \in Coins |-> c \notin gone /\ r.claimed[c]] \in [Coins -> BOOLEAN]
  BY <1>4, ChainAssumption DEF Managers, Heights
<1>7. {c \in r.vanished \cup gone : ~(h < m.snap /\ rec[c].created # 0)} \in SUBSET Coins
  BY <1>3, <1>4 DEF Managers
<1>8. n \in Managers
  BY <1>4, <1>5, <1>6, <1>7 DEF Managers
<1>9. \A c \in Coins : n.claimed[c] = (c \notin gone /\ r.claimed[c])
  BY <1>4, <1>5 DEF Managers
<1>10. /\ n.watched = r.watched /\ n.claim = r.claim /\ n.pending = r.pending
       /\ n.submitted = r.submitted /\ n.landed = r.landed /\ n.present = r.present
       /\ n.last = r.last /\ n.snap = r.snap /\ n.spent = r.spent /\ n.rollback = r.rollback
       /\ \A c \in Coins : n.birth[c] = IF c \in gone THEN 0 ELSE r.birth[c]
       /\ n.vanished = {c \in r.vanished \cup gone : ~(h < m.snap /\ rec[c].created # 0)}
  BY <1>4, <1>5 DEF Managers
<1>11. \A c \in Coins : n.claimed[c] => m.claimed[c]
  BY <1>2, <1>4, <1>9
<1> QED
  BY <1>2, <1>4, <1>8, <1>10, <1>11 DEF gone

\* Birthdays and spends are taken as the records have them.
LEMMA TakeRecordsFields ==
    ASSUME NEW m \in Managers, NEW rec \in Records, NEW n, n = TakeRecords(m, rec)
    PROVE  /\ n \in Managers
           /\ n.watched = m.watched /\ n.claim = m.claim
           /\ n.pending = m.pending /\ n.submitted = m.submitted
           /\ n.landed = m.landed /\ n.present = m.present /\ n.vanished = m.vanished
           /\ n.last = m.last /\ n.snap = m.snap /\ n.rollback = m.rollback
           /\ \A c \in Coins : n.birth[c] = IF c \in m.watched /\ rec[c].created # 0
                                            THEN rec[c].created ELSE m.birth[c]
           /\ \A c \in Coins : n.spent[c] = IF c \in m.watched /\ rec[c].spent # 0
                                            THEN rec[c].spent ELSE m.spent[c]
           /\ \A c \in Coins : n.claimed[c] => m.claimed[c]
<1> DEFINE moved == {c \in m.watched : rec[c].created \notin {0, m.birth[c]}}
           spent == {c \in m.watched : rec[c].spent # 0}
<1>1. \A c \in Coins : rec[c].created \in Heights /\ rec[c].spent \in Heights
  BY DEF Records
<1>2. n = [m EXCEPT !.birth   = [c \in Coins |-> IF c \in moved THEN rec[c].created ELSE m.birth[c]],
                    !.claimed = [c \in Coins |-> c \notin moved /\ m.claimed[c]],
                    !.spent   = [c \in Coins |-> IF c \in spent THEN rec[c].spent ELSE m.spent[c]]]
  BY DEF TakeRecords, Managers
<1>3. \A c \in Coins : (IF c \in moved THEN rec[c].created ELSE m.birth[c])
                          = IF c \in m.watched /\ rec[c].created # 0
                            THEN rec[c].created ELSE m.birth[c]
  OBVIOUS
<1>4. \A c \in Coins : (IF c \in spent THEN rec[c].spent ELSE m.spent[c])
                          = IF c \in m.watched /\ rec[c].spent # 0
                            THEN rec[c].spent ELSE m.spent[c]
  OBVIOUS
<1> HIDE DEF moved, spent
<1>5. /\ [c \in Coins |-> IF c \in moved THEN rec[c].created ELSE m.birth[c]] \in [Coins -> Heights]
      /\ [c \in Coins |-> IF c \in spent THEN rec[c].spent ELSE m.spent[c]] \in [Coins -> Heights]
      /\ [c \in Coins |-> c \notin moved /\ m.claimed[c]] \in [Coins -> BOOLEAN]
  BY <1>1 DEF Managers
<1>6. n \in Managers
  BY <1>2, <1>5 DEF Managers
<1>7. \A c \in Coins : n.claimed[c] = (c \notin moved /\ m.claimed[c])
  BY <1>2 DEF Managers
<1>8. /\ \A c \in Coins : n.birth[c] = IF c \in moved THEN rec[c].created ELSE m.birth[c]
      /\ \A c \in Coins : n.spent[c] = IF c \in spent THEN rec[c].spent ELSE m.spent[c]
  BY <1>2 DEF Managers
<1>9. \A c \in Coins : n.claimed[c] => m.claimed[c]
  BY <1>7
<1>10. /\ n.watched = m.watched /\ n.claim = m.claim
       /\ n.pending = m.pending /\ n.submitted = m.submitted
       /\ n.landed = m.landed /\ n.present = m.present /\ n.vanished = m.vanished
       /\ n.last = m.last /\ n.snap = m.snap /\ n.rollback = m.rollback
  BY <1>2 DEF Managers
<1> QED
  BY <1>3, <1>4, <1>6, <1>8, <1>9, <1>10

\* Pruning touches the retained submissions only.
LEMMA PruneFields ==
    ASSUME NEW m \in Managers, NEW rec \in Records, NEW n, n = PruneSubmitted(m, rec)
    PROVE  /\ n \in Managers
           /\ n.watched = m.watched /\ n.birth = m.birth /\ n.spent = m.spent
           /\ n.claim = m.claim /\ n.claimed = m.claimed /\ n.pending = m.pending
           /\ n.present = m.present /\ n.vanished = m.vanished
           /\ n.last = m.last /\ n.snap = m.snap /\ n.rollback = m.rollback
BY DEF PruneSubmitted, Managers

\* A replay moves submissions only.
LEMMA ResubmitFields ==
    ASSUME NEW m \in Managers, NEW gone \in SUBSET Coins, NEW h \in Heights,
           NEW n, n = ResubmitVanished(m, gone, h)
    PROVE  /\ n \in Managers
           /\ n.watched = m.watched /\ n.birth = m.birth /\ n.spent = m.spent
           /\ n.claim = m.claim /\ n.claimed = m.claimed
           /\ n.present = m.present /\ n.vanished = m.vanished
           /\ n.last = m.last /\ n.snap = m.snap /\ n.rollback = m.rollback
BY DEF ResubmitVanished, Managers

\* A coin forgotten leaves nothing behind.
LEMMA ForgetFields ==
    ASSUME NEW m \in Managers, NEW gone \in SUBSET Coins, NEW n, n = Forget(m, gone)
    PROVE  /\ n \in Managers
           /\ n.watched = m.watched \ gone /\ n.vanished = m.vanished \ gone
           /\ n.pending = m.pending /\ n.submitted = m.submitted
           /\ n.landed = m.landed /\ n.present = m.present
           /\ n.last = m.last /\ n.snap = m.snap /\ n.rollback = m.rollback
           /\ \A c \in Coins : n.birth[c] = IF c \in gone THEN 0 ELSE m.birth[c]
           /\ \A c \in Coins : n.spent[c] = IF c \in gone THEN 0 ELSE m.spent[c]
           /\ \A c \in Coins : n.claimed[c] => m.claimed[c]
<1>1. 0 \in Heights
  BY ChainAssumption DEF Heights
<1>2. n = [m EXCEPT !.watched = m.watched \ gone,
              !.birth   = [c \in Coins |-> IF c \in gone THEN 0 ELSE m.birth[c]],
              !.spent   = [c \in Coins |-> IF c \in gone THEN 0 ELSE m.spent[c]],
              !.claim   = [c \in Coins |-> c \notin gone /\ m.claim[c]],
              !.claimed = [c \in Coins |-> c \notin gone /\ m.claimed[c]],
              !.vanished = m.vanished \ gone]
  BY DEF Forget, Managers
<1>3. /\ [c \in Coins |-> IF c \in gone THEN 0 ELSE m.birth[c]] \in [Coins -> Heights]
      /\ [c \in Coins |-> IF c \in gone THEN 0 ELSE m.spent[c]] \in [Coins -> Heights]
      /\ [c \in Coins |-> c \notin gone /\ m.claim[c]] \in [Coins -> BOOLEAN]
      /\ [c \in Coins |-> c \notin gone /\ m.claimed[c]] \in [Coins -> BOOLEAN]
      /\ m.watched \ gone \in SUBSET Coins /\ m.vanished \ gone \in SUBSET Coins
  BY <1>1 DEF Managers
<1>4. n \in Managers
  BY <1>2, <1>3 DEF Managers
<1>5. \A c \in Coins : n.claimed[c] = (c \notin gone /\ m.claimed[c])
  BY <1>2 DEF Managers
<1>6. /\ n.watched = m.watched \ gone /\ n.vanished = m.vanished \ gone
      /\ n.pending = m.pending /\ n.submitted = m.submitted
      /\ n.landed = m.landed /\ n.present = m.present
      /\ n.last = m.last /\ n.snap = m.snap /\ n.rollback = m.rollback
      /\ \A c \in Coins : n.birth[c] = IF c \in gone THEN 0 ELSE m.birth[c]
      /\ \A c \in Coins : n.spent[c] = IF c \in gone THEN 0 ELSE m.spent[c]
  BY <1>2 DEF Managers
<1>7. \A c \in Coins : n.claimed[c] => m.claimed[c]
  BY <1>5
<1> QED
  BY <1>4, <1>6, <1>7

\* The coins evict_confirmed_spends lets go of.
Buried(m, h) == {c \in m.watched : m.spent[c] # 0 /\ m.spent[c] + ConfirmationDepth <= h}

\* An eviction forgets the coins whose spend is confirmed, and only those.
LEMMA EvictFields ==
    ASSUME NEW m \in Managers, NEW h \in Heights, NEW n, n = EvictConfirmedSpends(m, h)
    PROVE  /\ n \in Managers
           /\ n.watched = m.watched \ Buried(m, h)
           /\ n.vanished = m.vanished \ Buried(m, h)
           /\ n.present = m.present \ Buried(m, h)
           /\ n.last = m.last /\ n.snap = m.snap /\ n.rollback = m.rollback
           /\ \A c \in Coins : n.birth[c] = IF c \in Buried(m, h) THEN 0 ELSE m.birth[c]
           /\ \A c \in Coins : n.spent[c] = IF c \in Buried(m, h) THEN 0 ELSE m.spent[c]
           /\ \A c \in Coins : n.claimed[c] => m.claimed[c]
<1> DEFINE b == Buried(m, h)
           over == {t \in m.submitted : Input(t) \in b}
           f == Forget(m, b)
<1>1. b \in SUBSET Coins
  BY DEF Buried, Managers
<1>2. n = [f EXCEPT !.present = f.present \ b,
                    !.submitted = f.submitted \ over, !.landed = f.landed \ over]
  BY DEF EvictConfirmedSpends, Buried, Forget, Managers
<1> HIDE DEF b, over, f
<1>3. /\ f \in Managers
      /\ f.watched = m.watched \ b /\ f.vanished = m.vanished \ b
      /\ f.present = m.present
      /\ f.last = m.last /\ f.snap = m.snap /\ f.rollback = m.rollback
      /\ \A c \in Coins : f.birth[c] = IF c \in b THEN 0 ELSE m.birth[c]
      /\ \A c \in Coins : f.spent[c] = IF c \in b THEN 0 ELSE m.spent[c]
      /\ \A c \in Coins : f.claimed[c] => m.claimed[c]
  BY <1>1, ForgetFields DEF f
<1>4. n \in Managers
  <2>1. /\ f.present \ b \in SUBSET Coins
        /\ f.submitted \ over \in SUBSET Txs /\ f.landed \ over \in SUBSET Txs
    BY <1>3 DEF Managers
  <2> QED
    BY <1>2, <1>3, <2>1 DEF Managers
<1>5. /\ n.watched = f.watched /\ n.vanished = f.vanished /\ n.present = f.present \ b
      /\ n.last = f.last /\ n.snap = f.snap /\ n.rollback = f.rollback
      /\ n.birth = f.birth /\ n.spent = f.spent /\ n.claimed = f.claimed
  BY <1>2, <1>3 DEF Managers
<1> QED
  BY <1>3, <1>4, <1>5 DEF b

\* report_coin_states, from the manager before it to the one after: mature is
\* the manager as it is before the confirmed spends are evicted.
LEMMA ReportFields ==
    ASSUME NEW m \in Managers, NEW h \in Heights, NEW rec \in Records,
           NEW created, NEW deleted, NEW next,
           ReportCoinStates(m, h, rec, created, deleted, next)
    PROVE  \E rolled, mature \in Managers :
             /\ rolled = TakeRollback(m, h, rec)
             /\ created = Created(m, rolled, rec)
             /\ deleted = Deleted(m, rolled, rec)
             /\ mature.watched = m.watched
             /\ mature.last = h /\ mature.snap = h /\ mature.rollback = rolled.rollback
             /\ mature.present = PresentNow(m, rec)
             /\ mature.vanished = rolled.vanished \ created
             /\ \A c \in Coins : mature.birth[c] = IF c \in m.watched /\ rec[c].created # 0
                                                 THEN rec[c].created ELSE rolled.birth[c]
             /\ \A c \in Coins : mature.spent[c] =
                  IF c \in m.watched /\ rec[c].spent # 0 THEN rec[c].spent
                  ELSE IF c \in deleted /\ rolled.spent[c] = 0 THEN h ELSE rolled.spent[c]
             /\ \A c \in Coins : mature.claimed[c] /\ ~m.claimed[c] => Ripe(mature, c, h)
             /\ next = EvictConfirmedSpends(mature, h)
<1> DEFINE rolled == TakeRollback(m, h, rec)
           taken  == TakeRecords(rolled, rec)
           pruned == PruneSubmitted(taken, rec)
           told   == TellSession(pruned, h, Created(m, rolled, rec),
                                 Deleted(m, rolled, rec), PresentNow(m, rec))
           again  == ResubmitVanished(told, RolledBack(m, h) \ m.vanished, h)
           mature == EvaluateMatureTimeoutClaims(again, h)
<1>1. /\ created = Created(m, rolled, rec) /\ deleted = Deleted(m, rolled, rec)
      /\ next = EvictConfirmedSpends(mature, h)
  BY DEF ReportCoinStates
<1>a. rolled = TakeRollback(m, h, rec)
  OBVIOUS
<1>b. told = TellSession(pruned, h, created, deleted, PresentNow(m, rec))
  BY <1>1 DEF told
<1> HIDE DEF rolled, taken, pruned, told, again, mature
<1>2. /\ rolled \in Managers /\ rolled.watched = m.watched /\ rolled.present = m.present
      /\ rolled.last = h /\ rolled.snap = h
      /\ \A c \in Coins : rolled.claimed[c] => m.claimed[c]
  BY <1>a, TakeRollbackFields
<1>3. /\ taken \in Managers /\ taken.watched = rolled.watched
      /\ taken.vanished = rolled.vanished
      /\ taken.last = rolled.last /\ taken.snap = rolled.snap
      /\ taken.rollback = rolled.rollback
      /\ \A c \in Coins : taken.birth[c] = IF c \in rolled.watched /\ rec[c].created # 0
                                         THEN rec[c].created ELSE rolled.birth[c]
      /\ \A c \in Coins : taken.spent[c] = IF c \in rolled.watched /\ rec[c].spent # 0
                                         THEN rec[c].spent ELSE rolled.spent[c]
      /\ \A c \in Coins : taken.claimed[c] => rolled.claimed[c]
  BY <1>2, TakeRecordsFields DEF taken
<1>4. /\ pruned \in Managers
      /\ pruned.watched = taken.watched /\ pruned.birth = taken.birth
      /\ pruned.spent = taken.spent /\ pruned.claimed = taken.claimed
      /\ pruned.vanished = taken.vanished
      /\ pruned.last = taken.last /\ pruned.snap = taken.snap
      /\ pruned.rollback = taken.rollback
  BY <1>3, PruneFields DEF pruned
<1>5. /\ Created(m, rolled, rec) \in SUBSET Coins /\ Deleted(m, rolled, rec) \in SUBSET Coins
      /\ PresentNow(m, rec) \in SUBSET Coins
  BY <1>2 DEF Created, Deleted, PresentNow, FirstSeenSpent, Managers
<1>c. created \in SUBSET Coins /\ deleted \in SUBSET Coins
  BY <1>1, <1>5
<1>6. /\ told \in Managers
      /\ told.watched = pruned.watched /\ told.birth = pruned.birth
      /\ told.claimed = pruned.claimed /\ told.present = PresentNow(m, rec)
      /\ told.vanished = pruned.vanished \ created
      /\ told.last = pruned.last /\ told.snap = pruned.snap
      /\ told.rollback = pruned.rollback
      /\ \A c \in Coins : told.spent[c] = IF c \in deleted /\ pruned.spent[c] = 0
                                        THEN h ELSE pruned.spent[c]
  <2>1. told = [pruned EXCEPT
           !.present  = PresentNow(m, rec),
           !.spent    = [c \in Coins |-> IF c \in deleted /\ pruned.spent[c] = 0 THEN h
                                         ELSE pruned.spent[c]],
           !.vanished = pruned.vanished \ created]
    BY <1>b, <1>4 DEF TellSession, Managers
  <2>2. /\ [c \in Coins |-> IF c \in deleted /\ pruned.spent[c] = 0 THEN h
                            ELSE pruned.spent[c]] \in [Coins -> Heights]
        /\ pruned.vanished \ created \in SUBSET Coins
    BY <1>4 DEF Managers
  <2> QED
    BY <1>4, <1>5, <2>1, <2>2 DEF Managers
<1>7. RolledBack(m, h) \ m.vanished \in SUBSET Coins
  BY DEF RolledBack, Managers
<1>8. /\ again \in Managers
      /\ again.watched = told.watched /\ again.birth = told.birth
      /\ again.spent = told.spent /\ again.claimed = told.claimed
      /\ again.present = told.present /\ again.vanished = told.vanished
      /\ again.last = told.last /\ again.snap = told.snap
      /\ again.rollback = told.rollback
  BY <1>6, <1>7, ResubmitFields DEF again
<1>9. /\ mature \in Managers
      /\ mature.watched = again.watched /\ mature.birth = again.birth
      /\ mature.spent = again.spent /\ mature.present = again.present
      /\ mature.vanished = again.vanished /\ mature.last = again.last
      /\ mature.snap = again.snap /\ mature.rollback = again.rollback
      /\ \A c \in Coins : mature.claimed[c] /\ ~again.claimed[c] => Ripe(again, c, h)
  BY <1>8, MatureFields DEF mature
<1>10. \A c \in Coins : Ripe(again, c, h) => Ripe(mature, c, h)
  BY <1>9 DEF Ripe
<1>11. \A c \in Coins : again.claimed[c] => m.claimed[c]
  BY <1>2, <1>3, <1>4, <1>6, <1>8
<1>12. \A c \in Coins : mature.claimed[c] /\ ~m.claimed[c] => Ripe(mature, c, h)
  BY <1>9, <1>10, <1>11
<1>13. \A c \in Coins : mature.spent[c] =
           IF c \in m.watched /\ rec[c].spent # 0 THEN rec[c].spent
           ELSE IF c \in deleted /\ rolled.spent[c] = 0 THEN h ELSE rolled.spent[c]
  BY <1>2, <1>3, <1>4, <1>6, <1>8, <1>9
<1>14. \A c \in Coins : mature.birth[c] = IF c \in m.watched /\ rec[c].created # 0
                                        THEN rec[c].created ELSE rolled.birth[c]
  BY <1>2, <1>3, <1>4, <1>6, <1>8, <1>9
<1>15. /\ mature.watched = m.watched
       /\ mature.last = h /\ mature.snap = h /\ mature.rollback = rolled.rollback
       /\ mature.present = PresentNow(m, rec)
       /\ mature.vanished = rolled.vanished \ created
  BY <1>2, <1>3, <1>4, <1>6, <1>8, <1>9
<1> QED
  BY <1>1, <1>2, <1>9, <1>12, <1>13, <1>14, <1>15 DEF rolled

-----------------------------------------------------------------------------
(***************************************************************************)
(* The chain.                                                              *)
(***************************************************************************)

\* Heights are natural numbers.
LEMMA HeightsNat == 0 \in Heights /\ \A x \in Heights : x \in Nat /\ x <= MaxHeight
BY ChainAssumption DEF Heights

\* push_transactions adds to the mempool at most one transaction, whose input
\* is there.
LEMMA PushFields ==
    ASSUME NEW ch \in Chains, NEW t \in Txs, NEW n, n = PushTransaction(ch, t)
    PROVE  /\ n \in Chains
           /\ n.height = ch.height /\ n.created = ch.created
           /\ n.spent = ch.spent /\ n.by = ch.by
           /\ \A u \in n.mempool : u \in ch.mempool \/ Unspent(ch, Input(u))
BY DEF PushTransaction, Valid, Chains

\* A block: what was created or spent stays so.
LEMMA FarmFields ==
    ASSUME NEW ch \in Chains, ch.height < MaxHeight, NEW n, n = FarmBlock(ch),
           \A t \in ch.mempool : Unspent(ch, Input(t))
    PROVE  /\ n \in Chains
           /\ n.height = ch.height + 1 /\ n.mempool = {}
           /\ \A c \in Coins : \/ n.spent[c] = ch.spent[c] /\ n.by[c] = ch.by[c]
                               \/ Unspent(ch, c) /\ n.spent[c] = ch.height + 1
           /\ n.created["a"] = ch.created["a"]
           /\ \/ n.created["b"] = ch.created["b"]
              \/ /\ Unspent(ch, "a") /\ n.created["b"] = ch.height + 1
                 /\ n.spent["a"] = ch.height + 1
<1> DEFINE h == ch.height + 1
<1>1. h \in Heights /\ 0 \in Heights
  BY ChainAssumption DEF Heights, Chains
<1>2. /\ n.height = h /\ n.mempool = {}
      /\ n.created = [c \in Coins |->
                    IF \E t \in ch.mempool : c \in Outputs(t) THEN h ELSE ch.created[c]]
      /\ n.spent = [c \in Coins |->
                    IF \E t \in ch.mempool : c = Input(t) THEN h ELSE ch.spent[c]]
      /\ n.by = [c \in Coins |->
                    IF \E t \in ch.mempool : c = Input(t)
                    THEN CHOOSE t \in ch.mempool : c = Input(t) ELSE ch.by[c]]
      /\ n = [height |-> n.height, created |-> n.created, spent |-> n.spent,
              by |-> n.by, mempool |-> n.mempool]
  BY DEF FarmBlock
<1>3. \A c \in Coins : (\E t \in ch.mempool : c = Input(t)) =>
           (CHOOSE t \in ch.mempool : c = Input(t)) \in ch.mempool
  BY Zenon
<1>4. n.by \in [Coins -> Txs]
  <2>1. \A c \in Coins : (IF \E t \in ch.mempool : c = Input(t)
                          THEN CHOOSE t \in ch.mempool : c = Input(t) ELSE ch.by[c]) \in Txs
    BY <1>3 DEF Chains
  <2> QED
    BY <1>2, <2>1, Zenon
<1>5. n.created \in [Coins -> Heights] /\ n.spent \in [Coins -> Heights]
  BY <1>1, <1>2 DEF Chains
<1>6. n \in Chains
  BY <1>1, <1>2, <1>4, <1>5 DEF Chains
<1>7. \A c \in Coins : \/ n.spent[c] = ch.spent[c] /\ n.by[c] = ch.by[c]
                       \/ Unspent(ch, c) /\ n.spent[c] = h
  <2> SUFFICES ASSUME NEW c \in Coins
               PROVE  \/ n.spent[c] = ch.spent[c] /\ n.by[c] = ch.by[c]
                      \/ Unspent(ch, c) /\ n.spent[c] = h
    OBVIOUS
  <2>1. CASE \E t \in ch.mempool : c = Input(t)
    BY <1>2, <2>1
  <2>2. CASE ~\E t \in ch.mempool : c = Input(t)
    BY <1>2, <2>2
  <2> QED
    BY <2>1, <2>2
<1>8. \A t : /\ "a" \notin Outputs(t)
             /\ "b" \in Outputs(t) => Input(t) = "a"
  BY DEF Outputs, Input
<1>9. n.created["a"] = ch.created["a"]
  BY <1>2, <1>8 DEF Coins
<1>10. \/ n.created["b"] = ch.created["b"]
       \/ Unspent(ch, "a") /\ n.created["b"] = h /\ n.spent["a"] = h
  <2>1. CASE \E t \in ch.mempool : "b" \in Outputs(t)
    <3>1. PICK t \in ch.mempool : "b" \in Outputs(t)
      BY <2>1
    <3>2. "a" = Input(t) /\ Unspent(ch, Input(t))
      BY <1>8, <3>1
    <3> QED
      BY <1>2, <2>1, <3>2 DEF Coins
  <2>2. CASE ~\E t \in ch.mempool : "b" \in Outputs(t)
    BY <1>2, <2>2 DEF Coins
  <2> QED
    BY <2>1, <2>2
<1> QED
  BY <1>2, <1>6, <1>7, <1>9, <1>10

\* A reorganisation keeps what lies at or below the new tip, and what spends a
\* coin still there in the mempool.
LEMMA ReorgFields ==
    ASSUME NEW ch \in Chains, NEW h \in Heights, NEW n, n = Reorg(ch, h)
    PROVE  /\ n \in Chains
           /\ n.height = h /\ n.by = ch.by
           /\ \A c \in Coins : n.created[c] = IF ch.created[c] > h THEN 0 ELSE ch.created[c]
           /\ \A c \in Coins : n.spent[c] = IF ch.spent[c] > h THEN 0 ELSE ch.spent[c]
           /\ \A t \in n.mempool : Unspent(n, Input(t))
<1> DEFINE back == Rollback(ch, h)
<1>1. /\ back \in Chains /\ back.height = h /\ back.by = ch.by
      /\ \A c \in Coins : back.created[c] = IF ch.created[c] > h THEN 0 ELSE ch.created[c]
      /\ \A c \in Coins : back.spent[c] = IF ch.spent[c] > h THEN 0 ELSE ch.spent[c]
  BY HeightsNat DEF Rollback, Chains
<1>2. n = [back EXCEPT !.mempool = {t \in back.mempool : Valid(back, t)}]
  BY DEF Reorg
<1> HIDE DEF back
<1>3. /\ n.height = back.height /\ n.by = back.by /\ n.created = back.created
      /\ n.spent = back.spent /\ n.mempool = {t \in back.mempool : Valid(back, t)}
      /\ n \in Chains
  BY <1>1, <1>2 DEF Chains
<1>4. \A t \in n.mempool : Unspent(back, Input(t))
  BY <1>3 DEF Valid
<1>5. \A c : Unspent(back, c) => Unspent(n, c)
  BY <1>3 DEF Unspent
<1> QED
  BY <1>1, <1>3, <1>4, <1>5

\* report_height.
LEMMA HeightFields ==
    ASSUME NEW m \in Managers, NEW h \in Heights, NEW next, ReportHeight(m, h, next)
    PROVE  /\ next \in Managers
           /\ next.watched = m.watched /\ next.birth = m.birth
           /\ next.submitted = m.submitted /\ next.present = m.present
           /\ next.vanished = m.vanished /\ next.last = h /\ next.snap = m.snap
           /\ \A c \in Coins : next.spent[c] = m.spent[c] \/ next.spent[c] = 0
           /\ h < m.last /\ m.rollback # h =>
                \A c \in Coins : m.spent[c] > h => next.spent[c] = 0
           /\ h < m.last => next.rollback = h
           /\ ~(h < m.last) =>
                next.rollback = 0 \/ (next.rollback = m.rollback /\ next.rollback >= h)
           /\ m.watched = {} => next.pending = m.pending
           /\ \A c \in Coins : next.claimed[c] /\ ~m.claimed[c] => Ripe(m, c, h)
<1> DEFINE m1 == [m EXCEPT !.last = h]
           r == InvalidateTimeoutClaims(m1, h, h < m.last)
<1>1. next = EvaluateMatureTimeoutClaims(r, h)
  BY DEF ReportHeight
<1>2. m1 \in Managers /\ m.last \in Heights
  BY DEF Managers
<1>3. /\ m1.watched = m.watched /\ m1.claim = m.claim /\ m1.pending = m.pending
      /\ m1.submitted = m.submitted /\ m1.landed = m.landed /\ m1.present = m.present
      /\ m1.vanished = m.vanished /\ m1.last = h /\ m1.snap = m.snap /\ m1.birth = m.birth
      /\ m1.spent = m.spent /\ m1.claimed = m.claimed /\ m1.rollback = m.rollback
  BY DEF Managers
<1> HIDE DEF m1
<1>4. /\ r \in Managers
      /\ r.watched = m1.watched /\ r.birth = m1.birth
      /\ r.pending = m1.pending /\ r.submitted = m1.submitted /\ r.present = m1.present
      /\ r.vanished = m1.vanished /\ r.last = m1.last /\ r.snap = m1.snap
      /\ \A c \in Coins : r.spent[c] = m1.spent[c] \/ r.spent[c] = 0
      /\ h < m.last /\ m1.rollback # h =>
           \A c \in Coins : m1.spent[c] > h => r.spent[c] = 0
      /\ h < m.last => r.rollback = h
      /\ ~(h < m.last) => r.rollback = 0 \/ (r.rollback = m1.rollback /\ r.rollback >= h)
      /\ \A c \in Coins : r.claimed[c] => m1.claimed[c]
  BY <1>2, InvalidateFields, SMTT(40)
<1> HIDE DEF r
<1>5. /\ next \in Managers
      /\ next.watched = r.watched /\ next.birth = r.birth /\ next.spent = r.spent
      /\ next.submitted = r.submitted /\ next.present = r.present
      /\ next.vanished = r.vanished /\ next.last = r.last /\ next.snap = r.snap
      /\ next.rollback = r.rollback
      /\ r.watched = {} => next.pending = r.pending
      /\ \A c \in Coins : next.claimed[c] /\ ~r.claimed[c] => Ripe(r, c, h)
  BY <1>1, <1>4, MatureFields
<1>6. \A c \in Coins : Ripe(r, c, h) => Ripe(m, c, h)
  BY <1>3, <1>4 DEF Ripe
<1>7. \A c \in Coins : next.claimed[c] /\ ~m.claimed[c] => Ripe(m, c, h)
  BY <1>3, <1>4, <1>5, <1>6
<1>8. \A c \in Coins : next.spent[c] = m.spent[c] \/ next.spent[c] = 0
  BY <1>3, <1>4, <1>5
<1>9. h < m.last /\ m.rollback # h =>
           \A c \in Coins : m.spent[c] > h => next.spent[c] = 0
  BY <1>3, <1>4, <1>5
<1> QED
  BY <1>3, <1>4, <1>5, <1>7, <1>8, <1>9

-----------------------------------------------------------------------------
(***************************************************************************)
(* What holds whatever the poller sees.                                    *)
(***************************************************************************)

\* The start: the manager watches a.
LEMMA InitManager ==
    LET m == RegisterWatch(NewManager, "a", FALSE) IN
    /\ m \in Managers /\ m.watched = {"a"} /\ m.present = {} /\ m.vanished = {}
    /\ m.last = 0 /\ m.snap = 0 /\ m.rollback = 0
    /\ m.pending = {} /\ m.submitted = {}
    /\ \A c \in Coins : m.birth[c] = 0 /\ m.spent[c] = 0
BY HeightsNat DEF RegisterWatch, NewManager, Managers, Coins

\* register_watch adds a coin to the watch.
LEMMA RegisterFields ==
    ASSUME NEW m \in Managers, NEW claim \in BOOLEAN,
           NEW n, n = RegisterWatch(m, "b", claim)
    PROVE  /\ n \in Managers /\ n.watched = m.watched \cup {"b"}
           /\ n.birth = m.birth /\ n.spent = m.spent /\ n.claimed = m.claimed
           /\ n.pending = m.pending /\ n.submitted = m.submitted /\ n.landed = m.landed
           /\ n.present = m.present /\ n.vanished = m.vanished
           /\ n.last = m.last /\ n.snap = m.snap /\ n.rollback = m.rollback
<1>1. m.claim \in [Coins -> BOOLEAN] /\ "b" \in Coins
  BY DEF Managers, Coins
<1>2. [m.claim EXCEPT !["b"] = m.claim["b"] \/ claim] \in [Coins -> BOOLEAN]
  BY <1>1
<1>3. n = [m EXCEPT !.watched = m.watched \cup {"b"},
                    !.claim = [m.claim EXCEPT !["b"] = m.claim["b"] \/ claim]]
  BY DEF RegisterWatch, Managers
<1>4. m.watched \cup {"b"} \in SUBSET Coins
  BY <1>1 DEF Managers
<1>5. n \in Managers
  BY <1>2, <1>3, <1>4 DEF Managers
<1> QED
  BY <1>3, <1>5 DEF Managers

\* The initial states.
LEMMA BasicInit == Init => BasicInv
<1> SUFFICES ASSUME Init PROVE BasicInv
  OBVIOUS
<1>1. chain \in Chains /\ ChainSound
  <2>1. 1 \in Heights /\ 0 \in Heights
    BY ChainAssumption DEF Heights
  <2>2. chain = [height  |-> 1,
                 created |-> [c \in Coins |-> IF c = "a" THEN 1 ELSE 0],
                 spent   |-> [c \in Coins |-> 0],
                 by      |-> [c \in Coins |-> "steal"],
                 mempool |-> {}]
    BY DEF Init, Genesis
  <2>3. chain \in Chains
    BY <2>1, <2>2 DEF Chains, Txs
  <2>4. /\ chain.height = 1 /\ chain.mempool = {}
        /\ chain.created["a"] = 1 /\ chain.created["b"] = 0
        /\ \A c \in Coins : chain.spent[c] = 0
    BY <2>2 DEF Coins
  <2>5. top = 1
    BY DEF Init
  <2> QED
    BY <2>3, <2>4, <2>5 DEF ChainSound, Coins
<1>2. mgr \in Managers /\ Settled
  BY InitManager DEF Init, Settled
<1>3. poll \in [peak : Heights, prev : Heights, observed : SUBSET Coins]
  BY HeightsNat DEF Init, NewPoller
<1> QED
  BY <1>1, <1>2, <1>3 DEF Init, BasicInv, TypeOK, Txs

\* The session's requests.
LEMMA BasicSession ==
    ASSUME BasicInv, Launch \/ Rewatch \/ Abandon
    PROVE  BasicInv'
<1>1. /\ mgr \in Managers /\ Settled /\ ChainSound /\ TypeOK
  BY DEF BasicInv, TypeOK
<1>2. CASE Launch
  <2>1. PICK claim \in BOOLEAN : mgr' = Submit(RegisterWatch(mgr, "b", claim), "launch")
    BY <1>2 DEF Launch
  <2> DEFINE n == RegisterWatch(mgr, "b", claim)
  <2>2. /\ n \in Managers /\ n.watched = mgr.watched \cup {"b"}
        /\ n.birth = mgr.birth /\ n.spent = mgr.spent
        /\ n.present = mgr.present /\ n.vanished = mgr.vanished
    BY <1>1, RegisterFields
  <2> HIDE DEF n
  <2>3. mgr' = [n EXCEPT !.pending = n.pending \cup {"launch"}]
    BY <2>1 DEF n, Submit
  <2>4. n.pending \cup {"launch"} \in SUBSET Txs
    BY <2>2 DEF Managers, Txs
  <2>5. /\ mgr' \in Managers /\ mgr'.watched = n.watched /\ mgr'.birth = n.birth
        /\ mgr'.spent = n.spent /\ mgr'.present = n.present /\ mgr'.vanished = n.vanished
    BY <2>2, <2>3, <2>4 DEF Managers
  <2>6. /\ UNCHANGED <<chain, view, abandoned, poll, seen, top, undone, lost>>
        /\ launched' = TRUE /\ ~abandoned
    BY <1>2 DEF Launch, bounds
  <2>7. TypeOK' /\ ChainSound'
    BY <1>1, <2>5, <2>6 DEF TypeOK, ChainSound
  <2>8. Settled'
    BY <1>1, <2>2, <2>5, <2>6 DEF Settled
  <2> QED
    BY <2>7, <2>8 DEF BasicInv
<1>3. CASE Rewatch
  <2>1. mgr' = RegisterWatch(mgr, "b", TRUE) /\ "b" \in mgr.watched
    BY <1>3 DEF Rewatch
  <2>2. /\ mgr' \in Managers /\ mgr'.watched = mgr.watched \cup {"b"}
        /\ mgr'.birth = mgr.birth /\ mgr'.spent = mgr.spent
        /\ mgr'.pending = mgr.pending /\ mgr'.submitted = mgr.submitted
        /\ mgr'.present = mgr.present /\ mgr'.vanished = mgr.vanished
    <3>1. TRUE \in BOOLEAN
      OBVIOUS
    <3> QED
      BY <1>1, <2>1, <3>1, RegisterFields
  <2>3. UNCHANGED <<chain, view, launched, abandoned, poll, seen, top, undone, lost>>
    BY <1>3 DEF Rewatch, bounds, host
  <2>4. TypeOK' /\ ChainSound'
    BY <1>1, <2>2, <2>3 DEF TypeOK, ChainSound
  <2>5. Settled'
    BY <1>1, <2>1, <2>2, <2>3 DEF Settled
  <2> QED
    BY <2>4, <2>5 DEF BasicInv
<1>4. CASE Abandon
  <2> DEFINE f == Forget(mgr, Coins)
  <2>1. /\ f \in Managers /\ f.watched = mgr.watched \ Coins
        /\ f.vanished = mgr.vanished \ Coins
        /\ \A c \in Coins : f.birth[c] = 0 /\ f.spent[c] = 0
    BY <1>1, ForgetFields
  <2> HIDE DEF f
  <2>2. mgr' = [f EXCEPT !.pending = {}, !.submitted = {}, !.landed = {}]
    BY <1>4 DEF Abandon, DiscardLocalArtifacts, f
  <2>3. /\ mgr' \in Managers /\ mgr'.watched = f.watched /\ mgr'.birth = f.birth
        /\ mgr'.spent = f.spent /\ mgr'.vanished = f.vanished
        /\ mgr'.pending = {} /\ mgr'.submitted = {}
    BY <2>1, <2>2 DEF Managers
  <2>4. mgr.watched \ Coins = {} /\ mgr.vanished \ Coins = {}
    BY <1>1 DEF Managers
  <2>5. /\ UNCHANGED <<chain, view, launched, poll, seen, top, undone, lost>>
        /\ abandoned' = TRUE
    BY <1>4 DEF Abandon, bounds
  <2>6. TypeOK' /\ ChainSound'
    BY <1>1, <2>3, <2>5 DEF TypeOK, ChainSound
  <2>7. Settled'
    BY <1>1, <2>1, <2>3, <2>4, <2>5 DEF Settled
  <2> QED
    BY <2>6, <2>7 DEF BasicInv
<1> QED
  BY <1>2, <1>3, <1>4

\* A poll of the height.
LEMMA BasicHeightPoll ==
    ASSUME BasicInv, HeightPoll
    PROVE  BasicInv'
<1>1. /\ mgr \in Managers /\ Settled /\ ChainSound /\ TypeOK /\ chain.height \in Heights
  BY DEF BasicInv, TypeOK, Chains
<1>2. ReportHeight(mgr, chain.height, mgr')
  BY DEF HeightPoll
<1>3. /\ mgr' \in Managers
      /\ mgr'.watched = mgr.watched /\ mgr'.birth = mgr.birth
      /\ mgr'.submitted = mgr.submitted /\ mgr'.present = mgr.present
      /\ mgr'.vanished = mgr.vanished
      /\ \A c \in Coins : mgr'.spent[c] = mgr.spent[c] \/ mgr'.spent[c] = 0
      /\ mgr.watched = {} => mgr'.pending = mgr.pending
  BY <1>1, <1>2, HeightFields
<1>4. /\ UNCHANGED <<chain, view, launched, abandoned, top, undone, lost>>
      /\ poll' = [poll EXCEPT !.prev = poll.peak, !.peak = chain.height]
      /\ seen' = "height"
  BY DEF HeightPoll, bounds, host
<1>5. poll' \in [peak : Heights, prev : Heights, observed : SUBSET Coins]
  BY <1>1, <1>4 DEF TypeOK
<1>6. TypeOK' /\ ChainSound'
  BY <1>1, <1>3, <1>4, <1>5 DEF TypeOK, ChainSound
<1>7. Settled'
  BY <1>1, <1>3, <1>4 DEF Settled
<1> QED
  BY <1>6, <1>7 DEF BasicInv

\* A coin is on chain and unspent.
LiveNow(c) == chain.created[c] # 0 /\ chain.spent[c] = 0

\* A forwarded poll of the coins, coin by coin: rolled is the manager once the
\* rollback is taken, mature the one before the confirmed spends are evicted.
PollResult(rolled, mature, created, deleted) ==
    /\ rolled.present = mgr.present /\ rolled.watched = mgr.watched
    /\ mature.watched = mgr.watched
    /\ mature.last = poll.peak /\ mature.snap = poll.peak
    /\ poll.peak < mgr.snap => mature.rollback = poll.peak
    /\ ~(poll.peak < mgr.snap) =>
         \/ mature.rollback = 0
         \/ mature.rollback = mgr.rollback /\ mature.rollback >= poll.peak
    /\ \A c \in Coins :
         /\ rolled.birth[c] = IF c \in RolledBack(mgr, poll.peak) THEN 0 ELSE mgr.birth[c]
         /\ rolled.spent[c] = mgr.spent[c] \/ rolled.spent[c] = 0
         /\ c \in rolled.vanished <=> /\ c \in mgr.vanished \cup RolledBack(mgr, poll.peak)
                                      /\ ~(poll.peak < mgr.snap /\ chain.created[c] # 0)
         /\ c \in created <=>
              \/ c \in mgr.watched /\ LiveNow(c) /\ c \notin mgr.present
              \/ /\ c \in mgr.watched /\ c \notin mgr.present
                 /\ chain.spent[c] # 0 /\ rolled.spent[c] = 0
         /\ c \in deleted <=>
              \/ /\ c \in mgr.present /\ ~(c \in mgr.watched /\ LiveNow(c))
                 /\ c \notin rolled.vanished
              \/ /\ c \in mgr.watched /\ c \notin mgr.present
                 /\ chain.spent[c] # 0 /\ rolled.spent[c] = 0
         /\ c \in mature.present <=> c \in mgr.watched /\ LiveNow(c)
         /\ c \in mature.vanished <=> c \in rolled.vanished /\ c \notin created
         /\ mature.birth[c] = IF c \in mgr.watched /\ chain.created[c] # 0
                              THEN chain.created[c] ELSE rolled.birth[c]
         /\ mature.spent[c] =
              IF c \in mgr.watched /\ chain.spent[c] # 0 THEN chain.spent[c]
              ELSE IF c \in deleted /\ rolled.spent[c] = 0 THEN poll.peak
              ELSE rolled.spent[c]
         /\ mature.claimed[c] /\ ~mgr.claimed[c] => Ripe(mature, c, poll.peak)
         /\ view'[c] = IF c \in deleted THEN Real(c)
                       ELSE IF c \in created THEN "Live" ELSE view[c]
    /\ mgr' = EvictConfirmedSpends(mature, poll.peak)

\* runCoinPoll and report_coin_states do what PollResult says.
LEMMA ForwardedPoll ==
    ASSUME BasicInv, CoinPoll, Forwarded
    PROVE  \E rolled, mature \in Managers : \E created, deleted \in SUBSET Coins :
               PollResult(rolled, mature, created, deleted)
<1> DEFINE rec == GetCoinStates(chain)
<1>1. mgr \in Managers /\ chain \in Chains /\ poll.peak \in Heights
  BY DEF BasicInv, TypeOK
<1>2. PICK created, deleted \in SUBSET Coins :
        /\ ReportCoinStates(mgr, poll.peak, rec, created, deleted, mgr')
        /\ view' = [c \in Coins |-> IF c \in deleted THEN Real(c)
                                    ELSE IF c \in created THEN "Live" ELSE view[c]]
  BY DEF CoinPoll
<1>3. rec \in Records
  BY <1>1, GetCoinStatesFields
<1>4. \A c \in Coins : rec[c].created = chain.created[c] /\ rec[c].spent = chain.spent[c]
  BY <1>1, GetCoinStatesFields
<1> HIDE DEF rec
<1>5. PICK rolled \in Managers, mature \in Managers :
             /\ rolled = TakeRollback(mgr, poll.peak, rec)
             /\ created = Created(mgr, rolled, rec)
             /\ deleted = Deleted(mgr, rolled, rec)
             /\ mature.watched = mgr.watched
             /\ mature.last = poll.peak /\ mature.snap = poll.peak
             /\ mature.rollback = rolled.rollback
             /\ mature.present = PresentNow(mgr, rec)
             /\ mature.vanished = rolled.vanished \ created
             /\ \A c \in Coins : mature.birth[c] = IF c \in mgr.watched /\ rec[c].created # 0
                                                 THEN rec[c].created ELSE rolled.birth[c]
             /\ \A c \in Coins : mature.spent[c] =
                  IF c \in mgr.watched /\ rec[c].spent # 0 THEN rec[c].spent
                  ELSE IF c \in deleted /\ rolled.spent[c] = 0 THEN poll.peak
                  ELSE rolled.spent[c]
             /\ \A c \in Coins : mature.claimed[c] /\ ~mgr.claimed[c]
                                 => Ripe(mature, c, poll.peak)
             /\ mgr' = EvictConfirmedSpends(mature, poll.peak)
  BY <1>1, <1>2, <1>3, ReportFields
<1>6. /\ rolled.watched = mgr.watched /\ rolled.present = mgr.present
      /\ \A c \in Coins : rolled.birth[c] = IF c \in RolledBack(mgr, poll.peak) THEN 0
                                            ELSE mgr.birth[c]
      /\ rolled.vanished = {c \in mgr.vanished \cup RolledBack(mgr, poll.peak) :
                              ~(poll.peak < mgr.snap /\ rec[c].created # 0)}
      /\ \A c \in Coins : rolled.spent[c] = mgr.spent[c] \/ rolled.spent[c] = 0
      /\ poll.peak < mgr.snap => rolled.rollback = poll.peak
      /\ ~(poll.peak < mgr.snap) =>
           \/ rolled.rollback = 0
           \/ rolled.rollback = mgr.rollback /\ rolled.rollback >= poll.peak
  BY <1>1, <1>3, <1>5, TakeRollbackFields
<1>7. \A c \in Coins :
           /\ c \in rolled.vanished <=> /\ c \in mgr.vanished \cup RolledBack(mgr, poll.peak)
                                        /\ ~(poll.peak < mgr.snap /\ chain.created[c] # 0)
           /\ c \in PresentNow(mgr, rec) <=> c \in mgr.watched /\ LiveNow(c)
           /\ c \in FirstSeenSpent(rolled, rec) <=>
                /\ c \in mgr.watched /\ c \notin mgr.present
                /\ chain.spent[c] # 0 /\ rolled.spent[c] = 0
  BY <1>4, <1>6 DEF PresentNow, FirstSeenSpent, LiveNow
<1>8. \A c \in Coins :
           /\ c \in created <=>
                \/ c \in PresentNow(mgr, rec) /\ c \notin mgr.present
                \/ c \in FirstSeenSpent(rolled, rec)
           /\ c \in deleted <=>
                \/ /\ c \in mgr.present /\ c \notin PresentNow(mgr, rec)
                   /\ c \notin rolled.vanished
                \/ c \in FirstSeenSpent(rolled, rec)
  BY <1>5 DEF Created, Deleted
<1>9. \A c \in Coins :
           /\ c \in created <=>
                \/ c \in mgr.watched /\ LiveNow(c) /\ c \notin mgr.present
                \/ /\ c \in mgr.watched /\ c \notin mgr.present
                   /\ chain.spent[c] # 0 /\ rolled.spent[c] = 0
           /\ c \in deleted <=>
                \/ /\ c \in mgr.present /\ ~(c \in mgr.watched /\ LiveNow(c))
                   /\ c \notin rolled.vanished
                \/ /\ c \in mgr.watched /\ c \notin mgr.present
                   /\ chain.spent[c] # 0 /\ rolled.spent[c] = 0
  BY <1>7, <1>8
<1>10. \A c \in Coins :
           /\ mature.birth[c] = IF c \in mgr.watched /\ chain.created[c] # 0
                                THEN chain.created[c] ELSE rolled.birth[c]
           /\ mature.spent[c] =
                IF c \in mgr.watched /\ chain.spent[c] # 0 THEN chain.spent[c]
                ELSE IF c \in deleted /\ rolled.spent[c] = 0 THEN poll.peak
                ELSE rolled.spent[c]
  BY <1>4, <1>5
<1>11. \A c \in Coins : view'[c] = IF c \in deleted THEN Real(c)
                                   ELSE IF c \in created THEN "Live" ELSE view[c]
  BY <1>2
<1>12. \A c \in Coins : /\ c \in mature.present <=> c \in mgr.watched /\ LiveNow(c)
                        /\ c \in mature.vanished <=> c \in rolled.vanished /\ c \notin created
  BY <1>5, <1>7
<1>13. /\ poll.peak < mgr.snap => mature.rollback = poll.peak
       /\ ~(poll.peak < mgr.snap) =>
           \/ mature.rollback = 0
           \/ mature.rollback = mgr.rollback /\ mature.rollback >= poll.peak
  BY <1>5, <1>6
<1>14. /\ rolled.present = mgr.present /\ rolled.watched = mgr.watched
       /\ mature.watched = mgr.watched
       /\ mature.last = poll.peak /\ mature.snap = poll.peak
       /\ mgr' = EvictConfirmedSpends(mature, poll.peak)
  BY <1>5, <1>6
<1>15. PollResult(rolled, mature, created, deleted)
  BY <1>5, <1>6, <1>7, <1>9, <1>10, <1>11, <1>12, <1>13, <1>14, Zenon DEF PollResult
<1> QED
  BY <1>15, Zenon

\* A poll of the coins.
LEMMA BasicCoinPoll ==
    ASSUME BasicInv, CoinPoll
    PROVE  BasicInv'
<1>1. /\ mgr \in Managers /\ Settled /\ ChainSound /\ TypeOK /\ poll.peak \in Heights
      /\ chain \in Chains
  BY DEF BasicInv, TypeOK
<1>2. /\ UNCHANGED <<chain, launched, abandoned, top, lost>>
      /\ poll' = [poll EXCEPT !.observed = @ \cup {c \in mgr.watched : OnChain(c)}]
      /\ seen' = IF seen = "height" THEN "coins" ELSE seen
      /\ undone' = (undone /\ seen # "height")
  BY DEF CoinPoll, host, bounds
<1>3. poll' \in [peak : Heights, prev : Heights, observed : SUBSET Coins]
  <2>1. {c \in mgr.watched : OnChain(c)} \in SUBSET Coins
    BY <1>1 DEF Managers
  <2> QED
    BY <1>1, <1>2, <2>1 DEF TypeOK
<1>4. seen' \in {"nothing", "height", "coins"} /\ undone' \in BOOLEAN
  BY <1>1, <1>2 DEF TypeOK
<1>5. ChainSound'
  BY <1>1, <1>2 DEF ChainSound
<1>6. CASE ~Forwarded
  <2>1. UNCHANGED <<mgr, view>>
    BY <1>6 DEF CoinPoll
  <2>2. TypeOK'
    BY <1>1, <1>2, <1>3, <1>4, <2>1 DEF TypeOK
  <2>3. Settled'
    BY <1>1, <1>2, <2>1 DEF Settled
  <2> QED
    BY <1>5, <2>2, <2>3 DEF BasicInv
<1>7. CASE Forwarded
  <2>1. PICK rolled \in Managers, mature \in Managers,
             created \in SUBSET Coins, deleted \in SUBSET Coins :
               PollResult(rolled, mature, created, deleted)
    BY <1>7, ForwardedPoll
  <2>2. mgr' = EvictConfirmedSpends(mature, poll.peak) /\ mature.watched = mgr.watched
    BY <2>1 DEF PollResult
  <2>3. /\ mgr' \in Managers
        /\ mgr'.watched = mature.watched \ Buried(mature, poll.peak)
        /\ mgr'.vanished = mature.vanished \ Buried(mature, poll.peak)
        /\ mgr'.present = mature.present \ Buried(mature, poll.peak)
        /\ \A c \in Coins : mgr'.birth[c] = IF c \in Buried(mature, poll.peak) THEN 0
                                            ELSE mature.birth[c]
        /\ \A c \in Coins : mgr'.spent[c] = IF c \in Buried(mature, poll.peak) THEN 0
                                            ELSE mature.spent[c]
    BY <1>1, <2>2, EvictFields
  <2>4. view' \in [Coins -> Txs \cup {"Absent", "Live"}]
    <3>1. \A c \in Coins : Real(c) \in Txs \cup {"Absent", "Live"}
      BY <1>1 DEF Real, Chains
    <3>2. view' = [c \in Coins |-> view'[c]]
      BY <1>7 DEF CoinPoll
    <3>3. \A c \in Coins : view'[c] \in Txs \cup {"Absent", "Live"}
      BY <1>1, <2>1, <3>1 DEF PollResult, TypeOK
    <3> QED
      BY <3>2, <3>3
  <2>5. TypeOK'
    BY <1>1, <1>2, <1>3, <1>4, <2>3, <2>4 DEF TypeOK
  <2>6. ~abandoned /\ launched \in BOOLEAN /\ abandoned \in BOOLEAN
        /\ mgr.present \subseteq mgr.watched
    BY <1>1, <1>7 DEF Forwarded, Settled
  <2>7. \A c \in Coins : c \notin mgr.watched =>
          mature.birth[c] = 0 /\ mature.spent[c] = 0 /\ c \notin mature.vanished
    <3> SUFFICES ASSUME NEW c \in Coins, c \notin mgr.watched
                 PROVE  mature.birth[c] = 0 /\ mature.spent[c] = 0 /\ c \notin mature.vanished
      OBVIOUS
    <3>1. mgr.birth[c] = 0 /\ mgr.spent[c] = 0 /\ c \notin mgr.vanished
      BY <1>1 DEF Settled
    <3>2. c \notin RolledBack(mgr, poll.peak)
      BY DEF RolledBack
    <3> QED
      BY <2>1, <2>6, <3>1, <3>2 DEF PollResult
  <2>8. mature.present \subseteq mgr.watched
    BY <2>1 DEF PollResult, Managers
  <2>9. Settled'
    <3>1. mgr'.present \subseteq mgr'.watched
      BY <2>2, <2>3, <2>8
    <3>2. \A c \in Coins \ mgr'.watched :
            mgr'.birth[c] = 0 /\ mgr'.spent[c] = 0 /\ c \notin mgr'.vanished
      BY <2>2, <2>3, <2>7
    <3> QED
      BY <1>2, <2>6, <3>1, <3>2 DEF Settled
  <2> QED
    BY <1>5, <2>5, <2>9 DEF BasicInv
<1> QED
  BY <1>6, <1>7

\* A queue drained or refilled.
LEMMA QueueFields ==
    ASSUME NEW m \in Managers
    PROVE  /\ DrainSubmissions(m) \in Managers /\ RequeueSubmitted(m) \in Managers
           /\ \A n \in {DrainSubmissions(m), RequeueSubmitted(m)} :
                /\ n.watched = m.watched /\ n.birth = m.birth /\ n.spent = m.spent
                /\ n.claim = m.claim /\ n.claimed = m.claimed
                /\ n.present = m.present /\ n.vanished = m.vanished
                /\ n.last = m.last /\ n.snap = m.snap /\ n.rollback = m.rollback
                /\ m.pending = {} /\ m.submitted = {} => n.pending = {} /\ n.submitted = {}
<1>1. DrainSubmissions(m) \in Managers
  BY DEF DrainSubmissions, Managers
<1>2. RequeueSubmitted(m) \in Managers
  BY DEF RequeueSubmitted, Managers
<1>3. ASSUME NEW n, n = DrainSubmissions(m)
      PROVE  /\ n.watched = m.watched /\ n.birth = m.birth /\ n.spent = m.spent
             /\ n.claim = m.claim /\ n.claimed = m.claimed
             /\ n.present = m.present /\ n.vanished = m.vanished
             /\ n.last = m.last /\ n.snap = m.snap /\ n.rollback = m.rollback
             /\ m.pending = {} /\ m.submitted = {} => n.pending = {} /\ n.submitted = {}
  BY <1>3 DEF DrainSubmissions, Managers
<1>4. ASSUME NEW n, n = RequeueSubmitted(m)
      PROVE  /\ n.watched = m.watched /\ n.birth = m.birth /\ n.spent = m.spent
             /\ n.claim = m.claim /\ n.claimed = m.claimed
             /\ n.present = m.present /\ n.vanished = m.vanished
             /\ n.last = m.last /\ n.snap = m.snap /\ n.rollback = m.rollback
             /\ m.pending = {} /\ m.submitted = {} => n.pending = {} /\ n.submitted = {}
  BY <1>4 DEF RequeueSubmitted, Managers
<1> QED
  BY <1>1, <1>2, <1>3, <1>4

\* The host's other actions leave the heights of the chain alone.
LEMMA HostChain ==
    ASSUME BasicInv, Drain \/ DrainLost \/ Resubmit \/ Reload \/ \E t \in Rivals : PushRival(t)
    PROVE  /\ chain' \in Chains /\ chain'.height = chain.height
           /\ chain'.created = chain.created /\ chain'.spent = chain.spent
           /\ chain'.by = chain.by
           /\ \A u \in chain'.mempool : Unspent(chain, Input(u))
<1>1. chain \in Chains /\ \A u \in chain.mempool : Unspent(chain, Input(u))
  BY DEF BasicInv, TypeOK, ChainSound
<1>2. CASE Drain \/ Resubmit
  <2>1. PICK m \in {mgr, RequeueSubmitted(mgr)} : Submitted(m)
    BY <1>2 DEF Drain, Resubmit
  <2> DEFINE push == UNION {PushTransaction(chain, t).mempool : t \in m.pending}
             mem  == chain.mempool \cup push
  <2>2. chain' = [chain EXCEPT !.mempool = mem]
    BY <2>1 DEF Submitted
  <2>3. m.pending \subseteq Txs
    <3>1. mgr \in Managers
      BY DEF BasicInv, TypeOK
    <3>2. m \in Managers
      BY <3>1, QueueFields
    <3> QED
      BY <3>2 DEF Managers
  <2>4. \A u \in push : u \in Txs /\ Unspent(chain, Input(u))
    <3> SUFFICES ASSUME NEW t \in m.pending, NEW u \in PushTransaction(chain, t).mempool
                 PROVE  u \in Txs /\ Unspent(chain, Input(u))
      OBVIOUS
    <3>1. t \in Txs
      BY <2>3
    <3>2. /\ PushTransaction(chain, t) \in Chains
          /\ \A v \in PushTransaction(chain, t).mempool :
                v \in chain.mempool \/ Unspent(chain, Input(v))
      BY <1>1, <3>1, PushFields
    <3> QED
      BY <1>1, <3>2 DEF Chains
  <2> HIDE DEF push
  <2>5. mem \subseteq Txs /\ \A u \in mem : Unspent(chain, Input(u))
    BY <1>1, <2>4 DEF Chains
  <2> HIDE DEF mem
  <2> QED
    BY <1>1, <2>2, <2>5 DEF Chains
<1>3. CASE DrainLost \/ Reload
  BY <1>1, <1>3 DEF DrainLost, Reload
<1>4. CASE \E t \in Rivals : PushRival(t)
  <2>1. PICK t \in Rivals : chain' = PushTransaction(chain, t)
    BY <1>4 DEF PushRival
  <2>2. t \in Txs
    BY WatchAssumption DEF Txs
  <2> QED
    BY <1>1, <2>1, <2>2, PushFields
<1> QED
  BY <1>2, <1>3, <1>4

\* And they leave what the manager knows of the chain.
LEMMA HostManager ==
    ASSUME BasicInv, Drain \/ DrainLost \/ Resubmit \/ Reload \/ \E t \in Rivals : PushRival(t)
    PROVE  /\ mgr' \in Managers /\ mgr'.watched = mgr.watched
           /\ mgr'.birth = mgr.birth /\ mgr'.spent = mgr.spent
           /\ mgr'.claimed = mgr.claimed
           /\ mgr'.present = mgr.present /\ mgr'.vanished = mgr.vanished
           /\ mgr'.last = mgr.last /\ mgr'.snap = mgr.snap /\ mgr'.rollback = mgr.rollback
           /\ mgr.pending = {} /\ mgr.submitted = {} => mgr'.pending = {} /\ mgr'.submitted = {}
<1>1. mgr \in Managers
  BY DEF BasicInv, TypeOK
<1>2. CASE Drain \/ DrainLost
  <2>1. mgr' = DrainSubmissions(mgr)
    BY <1>2 DEF Drain, DrainLost, Submitted
  <2> QED
    BY <1>1, <2>1, QueueFields
<1>3. CASE Resubmit
  <2> DEFINE m == RequeueSubmitted(mgr)
  <2>1. mgr' = DrainSubmissions(m)
    BY <1>3 DEF Resubmit, Submitted
  <2>2. /\ m \in Managers /\ m.watched = mgr.watched
        /\ m.birth = mgr.birth /\ m.spent = mgr.spent /\ m.claimed = mgr.claimed
        /\ m.present = mgr.present /\ m.vanished = mgr.vanished
        /\ m.last = mgr.last /\ m.snap = mgr.snap /\ m.rollback = mgr.rollback
        /\ mgr.pending = {} /\ mgr.submitted = {} => m.pending = {} /\ m.submitted = {}
    BY <1>1, QueueFields
  <2> HIDE DEF m
  <2> QED
    BY <2>1, <2>2, QueueFields
<1>4. CASE Reload \/ \E t \in Rivals : PushRival(t)
  BY <1>1, <1>4 DEF Reload, PushRival
<1> QED
  BY <1>2, <1>3, <1>4

\* The rest is unchanged, but for a poller that is new after a reload.
LEMMA HostRest ==
    ASSUME BasicInv, Drain \/ DrainLost \/ Resubmit \/ Reload \/ \E t \in Rivals : PushRival(t)
    PROVE  /\ UNCHANGED <<view, launched, abandoned, top, undone>>
           /\ \/ UNCHANGED <<poll, seen>>
              \/ poll' = NewPoller /\ seen' = "nothing"
           /\ lost' \subseteq Txs
<1>1. lost \subseteq Txs /\ mgr.pending \subseteq Txs
  BY DEF BasicInv, TypeOK, Managers
<1> QED
  BY <1>1 DEF Drain, DrainLost, Resubmit, Submitted, Reload, PushRival, host, bounds

\* So the basic invariant holds after them.
LEMMA BasicHost ==
    ASSUME BasicInv, Drain \/ DrainLost \/ Resubmit \/ Reload \/ \E t \in Rivals : PushRival(t)
    PROVE  BasicInv'
<1>1. TypeOK /\ ChainSound /\ Settled
  BY DEF BasicInv
<1>2. NewPoller \in [peak : Heights, prev : Heights, observed : SUBSET Coins]
  BY HeightsNat DEF NewPoller
<1>3. TypeOK'
  BY <1>1, <1>2, HostChain, HostManager, HostRest DEF TypeOK
<1>4. ChainSound'
  BY <1>1, HostChain, HostRest DEF ChainSound, Unspent
<1>5. Settled'
  BY <1>1, HostManager, HostRest DEF Settled
<1> QED
  BY <1>3, <1>4, <1>5 DEF BasicInv

\* A block.
LEMMA BasicFarm ==
    ASSUME BasicInv, Farm
    PROVE  BasicInv'
<1>1. TypeOK /\ ChainSound /\ Settled /\ chain \in Chains
  BY DEF BasicInv, TypeOK
<1>2. /\ chain' = FarmBlock(chain) /\ chain.height < MaxHeight /\ seen' = "nothing"
      /\ top' = IF chain'.height > top THEN chain'.height ELSE top
      /\ UNCHANGED <<mgr, view, launched, abandoned, poll, undone, lost>>
  BY DEF Farm, host
<1>3. \A t \in chain.mempool : Unspent(chain, Input(t))
  BY <1>1 DEF ChainSound
<1>4. /\ chain' \in Chains
      /\ chain'.height = chain.height + 1 /\ chain'.mempool = {}
      /\ \A c \in Coins : \/ chain'.spent[c] = chain.spent[c] /\ chain'.by[c] = chain.by[c]
                          \/ Unspent(chain, c) /\ chain'.spent[c] = chain.height + 1
      /\ chain'.created["a"] = chain.created["a"]
      /\ \/ chain'.created["b"] = chain.created["b"]
         \/ /\ Unspent(chain, "a") /\ chain'.created["b"] = chain.height + 1
            /\ chain'.spent["a"] = chain.height + 1
  BY <1>1, <1>2, <1>3, FarmFields
<1>5. /\ chain.height \in Nat /\ top \in Nat /\ chain.height <= top /\ chain.height # 0
      /\ \A c \in Coins : /\ chain.created[c] \in Nat /\ chain.spent[c] \in Nat
                          /\ chain'.created[c] \in Nat /\ chain'.spent[c] \in Nat
  BY <1>1, <1>4, HeightsNat DEF Chains, ChainSound
<1>6. TypeOK'
  BY <1>1, <1>2, <1>4 DEF TypeOK
<1>7. ChainSound'
  BY <1>1, <1>2, <1>4, <1>5 DEF ChainSound, Unspent, Coins
<1>8. Settled'
  BY <1>1, <1>2 DEF Settled
<1> QED
  BY <1>6, <1>7, <1>8 DEF BasicInv

\* A reorganisation.
LEMMA BasicReorganise ==
    ASSUME BasicInv, Reorganise
    PROVE  BasicInv'
<1>1. TypeOK /\ ChainSound /\ Settled /\ chain \in Chains
  BY DEF BasicInv, TypeOK
<1>2. PICK h \in 1..(chain.height - 1) : top - h <= MaxRollback /\ chain' = Reorg(chain, h)
  BY DEF Reorganise
<1>3. /\ seen' = "nothing" /\ undone' = TRUE
      /\ UNCHANGED <<mgr, view, launched, abandoned, poll, top, lost>>
  BY DEF Reorganise, host
<1>4. chain.height \in Heights
  BY <1>1 DEF Chains
<1>5. h \in Heights /\ h \in Nat /\ h # 0 /\ h < chain.height
  BY <1>4, ChainAssumption DEF Heights
<1>6. /\ chain' \in Chains /\ chain'.height = h
      /\ \A c \in Coins : chain'.created[c] = IF chain.created[c] > h THEN 0
                                              ELSE chain.created[c]
      /\ \A c \in Coins : chain'.spent[c] = IF chain.spent[c] > h THEN 0 ELSE chain.spent[c]
      /\ \A t \in chain'.mempool : Unspent(chain', Input(t))
  BY <1>1, <1>2, <1>5, ReorgFields
<1>7. /\ chain.height \in Nat /\ top \in Nat /\ chain.height <= top
      /\ \A c \in Coins : chain.created[c] \in Nat /\ chain.spent[c] \in Nat
  BY <1>1, HeightsNat DEF Chains, ChainSound
<1>8. TypeOK'
  BY <1>1, <1>3, <1>6 DEF TypeOK
<1>9. ChainSound'
  <2>1. \A t \in (chain').mempool : Unspent(chain, Input(t))'
    BY <1>6 DEF Unspent, Input
  <2>2. /\ chain'.created["a"] = 1
        /\ \A c \in Coins : chain'.created[c] <= h /\ chain'.spent[c] <= h
        /\ \A c \in Coins : chain'.spent[c] # 0 =>
             chain'.created[c] # 0 /\ chain'.created[c] <= chain'.spent[c]
        /\ chain'.created["b"] # 0 => chain'.spent["a"] = chain'.created["b"]
    BY <1>1, <1>5, <1>6, <1>7 DEF ChainSound, Coins
  <2> QED
    BY <1>3, <1>5, <1>6, <1>7, <2>1, <2>2 DEF ChainSound
<1>10. Settled'
  BY <1>1, <1>3 DEF Settled
<1> QED
  BY <1>8, <1>9, <1>10 DEF BasicInv

\* Whatever the poller sees, the fields keep their types, the chain is a
\* history, and an abandoned session submits nothing.
THEOREM BasicInvariance == Spec => []BasicInv
<1>1. BasicInv /\ [Next]_vars => BasicInv'
  <2> SUFFICES ASSUME BasicInv, [Next]_vars PROVE BasicInv'
    OBVIOUS
  <2>1. CASE Launch \/ Rewatch \/ Abandon
    BY <2>1, BasicSession
  <2>2. CASE HeightPoll
    BY <2>2, BasicHeightPoll
  <2>3. CASE CoinPoll
    BY <2>3, BasicCoinPoll
  <2>4. CASE Drain \/ DrainLost \/ Resubmit \/ Reload \/ \E t \in Rivals : PushRival(t)
    BY <2>4, BasicHost
  <2>5. CASE Farm
    BY <2>5, BasicFarm
  <2>6. CASE Reorganise
    BY <2>6, BasicReorganise
  <2>7. CASE UNCHANGED vars
    BY <2>7 DEF vars, BasicInv, TypeOK, ChainSound, Settled, Unspent
  <2> QED
    BY <2>1, <2>2, <2>3, <2>4, <2>5, <2>6, <2>7 DEF Next
<1> QED
  BY <1>1, BasicInit, PTL DEF Spec

\* An abandoned session hands nothing to the network, whatever is polled,
\* drained or requeued after flush_and_collect has discarded its artifacts.
THEOREM AbandonedStaysQuiet == Spec => []AbandonedIsQuiet
<1>1. BasicInv => AbandonedIsQuiet
  BY DEF BasicInv, Settled, AbandonedIsQuiet
<1> QED
  BY <1>1, BasicInvariance, PTL

-----------------------------------------------------------------------------
(***************************************************************************)
(* What holds of a poller that sees every reorganisation.                  *)
(***************************************************************************)

\* The numbers the invariants compare.
LEMMA Numbers ==
    ASSUME BasicInv
    PROVE  /\ chain.height \in Nat /\ top \in Nat
           /\ poll.peak \in Nat /\ poll.prev \in Nat
           /\ mgr.last \in Nat /\ mgr.snap \in Nat /\ mgr.rollback \in Nat
           /\ \A c \in Coins : /\ chain.created[c] \in Nat /\ chain.spent[c] \in Nat
                               /\ mgr.birth[c] \in Nat /\ mgr.spent[c] \in Nat
           /\ ConfirmationDepth \in Nat /\ Timeout \in Nat
BY HeightsNat, DepthAssumption, ChainAssumption
   DEF BasicInv, TypeOK, ChainSound, Chains, Managers

\* The initial states.
LEMMA WatchInit == Init => WatchInv
<1> SUFFICES ASSUME Init PROVE WatchInv
  OBVIOUS
<1>1. /\ mgr.watched = {"a"} /\ mgr.present = {} /\ mgr.last = 0 /\ mgr.snap = 0
      /\ mgr.rollback = 0
      /\ \A c \in Coins : mgr.birth[c] = 0 /\ mgr.spent[c] = 0
  BY InitManager DEF Init
<1>2. PollerKnows
  BY <1>1 DEF Init, NewPoller, PollerKnows, Genesis
<1>3. LetGoIsBuried
  BY <1>1 DEF Init, LetGoIsBuried
<1> QED
  BY <1>1, <1>2, <1>3
     DEF WatchInv, BirthdaysTrue, SnapshotCovers, SpendsTrue, RollbackEpoch, LiveIsTold, Init

\* What a poll of the coins is worth: while a reorganisation is unseen, the
\* height has just been asked for.
LEMMA PollIsCurrent ==
    ASSUME Attentive, BasicInv, WatchInv, CoinPoll
    PROVE  /\ poll.peak <= chain.height /\ mgr.last = poll.peak /\ poll.peak # 0
           /\ undone => seen = "height" /\ poll.peak = chain.height
           /\ seen # "nothing" => poll.peak = chain.height
           /\ undone /\ mgr.watched # {} => Forwarded
<1>1. PollerKnows /\ TypeOK
  BY DEF WatchInv, BasicInv
<1>2. poll.peak # 0 /\ (undone => seen # "nothing")
  BY DEF CoinPoll
<1>3. undone => seen = "height"
  BY <1>1, <1>2 DEF PollerKnows, TypeOK
<1>4. undone /\ mgr.watched # {} => Forwarded
  BY <1>1, <1>3 DEF PollerKnows, Forwarded
<1>5. undone \in BOOLEAN /\ chain.height \in Nat
  BY <1>1, Numbers DEF TypeOK
<1> QED
  BY <1>1, <1>2, <1>3, <1>4, <1>5 DEF PollerKnows

\* A forwarded poll tells the session exactly what the chain holds of the
\* coins watched, and leaves the manager with true heights.
LEMMA PollTells ==
    ASSUME Attentive, BasicInv, WatchInv, CoinPoll, Forwarded,
           NEW rolled \in Managers, NEW mature \in Managers,
           NEW created \in SUBSET Coins, NEW deleted \in SUBSET Coins,
           PollResult(rolled, mature, created, deleted),
           NEW c \in Coins
    PROVE  /\ mature.birth[c] # 0 => mature.birth[c] = chain.created[c]
           /\ mature.spent[c] # 0 => /\ mature.spent[c] = chain.spent[c]
                                     /\ view'[c] = chain.by[c]
           /\ view'[c] = IF c \in mgr.watched /\ Real(c) # "Absent" THEN Real(c) ELSE view[c]
           /\ c \in mature.present => /\ view'[c] = "Live" /\ mature.birth[c] # 0
                                      /\ c \notin mature.vanished
<1> DEFINE h == poll.peak
<1>1. /\ h <= chain.height /\ mgr.last = h /\ h # 0
      /\ undone => h = chain.height
  BY PollIsCurrent
<1>2. /\ chain.height \in Nat /\ h \in Nat /\ mgr.last \in Nat /\ mgr.snap \in Nat
      /\ chain.created[c] \in Nat /\ chain.spent[c] \in Nat
      /\ mgr.birth[c] \in Nat /\ mgr.spent[c] \in Nat
  BY Numbers
<1>3. /\ mgr.birth[c] # 0 =>
           \/ mgr.birth[c] = chain.created[c]
           \/ chain.created[c] = 0 /\ mgr.birth[c] > h /\ mgr.snap > h
      /\ mgr.spent[c] # 0 => mgr.spent[c] = chain.spent[c] /\ view[c] = chain.by[c]
  BY <1>1, <1>2 DEF WatchInv, BirthdaysTrue, SpendsTrue
<1>4. /\ c \in mgr.present => /\ view[c] = "Live" /\ c \in mgr.watched
                              /\ mgr.birth[c] # 0 /\ c \notin mgr.vanished
      /\ c \notin mgr.watched => mgr.birth[c] = 0 /\ mgr.spent[c] = 0
      /\ chain.spent[c] # 0 => chain.created[c] # 0
      /\ chain.by[c] \notin {"Absent", "Live"}
  BY DEF WatchInv, LiveIsTold, BasicInv, Settled, Forwarded, ChainSound, TypeOK, Chains, Txs
<1>5. /\ rolled.birth[c] = IF c \in RolledBack(mgr, h) THEN 0 ELSE mgr.birth[c]
      /\ rolled.spent[c] = mgr.spent[c] \/ rolled.spent[c] = 0
      /\ c \in rolled.vanished <=> /\ c \in mgr.vanished \cup RolledBack(mgr, h)
                                   /\ ~(h < mgr.snap /\ chain.created[c] # 0)
      /\ c \in created <=>
           \/ c \in mgr.watched /\ LiveNow(c) /\ c \notin mgr.present
           \/ /\ c \in mgr.watched /\ c \notin mgr.present
              /\ chain.spent[c] # 0 /\ rolled.spent[c] = 0
      /\ c \in deleted <=>
           \/ /\ c \in mgr.present /\ ~(c \in mgr.watched /\ LiveNow(c))
              /\ c \notin rolled.vanished
           \/ /\ c \in mgr.watched /\ c \notin mgr.present
              /\ chain.spent[c] # 0 /\ rolled.spent[c] = 0
      /\ c \in mature.present <=> c \in mgr.watched /\ LiveNow(c)
      /\ c \in mature.vanished <=> c \in rolled.vanished /\ c \notin created
      /\ mature.birth[c] = IF c \in mgr.watched /\ chain.created[c] # 0
                           THEN chain.created[c] ELSE rolled.birth[c]
      /\ mature.spent[c] =
           IF c \in mgr.watched /\ chain.spent[c] # 0 THEN chain.spent[c]
           ELSE IF c \in deleted /\ rolled.spent[c] = 0 THEN h ELSE rolled.spent[c]
      /\ view'[c] = IF c \in deleted THEN Real(c)
                    ELSE IF c \in created THEN "Live" ELSE view[c]
  BY DEF PollResult
<1>6. c \in RolledBack(mgr, h) <=> c \in mgr.watched /\ h < mgr.snap /\ mgr.birth[c] > h
  BY DEF RolledBack
<1>7. Real(c) = IF chain.created[c] = 0 THEN "Absent"
                ELSE IF chain.spent[c] = 0 THEN "Live" ELSE chain.by[c]
  BY DEF Real, OnChain
<1>8. LiveNow(c) <=> chain.created[c] # 0 /\ chain.spent[c] = 0
  BY DEF LiveNow
<1> HIDE DEF h
<1>9. CASE chain.created[c] = 0
  BY <1>2, <1>3, <1>4, <1>5, <1>6, <1>7, <1>8, <1>9
<1>10. CASE chain.created[c] # 0 /\ chain.spent[c] = 0
  BY <1>2, <1>3, <1>4, <1>5, <1>6, <1>7, <1>8, <1>10
<1>11. CASE chain.spent[c] # 0
  BY <1>2, <1>3, <1>4, <1>5, <1>6, <1>7, <1>8, <1>11
<1> QED
  BY <1>9, <1>10, <1>11

\* The session's requests: a coin newly watched has no heights yet.
LEMMA WatchSession ==
    ASSUME BasicInv, WatchInv, Launch \/ Rewatch \/ Abandon
    PROVE  WatchInv'
<1>1. mgr \in Managers /\ Settled /\ TypeOK
  BY DEF BasicInv, TypeOK
<1>2. /\ PollerKnows /\ BirthdaysTrue /\ SnapshotCovers /\ SpendsTrue
      /\ RollbackEpoch /\ LiveIsTold /\ LetGoIsBuried
  BY DEF WatchInv
<1>3. CASE Launch \/ Rewatch
  <2>1. PICK claim \in BOOLEAN :
           mgr' \in {Submit(RegisterWatch(mgr, "b", claim), "launch"),
                     RegisterWatch(mgr, "b", claim)}
    BY <1>3 DEF Launch, Rewatch
  <2> DEFINE n == RegisterWatch(mgr, "b", claim)
  <2>2. /\ n \in Managers /\ n.watched = mgr.watched \cup {"b"}
        /\ n.birth = mgr.birth /\ n.spent = mgr.spent
        /\ n.present = mgr.present /\ n.vanished = mgr.vanished
        /\ n.last = mgr.last /\ n.snap = mgr.snap /\ n.rollback = mgr.rollback
    BY <1>1, RegisterFields
  <2>a. mgr' \in {Submit(n, "launch"), n}
    BY <2>1
  <2> HIDE DEF n
  <2>3. /\ mgr'.watched = mgr.watched \cup {"b"}
        /\ mgr'.birth = mgr.birth /\ mgr'.spent = mgr.spent
        /\ mgr'.present = mgr.present /\ mgr'.vanished = mgr.vanished
        /\ mgr'.last = mgr.last /\ mgr'.snap = mgr.snap /\ mgr'.rollback = mgr.rollback
    BY <2>2, <2>a DEF Submit, Managers
  <2>4. UNCHANGED <<chain, view, abandoned, poll, seen, top, undone>>
    BY <1>3 DEF Launch, Rewatch, bounds, host
  <2>5. \A c \in mgr.present : c \in mgr.watched \/ c \notin mgr'.watched
    BY <1>1, <1>3, <2>3 DEF Launch, Rewatch, Settled
  <2>6. LiveIsTold'
    BY <1>2, <2>3, <2>4, <2>5 DEF LiveIsTold
  <2>7. LetGoIsBuried'
    <3>1. launched' = launched \/ (launched' = TRUE /\ view["a"] = "Live" /\ ~launched
                                   /\ ~abandoned)
      BY <1>3 DEF Launch, Rewatch, host
    <3>2. ~launched /\ ~abandoned => "a" \in mgr.watched \/ view["a"] # "Live"
      BY <1>2 DEF LetGoIsBuried
    <3>3. launched \in BOOLEAN /\ abandoned \in BOOLEAN
      BY <1>1 DEF Settled
    <3>4. CASE launched' = launched
      BY <1>2, <2>3, <2>4, <3>4 DEF LetGoIsBuried
    <3>5. CASE launched' = TRUE /\ view["a"] = "Live" /\ ~launched /\ ~abandoned
      <4>1. Coins \ mgr'.watched = {}
        BY <2>3, <3>2, <3>5 DEF Coins
      <4> QED
        BY <2>4, <3>5, <4>1 DEF LetGoIsBuried
    <3> QED
      BY <3>1, <3>4, <3>5
  <2>8. PollerKnows' /\ BirthdaysTrue' /\ SnapshotCovers' /\ SpendsTrue' /\ RollbackEpoch'
    BY <1>2, <2>3, <2>4
       DEF PollerKnows, BirthdaysTrue, SnapshotCovers, SpendsTrue, RollbackEpoch
  <2> QED
    BY <2>6, <2>7, <2>8 DEF WatchInv
<1>4. CASE Abandon
  <2> DEFINE f == Forget(mgr, Coins)
  <2>1. /\ f \in Managers /\ f.watched = mgr.watched \ Coins
        /\ f.present = mgr.present
        /\ f.last = mgr.last /\ f.snap = mgr.snap /\ f.rollback = mgr.rollback
        /\ \A c \in Coins : f.birth[c] = 0 /\ f.spent[c] = 0
    BY <1>1, ForgetFields
  <2> HIDE DEF f
  <2>2. mgr' = [f EXCEPT !.pending = {}, !.submitted = {}, !.landed = {}]
    BY <1>4 DEF Abandon, DiscardLocalArtifacts, f
  <2>3. /\ mgr'.watched = f.watched /\ mgr'.birth = f.birth
        /\ mgr'.spent = f.spent /\ mgr'.present = f.present
        /\ mgr'.last = f.last /\ mgr'.snap = f.snap /\ mgr'.rollback = f.rollback
    BY <2>1, <2>2 DEF Managers
  <2>4. mgr'.watched = {}
    BY <1>1, <2>1, <2>3 DEF Managers
  <2>5. /\ UNCHANGED <<chain, view, launched, poll, seen, top, undone>>
        /\ abandoned' = TRUE
    BY <1>4 DEF Abandon, bounds
  <2>6. \A c \in Coins : mgr'.birth[c] = 0 /\ mgr'.spent[c] = 0
    BY <2>1, <2>3
  <2>7. LiveIsTold' /\ LetGoIsBuried'
    BY <1>2, <2>1, <2>3, <2>4, <2>5 DEF LiveIsTold, LetGoIsBuried
  <2>8. SnapshotCovers'
    <3>1. mgr.snap \in Nat
      BY Numbers
    <3> QED
      BY <2>1, <2>3, <2>6, <3>1 DEF SnapshotCovers
  <2>9. PollerKnows' /\ BirthdaysTrue' /\ SpendsTrue' /\ RollbackEpoch'
    BY <1>2, <2>1, <2>3, <2>5, <2>6
       DEF PollerKnows, BirthdaysTrue, SpendsTrue, RollbackEpoch
  <2> QED
    BY <2>7, <2>8, <2>9 DEF WatchInv
<1> QED
  BY <1>3, <1>4

\* A poll of the height: a rollback it shows undoes the spends above it.
LEMMA WatchHeightPoll ==
    ASSUME Attentive, BasicInv, WatchInv, HeightPoll
    PROVE  WatchInv'
<1>1. mgr \in Managers /\ TypeOK /\ chain.height \in Heights
  BY DEF BasicInv, TypeOK, Chains
<1>2. /\ PollerKnows /\ BirthdaysTrue /\ SnapshotCovers /\ SpendsTrue
      /\ RollbackEpoch /\ LiveIsTold /\ LetGoIsBuried
  BY DEF WatchInv
<1>3. ReportHeight(mgr, chain.height, mgr')
  BY DEF HeightPoll
<1>4. /\ mgr'.watched = mgr.watched /\ mgr'.birth = mgr.birth
      /\ mgr'.present = mgr.present /\ mgr'.vanished = mgr.vanished
      /\ mgr'.last = chain.height /\ mgr'.snap = mgr.snap
      /\ \A c \in Coins : mgr'.spent[c] = mgr.spent[c] \/ mgr'.spent[c] = 0
      /\ chain.height < mgr.last /\ mgr.rollback # chain.height =>
           \A c \in Coins : mgr.spent[c] > chain.height => mgr'.spent[c] = 0
      /\ chain.height < mgr.last => mgr'.rollback = chain.height
      /\ ~(chain.height < mgr.last) =>
           \/ mgr'.rollback = 0
           \/ mgr'.rollback = mgr.rollback /\ mgr'.rollback >= chain.height
  BY <1>1, <1>3, HeightFields
<1>5. /\ UNCHANGED <<chain, view, launched, abandoned, top, undone>>
      /\ seen' = "height" /\ (undone => seen # "height")
      /\ poll' = [poll EXCEPT !.prev = poll.peak, !.peak = chain.height]
  BY DEF HeightPoll, bounds, host
<1>6. poll'.prev = poll.peak /\ poll'.peak = chain.height /\ poll'.observed = poll.observed
  BY <1>1, <1>5 DEF TypeOK
<1>7. /\ chain.height \in Nat /\ top \in Nat /\ poll.peak \in Nat /\ mgr.last \in Nat
      /\ mgr.rollback \in Nat
      /\ \A c \in Coins : mgr.spent[c] \in Nat
  BY Numbers
<1>8. chain.height <= top
  BY DEF BasicInv, ChainSound
<1>9. PollerKnows'
  <2>1. undone => seen = "nothing"
    BY <1>1, <1>2, <1>5 DEF PollerKnows, TypeOK
  <2>2. undone => chain.height < poll.peak \/ poll.observed = {}
    BY <1>2, <1>7, <2>1 DEF PollerKnows
  <2> QED
    BY <1>4, <1>5, <1>6, <1>7, <1>8, <2>2 DEF PollerKnows
<1>10. RollbackEpoch'
  BY <1>4, <1>5, <1>7 DEF RollbackEpoch
<1>11. SpendsTrue'
  <2> SUFFICES ASSUME NEW c \in Coins, mgr'.spent[c] # 0
               PROVE  mgr'.spent[c] = chain.spent[c] /\ view[c] = chain.by[c]
    BY <1>5 DEF SpendsTrue
  <2>1. mgr'.spent[c] = mgr.spent[c] /\ mgr.spent[c] # 0
    BY <1>4
  <2>2. CASE /\ undone /\ chain.spent[c] = 0
             /\ mgr.spent[c] > chain.height /\ mgr.last > chain.height
    <3>1. mgr.rollback # chain.height
      BY <1>2, <1>7, <2>2 DEF RollbackEpoch, BasicInv, ChainSound
    <3> QED
      BY <1>4, <1>7, <2>1, <2>2, <3>1
  <2> QED
    BY <1>2, <2>1, <2>2 DEF SpendsTrue
<1>12. BirthdaysTrue' /\ LiveIsTold' /\ LetGoIsBuried'
  BY <1>2, <1>4, <1>5 DEF BirthdaysTrue, LiveIsTold, LetGoIsBuried
<1>13. SnapshotCovers'
  BY <1>2, <1>4, <1>5 DEF SnapshotCovers
<1> QED
  BY <1>9, <1>10, <1>11, <1>12, <1>13 DEF WatchInv

\* A poll of the coins that is not forwarded leaves the manager as it was; no
\* reorganisation was waiting to be shown by it.
LEMMA WatchSilentPoll ==
    ASSUME Attentive, BasicInv, WatchInv, CoinPoll, ~Forwarded
    PROVE  WatchInv'
<1>1. TypeOK /\ Settled /\ ChainSound
  BY DEF BasicInv
<1>2. /\ PollerKnows /\ BirthdaysTrue /\ SnapshotCovers /\ SpendsTrue
      /\ RollbackEpoch /\ LiveIsTold /\ LetGoIsBuried
  BY DEF WatchInv
<1>3. /\ UNCHANGED <<chain, mgr, view, launched, abandoned, top>>
      /\ poll' = [poll EXCEPT !.observed = @ \cup {c \in mgr.watched : OnChain(c)}]
      /\ seen' = IF seen = "height" THEN "coins" ELSE seen
      /\ undone' = (undone /\ seen # "height")
  BY DEF CoinPoll, host, bounds
<1>4. poll'.prev = poll.prev /\ poll'.peak = poll.peak
  BY <1>1, <1>3 DEF TypeOK
<1>5. /\ poll.peak <= chain.height /\ mgr.last = poll.peak
      /\ undone => seen = "height" /\ poll.peak = chain.height
      /\ seen # "nothing" => poll.peak = chain.height
      /\ undone /\ mgr.watched # {} => Forwarded
  BY PollIsCurrent
<1>6. undone \in BOOLEAN /\ seen \in {"nothing", "height", "coins"}
  BY <1>1 DEF TypeOK
<1>7. undone' = FALSE /\ (undone => mgr.watched = {})
  BY <1>3, <1>5, <1>6
<1>8. PollerKnows'
  BY <1>2, <1>3, <1>4, <1>5, <1>6, <1>7 DEF PollerKnows
<1>9. undone => \A c \in Coins : mgr.birth[c] = 0 /\ mgr.spent[c] = 0
  BY <1>1, <1>7 DEF Settled
<1>10. BirthdaysTrue' /\ SpendsTrue'
  BY <1>2, <1>3, <1>7, <1>9 DEF BirthdaysTrue, SpendsTrue
<1>11. SnapshotCovers'
  <2>1. \A c \in Coins : mgr.birth[c] <= mgr.snap
    <3> SUFFICES ASSUME NEW c \in Coins, mgr.birth[c] # 0
                 PROVE  mgr.birth[c] <= mgr.snap
      BY Numbers
    <3>1. ~undone /\ mgr.watched # {} /\ mgr.birth[c] = chain.created[c]
      BY <1>1, <1>2, <1>9 DEF BirthdaysTrue, Settled
    <3>2. PICK d \in mgr.watched : chain.created[d] = 0
      BY <3>1 DEF Forwarded, OnChain
    <3>3. d = "b" /\ c = "a"
      BY <1>1, <3>1, <3>2 DEF ChainSound, TypeOK, Managers, Coins
    <3>4. mgr.birth[c] = 1 /\ mgr.snap # 0
      BY <1>1, <1>2, <3>1, <3>3 DEF ChainSound, SnapshotCovers
    <3>5. mgr.snap \in Nat
      BY Numbers
    <3> QED
      BY <3>4, <3>5
  <2> QED
    BY <1>2, <1>3, <2>1 DEF SnapshotCovers
<1>12. RollbackEpoch' /\ LiveIsTold' /\ LetGoIsBuried'
  BY <1>2, <1>3 DEF RollbackEpoch, LiveIsTold, LetGoIsBuried
<1> QED
  BY <1>8, <1>10, <1>11, <1>12 DEF WatchInv

\* A poll of the coins that is forwarded.
LEMMA WatchForwardedPoll ==
    ASSUME Attentive, BasicInv, WatchInv, CoinPoll, Forwarded
    PROVE  WatchInv'
<1>1. TypeOK /\ Settled /\ ChainSound
  BY DEF BasicInv
<1>2. /\ PollerKnows /\ LetGoIsBuried
  BY DEF WatchInv
<1>3. /\ UNCHANGED <<chain, launched, abandoned, top>>
      /\ poll' = [poll EXCEPT !.observed = @ \cup {c \in mgr.watched : OnChain(c)}]
      /\ seen' = IF seen = "height" THEN "coins" ELSE seen
      /\ undone' = (undone /\ seen # "height")
  BY DEF CoinPoll, host, bounds
<1>4. poll'.prev = poll.prev /\ poll'.peak = poll.peak /\ poll.peak \in Heights
  BY <1>1, <1>3 DEF TypeOK
<1>5. /\ poll.peak <= chain.height /\ mgr.last = poll.peak /\ poll.peak # 0
      /\ undone => seen = "height" /\ poll.peak = chain.height
      /\ seen # "nothing" => poll.peak = chain.height
  BY PollIsCurrent
<1>6. undone \in BOOLEAN /\ seen \in {"nothing", "height", "coins"}
  BY <1>1 DEF TypeOK
<1>7. undone' = FALSE
  BY <1>3, <1>5, <1>6
<1>8. PICK rolled \in Managers, mature \in Managers,
           created \in SUBSET Coins, deleted \in SUBSET Coins :
             PollResult(rolled, mature, created, deleted)
  BY ForwardedPoll
<1>9. \A c \in Coins :
        /\ mature.birth[c] # 0 => mature.birth[c] = chain.created[c]
        /\ mature.spent[c] # 0 => /\ mature.spent[c] = chain.spent[c]
                                  /\ view'[c] = chain.by[c]
        /\ view'[c] = IF c \in mgr.watched /\ Real(c) # "Absent" THEN Real(c) ELSE view[c]
        /\ c \in mature.present => /\ view'[c] = "Live" /\ mature.birth[c] # 0
                                   /\ c \notin mature.vanished
  BY <1>8, PollTells
<1>10. /\ mgr' = EvictConfirmedSpends(mature, poll.peak) /\ mature.watched = mgr.watched
       /\ mature.last = poll.peak /\ mature.snap = poll.peak
       /\ poll.peak < mgr.snap => mature.rollback = poll.peak
       /\ ~(poll.peak < mgr.snap) =>
           \/ mature.rollback = 0
           \/ mature.rollback = mgr.rollback /\ mature.rollback >= poll.peak
  BY <1>8 DEF PollResult
<1> DEFINE over == Buried(mature, poll.peak)
<1>11. /\ mgr'.watched = mature.watched \ over
       /\ mgr'.vanished = mature.vanished \ over
       /\ mgr'.present = mature.present \ over
       /\ mgr'.last = mature.last /\ mgr'.snap = mature.snap
       /\ mgr'.rollback = mature.rollback
       /\ \A c \in Coins : mgr'.birth[c] = IF c \in over THEN 0 ELSE mature.birth[c]
       /\ \A c \in Coins : mgr'.spent[c] = IF c \in over THEN 0 ELSE mature.spent[c]
  BY <1>4, <1>10, EvictFields
<1>12. over = {c \in mgr.watched : mature.spent[c] # 0
                                   /\ mature.spent[c] + ConfirmationDepth <= poll.peak}
  BY <1>10 DEF Buried
<1>13. mature.present \subseteq Coins /\ mgr.watched \subseteq Coins
  BY <1>1 DEF TypeOK, Managers
<1>14. /\ chain.height \in Nat /\ top \in Nat /\ poll.peak \in Nat /\ mgr.last \in Nat
       /\ \A c \in Coins : chain.created[c] \in Nat /\ chain.spent[c] \in Nat
       /\ ConfirmationDepth \in Nat /\ chain.height <= top
       /\ \A c \in Coins : chain.created[c] <= chain.height
  BY <1>1, Numbers DEF ChainSound
<1> HIDE DEF over
<1>15. PollerKnows'
  BY <1>2, <1>3, <1>4, <1>5, <1>6, <1>7, <1>10, <1>11 DEF PollerKnows
<1>16. BirthdaysTrue'
  BY <1>3, <1>9, <1>11 DEF BirthdaysTrue
<1>17. SpendsTrue'
  BY <1>3, <1>9, <1>11 DEF SpendsTrue
<1>18. SnapshotCovers'
  <2>1. mgr'.snap = poll.peak /\ mgr'.snap # 0
    BY <1>5, <1>10, <1>11
  <2>2. ASSUME seen' = "coins", NEW c \in Coins
        PROVE  mgr'.birth[c] <= mgr'.snap
    <3>1. poll.peak = chain.height
      BY <1>3, <1>5, <2>2
    <3>2. mgr'.birth[c] = 0 \/ mgr'.birth[c] = chain.created[c]
      BY <1>9, <1>11
    <3> QED
      BY <1>14, <2>1, <3>1, <3>2
  <2> QED
    BY <2>1, <2>2 DEF SnapshotCovers
<1>19. RollbackEpoch'
  BY <1>10, <1>11, <1>14 DEF RollbackEpoch
<1>20. LiveIsTold'
  BY <1>9, <1>11, <1>13 DEF LiveIsTold
<1>21. LetGoIsBuried'
  <2>1. ASSUME NEW c \in over
        PROVE  chain.spent[c] # 0 /\ chain.spent[c] + ConfirmationDepth <= top
               /\ view'[c] = chain.by[c]
    <3>1. mature.spent[c] # 0 /\ mature.spent[c] + ConfirmationDepth <= poll.peak /\ c \in Coins
      BY <1>12, <1>13, <2>1
    <3>2. mature.spent[c] = chain.spent[c] /\ view'[c] = chain.by[c]
      BY <1>9, <3>1
    <3> QED
      BY <1>5, <1>14, <3>1, <3>2
  <2>2. \A c \in Coins \ mgr'.watched : c \in Coins \ mgr.watched \/ c \in over
    BY <1>10, <1>11
  <2>3. launched /\ ~abandoned => \A c \in Coins \ mgr'.watched :
           chain.spent[c] # 0 /\ chain.spent[c] + ConfirmationDepth <= top
    BY <1>2, <2>1, <2>2 DEF LetGoIsBuried
  <2>4. ~launched /\ ~abandoned => "a" \in mgr'.watched \/ view'["a"] # "Live"
    <3>1. "a" \in Coins /\ chain.by["a"] # "Live"
      BY <1>1 DEF TypeOK, Chains, Coins, Txs
    <3>2. "a" \notin mgr.watched => view'["a"] = view["a"]
      BY <1>9, <3>1
    <3> QED
      BY <1>2, <2>1, <2>2, <3>1, <3>2 DEF LetGoIsBuried
  <2> QED
    BY <1>3, <2>3, <2>4 DEF LetGoIsBuried
<1> QED
  BY <1>15, <1>16, <1>17, <1>18, <1>19, <1>20, <1>21 DEF WatchInv

\* The host's other actions.
LEMMA WatchHost ==
    ASSUME BasicInv, WatchInv,
           Drain \/ DrainLost \/ Resubmit \/ Reload \/ \E t \in Rivals : PushRival(t)
    PROVE  WatchInv'
<1>1. /\ PollerKnows /\ BirthdaysTrue /\ SnapshotCovers /\ SpendsTrue
      /\ RollbackEpoch /\ LiveIsTold /\ LetGoIsBuried
  BY DEF WatchInv
<1>2. /\ chain'.height = chain.height /\ chain'.created = chain.created
      /\ chain'.spent = chain.spent /\ chain'.by = chain.by
  BY HostChain
<1>3. /\ mgr'.watched = mgr.watched /\ mgr'.birth = mgr.birth /\ mgr'.spent = mgr.spent
      /\ mgr'.present = mgr.present /\ mgr'.vanished = mgr.vanished
      /\ mgr'.last = mgr.last /\ mgr'.snap = mgr.snap /\ mgr'.rollback = mgr.rollback
  BY HostManager
<1>4. /\ UNCHANGED <<view, launched, abandoned, top, undone>>
      /\ \/ UNCHANGED <<poll, seen>>
         \/ poll' = NewPoller /\ seen' = "nothing"
  BY HostRest
<1>5. PollerKnows'
  <2>1. CASE UNCHANGED <<poll, seen>>
    BY <1>1, <1>2, <1>3, <1>4, <2>1 DEF PollerKnows
  <2>2. CASE poll' = NewPoller /\ seen' = "nothing"
    <3>1. poll'.peak = 0 /\ poll'.observed = {}
      BY <2>2 DEF NewPoller
    <3>2. 0 <= top /\ 0 <= chain.height
      BY Numbers
    <3> QED
      BY <1>2, <1>4, <2>2, <3>1, <3>2 DEF PollerKnows
  <2> QED
    BY <1>4, <2>1, <2>2
<1>6. BirthdaysTrue' /\ SpendsTrue' /\ RollbackEpoch' /\ LiveIsTold' /\ LetGoIsBuried'
  BY <1>1, <1>2, <1>3, <1>4
     DEF BirthdaysTrue, SpendsTrue, RollbackEpoch, LiveIsTold, LetGoIsBuried
<1>7. SnapshotCovers'
  BY <1>1, <1>3, <1>4 DEF SnapshotCovers
<1> QED
  BY <1>5, <1>6, <1>7 DEF WatchInv

\* A block: with no reorganisation unseen, every height held is the chain's,
\* and the block changes none of those.
LEMMA WatchFarm ==
    ASSUME Attentive, BasicInv, WatchInv, Farm
    PROVE  WatchInv'
<1>1. TypeOK /\ ChainSound /\ chain \in Chains
  BY DEF BasicInv, TypeOK
<1>2. /\ PollerKnows /\ BirthdaysTrue /\ SnapshotCovers /\ SpendsTrue
      /\ RollbackEpoch /\ LiveIsTold /\ LetGoIsBuried
  BY DEF WatchInv
<1>3. /\ chain' = FarmBlock(chain) /\ chain.height < MaxHeight /\ seen' = "nothing"
      /\ top' = IF chain'.height > top THEN chain'.height ELSE top
      /\ ~undone
      /\ UNCHANGED <<mgr, view, launched, abandoned, poll, undone>>
  BY DEF Farm, host
<1>4. \A t \in chain.mempool : Unspent(chain, Input(t))
  BY <1>1 DEF ChainSound
<1>5. /\ chain'.height = chain.height + 1
      /\ \A c \in Coins : \/ chain'.spent[c] = chain.spent[c] /\ chain'.by[c] = chain.by[c]
                          \/ Unspent(chain, c) /\ chain'.spent[c] = chain.height + 1
      /\ chain'.created["a"] = chain.created["a"]
      /\ \/ chain'.created["b"] = chain.created["b"]
         \/ Unspent(chain, "a") /\ chain'.created["b"] = chain.height + 1
  BY <1>1, <1>3, <1>4, FarmFields
<1>6. \A c \in Coins : chain.spent[c] # 0 =>
        chain'.spent[c] = chain.spent[c] /\ chain'.by[c] = chain.by[c]
  BY <1>5 DEF Unspent
<1>7. \A c \in Coins : chain.created[c] # 0 => chain'.created[c] = chain.created[c]
  BY <1>1, <1>5 DEF Unspent, ChainSound, Coins
<1>8. /\ chain.height \in Nat /\ top \in Nat /\ poll.peak \in Nat
      /\ \A c \in Coins : chain.spent[c] \in Nat
      /\ ConfirmationDepth \in Nat
  BY Numbers
<1>9. top' \in Nat /\ top <= top' /\ chain.height <= chain'.height
  BY <1>3, <1>5, <1>8
<1>10. PollerKnows'
  BY <1>2, <1>3, <1>5, <1>8, <1>9 DEF PollerKnows
<1>11. BirthdaysTrue' /\ SpendsTrue'
  BY <1>2, <1>3, <1>6, <1>7 DEF BirthdaysTrue, SpendsTrue
<1>12. SnapshotCovers' /\ RollbackEpoch' /\ LiveIsTold'
  BY <1>2, <1>3 DEF SnapshotCovers, RollbackEpoch, LiveIsTold
<1>13. LetGoIsBuried'
  BY <1>2, <1>3, <1>6, <1>8, <1>9 DEF LetGoIsBuried
<1> QED
  BY <1>10, <1>11, <1>12, <1>13 DEF WatchInv

\* A reorganisation: the poller knew the chain before it, so that every height
\* it undoes lies below the snapshot and the last height reported, and no coin
\* let go of is among them.
LEMMA WatchReorganise ==
    ASSUME Attentive, BasicInv, WatchInv, Reorganise
    PROVE  WatchInv'
<1>1. TypeOK /\ ChainSound /\ chain \in Chains
  BY DEF BasicInv, TypeOK
<1>2. /\ PollerKnows /\ BirthdaysTrue /\ SnapshotCovers /\ SpendsTrue
      /\ RollbackEpoch /\ LiveIsTold /\ LetGoIsBuried
  BY DEF WatchInv
<1>3. PICK h \in 1..(chain.height - 1) : top - h <= MaxRollback /\ chain' = Reorg(chain, h)
  BY DEF Reorganise
<1>4. /\ seen = "coins" /\ seen' = "nothing" /\ undone' = TRUE
      /\ UNCHANGED <<mgr, view, launched, abandoned, poll, top>>
  BY DEF Reorganise, host
<1>5. chain.height \in Heights
  BY <1>1 DEF Chains
<1>6. h \in Heights /\ h \in Nat /\ h # 0 /\ h < chain.height
  BY <1>5, ChainAssumption DEF Heights
<1>7. /\ chain'.height = h /\ chain'.by = chain.by
      /\ \A c \in Coins : chain'.created[c] = IF chain.created[c] > h THEN 0
                                              ELSE chain.created[c]
      /\ \A c \in Coins : chain'.spent[c] = IF chain.spent[c] > h THEN 0 ELSE chain.spent[c]
  BY <1>1, <1>3, <1>6, ReorgFields
<1>8. /\ chain.height \in Nat /\ top \in Nat /\ poll.peak \in Nat
      /\ mgr.last \in Nat /\ mgr.snap \in Nat
      /\ \A c \in Coins : /\ chain.spent[c] \in Nat /\ chain.created[c] \in Nat
                          /\ mgr.birth[c] \in Nat /\ mgr.spent[c] \in Nat
      /\ ConfirmationDepth \in Nat
  BY Numbers
<1>9. ~undone /\ poll.peak = chain.height /\ mgr.last = chain.height /\ chain.height # 0
  BY <1>1, <1>2, <1>4 DEF PollerKnows, ChainSound
<1>10. PollerKnows'
  BY <1>2, <1>4, <1>6, <1>7, <1>8, <1>9 DEF PollerKnows
<1>11. BirthdaysTrue'
  BY <1>2, <1>4, <1>6, <1>7, <1>8, <1>9 DEF BirthdaysTrue, SnapshotCovers
<1>12. SpendsTrue'
  BY <1>2, <1>4, <1>6, <1>7, <1>8, <1>9 DEF SpendsTrue
<1>13. SnapshotCovers' /\ RollbackEpoch' /\ LiveIsTold'
  BY <1>2, <1>4 DEF SnapshotCovers, RollbackEpoch, LiveIsTold
<1>14. LetGoIsBuried'
  <2>1. ASSUME NEW c \in Coins, chain.spent[c] # 0,
               chain.spent[c] + ConfirmationDepth <= top
        PROVE  chain'.spent[c] = chain.spent[c]
    <3>1. chain.spent[c] <= h
      BY <1>3, <1>6, <1>8, <2>1, WatchAssumption
    <3> QED
      BY <1>6, <1>7, <1>8, <3>1
  <2> QED
    BY <1>2, <1>4, <2>1 DEF LetGoIsBuried
<1> QED
  BY <1>10, <1>11, <1>12, <1>13, <1>14 DEF WatchInv

\* With a poller that sees every reorganisation, both invariants hold.
THEOREM WatchInvariance ==
    ASSUME Attentive
    PROVE  Spec => []FullWatchInv
<1>1. Init => FullWatchInv
  BY BasicInit, WatchInit DEF FullWatchInv
<1>2. FullWatchInv /\ [Next]_vars => FullWatchInv'
  <2> SUFFICES ASSUME FullWatchInv, [Next]_vars PROVE FullWatchInv'
    OBVIOUS
  <2>0. BasicInv /\ WatchInv
    BY DEF FullWatchInv
  <2>1. CASE Launch \/ Rewatch \/ Abandon
    BY <2>0, <2>1, BasicSession, WatchSession DEF FullWatchInv
  <2>2. CASE HeightPoll
    BY <2>0, <2>2, BasicHeightPoll, WatchHeightPoll DEF FullWatchInv
  <2>3. CASE CoinPoll
    BY <2>0, <2>3, BasicCoinPoll, WatchForwardedPoll, WatchSilentPoll DEF FullWatchInv
  <2>4. CASE Drain \/ DrainLost \/ Resubmit \/ Reload \/ \E t \in Rivals : PushRival(t)
    BY <2>0, <2>4, BasicHost, WatchHost DEF FullWatchInv
  <2>5. CASE Farm
    BY <2>0, <2>5, BasicFarm, WatchFarm DEF FullWatchInv
  <2>6. CASE Reorganise
    BY <2>0, <2>6, BasicReorganise, WatchReorganise DEF FullWatchInv
  <2>7. CASE UNCHANGED vars
    <3>1. BasicInv'
      BY <2>0, <2>7 DEF vars, BasicInv, TypeOK, ChainSound, Settled, Unspent
    <3>2. WatchInv'
      BY <2>0, <2>7 DEF vars, WatchInv, PollerKnows, BirthdaysTrue, SnapshotCovers,
                        SpendsTrue, RollbackEpoch, LiveIsTold, LetGoIsBuried
    <3> QED
      BY <3>1, <3>2 DEF FullWatchInv
  <2> QED
    BY <2>1, <2>2, <2>3, <2>4, <2>5, <2>6, <2>7 DEF Next
<1> QED
  BY <1>1, <1>2, PTL DEF Spec

\* What the manager holds for a session is sound: the types hold, an abandoned
\* session is quiet, and a coin that was evicted is spent for good.
THEOREM ManagerSound ==
    ASSUME Attentive
    PROVE  Spec => []ManagerInv
<1>1. FullWatchInv => ManagerInv
  BY DEF FullWatchInv, BasicInv, WatchInv, Settled, LetGoIsBuried,
         ManagerInv, AbandonedIsQuiet, LetGoIsSpent
<1> QED
  BY <1>1, WatchInvariance, PTL

-----------------------------------------------------------------------------
(***************************************************************************)
(* Claims and the promise to the handlers.                                 *)
(***************************************************************************)

\* A claim is handed out by a poll only, and only when the chain would take
\* it: the birthday it was timed from is the creation on chain.
LEMMA ClaimRipeStep ==
    ASSUME Attentive, FullWatchInv, [Next]_vars, mgr'.claimed["b"], ~mgr.claimed["b"]
    PROVE  TimelocksHold(chain, "claim")
<1>1. /\ BasicInv /\ WatchInv /\ mgr \in Managers /\ chain \in Chains
      /\ poll.peak \in Heights /\ chain.height \in Heights /\ "b" \in Coins
  BY DEF FullWatchInv, BasicInv, TypeOK, Chains, Coins
<1>2. SUFFICES chain.created["b"] + Timeout <= chain.height
  BY DEF TimelocksHold, ExpiryOf
<1>3. /\ chain.height \in Nat /\ poll.peak \in Nat
      /\ chain.created["b"] \in Nat /\ mgr.birth["b"] \in Nat /\ Timeout \in Nat
  BY <1>1, Numbers
<1>4. CASE HeightPoll
  <2>1. ReportHeight(mgr, chain.height, mgr')
    BY <1>4 DEF HeightPoll
  <2>2. Ripe(mgr, "b", chain.height)
    BY <1>1, <2>1, HeightFields
  <2> QED
    BY <1>1, <1>3, <2>2 DEF Ripe, WatchInv, BirthdaysTrue
<1>5. CASE CoinPoll
  <2>1. Forwarded
    BY <1>5 DEF CoinPoll
  <2>2. PICK rolled \in Managers, mature \in Managers,
             created \in SUBSET Coins, deleted \in SUBSET Coins :
               PollResult(rolled, mature, created, deleted)
    BY <1>1, <1>5, <2>1, ForwardedPoll
  <2>3. mature.birth["b"] # 0 => mature.birth["b"] = chain.created["b"]
    BY <1>1, <1>5, <2>1, <2>2, PollTells
  <2>4. mgr' = EvictConfirmedSpends(mature, poll.peak)
    BY <2>2 DEF PollResult
  <2>5. mature.claimed["b"]
    BY <1>1, <2>4, EvictFields
  <2>6. Ripe(mature, "b", poll.peak)
    BY <1>1, <2>2, <2>5 DEF PollResult
  <2>7. poll.peak <= chain.height
    BY <1>1, <1>5, PollIsCurrent
  <2> QED
    BY <1>3, <2>3, <2>6, <2>7 DEF Ripe
<1>6. CASE Launch \/ Rewatch
  <2>1. PICK claim \in BOOLEAN :
           mgr' \in {Submit(RegisterWatch(mgr, "b", claim), "launch"),
                     RegisterWatch(mgr, "b", claim)}
    BY <1>6 DEF Launch, Rewatch
  <2> DEFINE n == RegisterWatch(mgr, "b", claim)
  <2>2. n \in Managers /\ n.claimed = mgr.claimed
    BY <1>1, RegisterFields
  <2>3. mgr' \in {Submit(n, "launch"), n}
    BY <2>1
  <2> HIDE DEF n
  <2>4. mgr'.claimed = mgr.claimed
    BY <2>2, <2>3 DEF Submit, Managers
  <2> QED
    BY <2>4
<1>7. CASE Abandon
  <2> DEFINE f == Forget(mgr, Coins)
  <2>1. f \in Managers /\ \A c \in Coins : f.claimed[c] => mgr.claimed[c]
    BY <1>1, ForgetFields
  <2> HIDE DEF f
  <2>2. mgr' = [f EXCEPT !.pending = {}, !.submitted = {}, !.landed = {}]
    BY <1>7 DEF Abandon, DiscardLocalArtifacts, f
  <2>3. mgr'.claimed = f.claimed
    BY <2>1, <2>2 DEF Managers
  <2> QED
    BY <1>1, <2>1, <2>3
<1>8. CASE Drain \/ DrainLost \/ Resubmit \/ Reload \/ \E t \in Rivals : PushRival(t)
  <2>1. mgr'.claimed = mgr.claimed
    BY <1>1, <1>8, HostManager
  <2> QED
    BY <2>1
<1>9. CASE Farm \/ Reorganise \/ UNCHANGED vars
  <2>1. mgr' = mgr
    BY <1>9 DEF Farm, Reorganise, vars
  <2> QED
    BY <2>1
<1> QED
  BY <1>4, <1>5, <1>6, <1>7, <1>8, <1>9 DEF Next

\* evaluate_mature_timeout_claims never hands out a claim the chain would
\* refuse as early, whatever blocks were undone.
THEOREM ClaimsAreRipe ==
    ASSUME Attentive
    PROVE  Spec => ClaimsRipe
<1>1. FullWatchInv /\ [Next]_vars =>
        [mgr'.claimed["b"] /\ ~mgr.claimed["b"] => TimelocksHold(chain, "claim")]_vars
  BY ClaimRipeStep
<1> QED
  BY <1>1, WatchInvariance, PTL DEF Spec, ClaimsRipe

\* The status of a coin on chain is one.
LEMMA RealTyped ==
    ASSUME BasicInv
    PROVE  [c \in Coins |-> Real(c)] \in [Coins -> Txs \cup {"Absent", "Live"}]
<1>1. \A c \in Coins : Real(c) \in Txs \cup {"Absent", "Live"}
  BY DEF Real, BasicInv, TypeOK, Chains
<1> QED
  BY <1>1

\* A chain of the same heights has the same status for every coin.
LEMMA RealSame ==
    ASSUME chain'.created = chain.created, chain'.spent = chain.spent, chain'.by = chain.by
    PROVE  [c \in Coins |-> Real(c)]' = [c \in Coins |-> Real(c)]
BY DEF Real, OnChain

\* A forwarded poll is a report of CoinView.
LEMMA PollFollows ==
    ASSUME Attentive, BasicInv, WatchInv, CoinPoll, Forwarded
    PROVE  View!Follow
<1>1. PICK rolled \in Managers, mature \in Managers,
           created \in SUBSET Coins, deleted \in SUBSET Coins :
             PollResult(rolled, mature, created, deleted)
  BY ForwardedPoll
<1>2. \A c \in Coins :
        /\ mature.spent[c] # 0 => mature.spent[c] = chain.spent[c]
        /\ view'[c] = IF c \in mgr.watched /\ Real(c) # "Absent" THEN Real(c) ELSE view[c]
  BY <1>1, PollTells
<1>3. /\ mgr' = EvictConfirmedSpends(mature, poll.peak) /\ mature.watched = mgr.watched
  BY <1>1 DEF PollResult
<1>4. poll.peak \in Heights /\ mgr.watched \subseteq Coins
  BY DEF BasicInv, TypeOK, Managers
<1>5. mgr'.watched = mgr.watched \ Buried(mature, poll.peak)
  BY <1>3, <1>4, EvictFields
<1>6. view' = [c \in Coins |-> view'[c]]
  BY DEF CoinPoll
<1>7. view' = [c \in Coins |->
                 IF c \in mgr.watched /\ [d \in Coins |-> Real(d)][c] # "Absent"
                 THEN [d \in Coins |-> Real(d)][c] ELSE view[c]]
  BY <1>2, <1>6
<1>8. \A c \in mgr.watched \ mgr'.watched : [d \in Coins |-> Real(d)][c] \notin {"Absent", "Live"}
  <2> SUFFICES ASSUME NEW c \in mgr.watched \ mgr'.watched
               PROVE  Real(c) \notin {"Absent", "Live"}
    BY <1>4
  <2>1. c \in Coins /\ mature.spent[c] # 0
    BY <1>4, <1>5 DEF Buried
  <2>2. chain.spent[c] # 0
    BY <1>2, <2>1
  <2>3. chain.created[c] # 0 /\ chain.by[c] \in Txs
    BY <2>1, <2>2 DEF BasicInv, ChainSound, TypeOK, Chains
  <2> QED
    BY <2>2, <2>3 DEF Real, OnChain, Txs
<1>9. [c \in Coins |-> Real(c)]' = [c \in Coins |-> Real(c)]
  BY RealSame DEF CoinPoll
<1> QED
  BY <1>5, <1>7, <1>8, <1>9 DEF View!Follow

\* Every step is a step of CoinView or leaves it alone.
LEMMA ViewStep ==
    ASSUME Attentive, FullWatchInv, FullWatchInv', [Next]_vars
    PROVE  [View!Next]_(View!vars)
<1>1. BasicInv /\ WatchInv /\ BasicInv' /\ mgr \in Managers /\ mgr' \in Managers
  BY DEF FullWatchInv, BasicInv, TypeOK
<1>2. CASE Launch \/ Rewatch
  <2>1. PICK claim \in BOOLEAN :
           mgr' \in {Submit(RegisterWatch(mgr, "b", claim), "launch"),
                     RegisterWatch(mgr, "b", claim)}
    BY <1>2 DEF Launch, Rewatch
  <2> DEFINE n == RegisterWatch(mgr, "b", claim)
  <2>2. n \in Managers /\ n.watched = mgr.watched \cup {"b"}
    BY <1>1, RegisterFields
  <2>3. mgr' \in {Submit(n, "launch"), n}
    BY <2>1
  <2> HIDE DEF n
  <2>4. mgr'.watched = mgr.watched \cup {"b"}
    BY <2>2, <2>3 DEF Submit, Managers
  <2>5. mgr'.watched \in SUBSET Coins
    BY <1>1 DEF Managers
  <2>6. view' = view /\ chain' = chain
    BY <1>2 DEF Launch, Rewatch
  <2>7. [c \in Coins |-> Real(c)]' = [c \in Coins |-> Real(c)]
    BY <2>6, RealSame
  <2>8. View!WatchMore
    BY <2>4, <2>5, <2>6, <2>7 DEF View!WatchMore
  <2> QED
    BY <2>8 DEF View!Next
<1>3. CASE Abandon
  <2> DEFINE f == Forget(mgr, Coins)
  <2>1. f \in Managers /\ f.watched = mgr.watched \ Coins
    BY <1>1, ForgetFields
  <2> HIDE DEF f
  <2>2. mgr' = [f EXCEPT !.pending = {}, !.submitted = {}, !.landed = {}]
    BY <1>3 DEF Abandon, DiscardLocalArtifacts, f
  <2>3. mgr'.watched = {}
    BY <1>1, <2>1, <2>2 DEF Managers
  <2>4. view' = view /\ chain' = chain
    BY <1>3 DEF Abandon
  <2>5. [c \in Coins |-> Real(c)]' = [c \in Coins |-> Real(c)]
    BY <2>4, RealSame
  <2>6. View!Abandon
    BY <2>3, <2>4, <2>5 DEF View!Abandon
  <2> QED
    BY <2>6 DEF View!Next
<1>4. CASE HeightPoll
  <2>1. ReportHeight(mgr, chain.height, mgr') /\ view' = view /\ chain' = chain
    BY <1>4 DEF HeightPoll
  <2>2. chain.height \in Heights
    BY <1>1 DEF BasicInv, TypeOK, Chains
  <2>3. mgr'.watched = mgr.watched
    BY <1>1, <2>1, <2>2, HeightFields
  <2>4. [c \in Coins |-> Real(c)]' = [c \in Coins |-> Real(c)]
    BY <2>1, RealSame
  <2> QED
    BY <2>1, <2>3, <2>4 DEF View!vars
<1>5. CASE CoinPoll
  <2>1. CASE Forwarded
    BY <1>1, <1>5, <2>1, PollFollows DEF View!Next
  <2>2. CASE ~Forwarded
    <3>1. view' = view /\ mgr' = mgr /\ chain' = chain
      BY <1>5, <2>2 DEF CoinPoll
    <3>2. [c \in Coins |-> Real(c)]' = [c \in Coins |-> Real(c)]
      BY <3>1, RealSame
    <3> QED
      BY <3>1, <3>2 DEF View!vars
  <2> QED
    BY <2>1, <2>2
<1>6. CASE Drain \/ DrainLost \/ Resubmit \/ Reload \/ \E t \in Rivals : PushRival(t)
  <2>1. mgr'.watched = mgr.watched
    BY <1>1, <1>6, HostManager
  <2>2. view' = view
    BY <1>1, <1>6, HostRest
  <2>3. [c \in Coins |-> Real(c)]' = [c \in Coins |-> Real(c)]
    BY <1>1, <1>6, HostChain, RealSame
  <2> QED
    BY <2>1, <2>2, <2>3 DEF View!vars
<1>7. CASE Farm \/ Reorganise
  <2>1. view' = view /\ mgr' = mgr
    BY <1>7 DEF Farm, Reorganise
  <2>2. [c \in Coins |-> Real(c)]' \in [Coins -> Txs \cup {"Absent", "Live"}]
    <3>1. \A c \in Coins : Real(c)' \in Txs \cup {"Absent", "Live"}
      BY <1>1 DEF Real, BasicInv, TypeOK, Chains
    <3> QED
      BY <3>1
  <2>3. View!ChainMoves
    BY <2>1, <2>2 DEF View!ChainMoves
  <2> QED
    BY <2>3 DEF View!Next
<1>8. CASE UNCHANGED vars
  <2>1. view' = view /\ mgr' = mgr /\ chain' = chain
    BY <1>8 DEF vars
  <2>2. [c \in Coins |-> Real(c)]' = [c \in Coins |-> Real(c)]
    BY <2>1, RealSame
  <2> QED
    BY <2>1, <2>2 DEF View!vars
<1> QED
  BY <1>2, <1>3, <1>4, <1>5, <1>6, <1>7, <1>8 DEF Next

\* The manager and the poller implement CoinView: at every report a handler is
\* told what the chain holds of the coins it watches, and only coins spent for
\* good are let go of.
THEOREM ManagerImplementsView ==
    ASSUME Attentive
    PROVE  Spec => ViewFollows
<1>1. Init => View!Init
  <2> SUFFICES ASSUME Init PROVE View!Init
    OBVIOUS
  <2>1. BasicInv
    BY BasicInit
  <2>2. mgr.watched \in SUBSET Coins
    BY <2>1 DEF BasicInv, TypeOK, Managers
  <2>3. view = [c \in Coins |-> "Absent"]
    BY DEF Init
  <2> QED
    BY <2>1, <2>2, <2>3, RealTyped DEF View!Init
<1>2. FullWatchInv /\ FullWatchInv' /\ [Next]_vars => [View!Next]_(View!vars)
  BY ViewStep
<1> QED
  BY <1>1, <1>2, WatchInvariance, PTL DEF Spec, ViewFollows, View!Spec
=============================================================================
