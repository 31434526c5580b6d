--------------------------- MODULE PotatoInvariant ---------------------------
(***************************************************************************)
(* What PotatoChannel keeps true, strong enough to be carried from step to *)
(* step: the type of every record, what one session holds of itself, and   *)
(* what ties the two sessions and the stream between them together.        *)
(***************************************************************************)
EXTENDS PotatoChannel

(***************************************************************************)
(* Types.                                                                  *)
(***************************************************************************)
Games ==
    {g \in [id : Nat, group : Nat, contrib : [Party -> Nat], turn : Party,
            share : Nat, moves : Nat, over : BOOLEAN] : g.share <= Amount(g)}

States == [sn : Nat, bal : [Party -> Nat], games : Seq(Games)]

Redos ==
    [k : {"ProposalAccepted", "CachedSendMove"}, id : Nat] \cup
    [k : {"CachedAcceptSettlement"}, id : Nat, amt : Nat, pot : Nat]

Channels ==
    [me : Party, bal : [Party -> Nat], alloc : [Party -> Nat],
     have_potato : BOOLEAN, redo : Seq(Redos), sn : Nat, my_nonce : Nat,
     their_nonce : Nat, sent : States, received : States, known : SUBSET States,
     live : Seq(Games), pending : SUBSET Nat, proposed : Seq(Games)]

Shutdowns == {NoSpend} \cup [k : {"Clean"}, bal : [Party -> Nat]]

Spends == Shutdowns \cup [k : {"Unroll"}, c : States]

ProposeGroups ==
    {a \in [k : {"ProposeGroup"}, t : GameTypes, ids : Seq(Nat)] :
        Len(a.ids) = Len(Factory[a.t])}

QueueActions ==
    [k : {"Move", "Cheat"}, id : Nat, mv : Moves] \cup
    [k : {"AcceptSettlement", "AcceptProposal"}, id : Nat] \cup
    [k : {"CancelProposal"}, id : Nat, silent : BOOLEAN] \cup
    [k : {"CleanShutdown"}] \cup ProposeGroups

BatchActions ==
    [k : {"Move"}, id : Nat, mv : Moves] \cup
    [k : {"AcceptSettlement", "AcceptProposal", "CancelProposal"}, id : Nat] \cup
    ProposeGroups

Batches ==
    [k : {"Batch"}, actions : Seq(BatchActions), sig : States, clean : Shutdowns]

Messages ==
    Batches \cup [k : {"RequestPotato"}] \cup [k : {"Message"}, id : Nat] \cup
    [k : {"CleanShutdownComplete"}, clean : Shutdowns]

Sessions ==
    [ch : Channels, queue : Seq(QueueActions),
     have_potato : {"Absent", "Requested", "Present"}, peer_wants : BOOLEAN,
     spend : Spends, expected : Shutdowns, phase : Phases, out : Seq(Messages),
     tx : SUBSET Spends, err : BOOLEAN, blame : BOOLEAN, told : SUBSET Nat,
     settled : SUBSET [id : Nat, amt : Nat, pot : Nat], dup : BOOLEAN,
     torn : BOOLEAN, accused : BOOLEAN]

-----------------------------------------------------------------------------
(***************************************************************************)
(* One session.                                                            *)
(***************************************************************************)

\* The states on record have different numbers, none above the newest, and the
\* last one sent and the last one received are among them.
RecordInv(ch) ==
    /\ \A c \in ch.known : c.sn <= ch.sn
    /\ \A c, d \in ch.known : c.sn = d.sn => c = d
    /\ ch.sent \in ch.known /\ ch.received \in ch.known

\* What is allocated is what the live games hold.
LedgerInv(ch) ==
    /\ ch.alloc = Total(ch.live)
    /\ Pool(ch.bal) + Pool(ch.alloc) = Pool(Deposit)

ChannelInv(ch) == RecordInv(ch) /\ LedgerInv(ch)

\* The games a player is about to propose have ids of its own.
OwnGroup(ch, a) ==
    a.k = "ProposeGroup" => \A j \in DOMAIN a.ids : IsOurNonceParity(ch, a.ids[j])

QueueInv(s) == \A i \in DOMAIN s.queue : OwnGroup(s.ch, s.queue[i])

Present(s) == s.have_potato = "Present"

\* Nothing has come from the peer yet.
Untouched(ch) ==
    /\ ch.live = << >>
    /\ \A i \in DOMAIN ch.proposed : IsOurNonceParity(ch, ch.proposed[i].id)

\* The phase's flag and the channel state's agree, or nothing has come yet.
FlagsInv(s) == (Present(s) <=> s.ch.have_potato) \/ Untouched(s.ch)

\* A ledger is that of the last state exchanged: the one sent if the potato is
\* gone, the one received if it is here and no failed drain has left its mark.
HeldInv(s) ==
    IF Present(s)
    THEN ~s.torn => s.ch.bal = s.ch.received.bal /\ s.ch.live = s.ch.received.games
    ELSE s.ch.bal = s.ch.sent.bal /\ s.ch.live = s.ch.sent.games

PlayInv(s) == s.phase = "OffChain" => FlagsInv(s) /\ HeldInv(s)

SessionInv(s) == ChannelInv(s.ch) /\ QueueInv(s) /\ PlayInv(s)

-----------------------------------------------------------------------------
(***************************************************************************)
(* Both sessions and the stream.                                           *)
(***************************************************************************)
TypeInv ==
    /\ peer \in [Party -> Sessions]
    /\ wire \in [Party -> Seq(Messages)]
    /\ published \in [Party -> SUBSET Spends]
    /\ chain = NoSpend \/ chain \in published["alice"] \cup published["bob"]
    /\ calls \in [Party -> Nat]
    /\ \A p \in Party :
          /\ peer[p].ch.me = p
          /\ peer[p].out = << >> /\ peer[p].tx = {}
          /\ peer[p].err = FALSE /\ peer[p].blame = FALSE

Holds(p) == Present(peer[p])

BatchAt(p, i) == i \in DOMAIN wire[p] /\ wire[p][i].k = "Batch"

BatchTo(p) == \E i \in DOMAIN wire[p] : BatchAt(p, i)

\* There is never a second potato, whoever has left.
AtMostOne ==
    /\ \A p \in Party : \A i, j \in DOMAIN wire[p] :
          BatchAt(p, i) /\ BatchAt(p, j) => i = j
    /\ \A p \in Party : BatchTo(p) => ~BatchTo(Other(p))
    /\ \A p \in Party : Holds(p) => ~Holds(Other(p)) /\ ~BatchTo(p) /\ ~BatchTo(Other(p))

AtLeastOne == BothOffChain => \E p \in Party : Holds(p) \/ BatchTo(p)

\* A batch carries the newest state of its sender, one ahead of its reader.
BatchInv(p) ==
    \A i \in DOMAIN wire[p] : BatchAt(p, i) =>
        /\ wire[p][i].sig = peer[Other(p)].ch.sent
        /\ peer[Other(p)].ch.sent.sn = peer[Other(p)].ch.sn
        /\ OffChain(p) => peer[Other(p)].ch.sn = peer[p].ch.sn + 1

\* Nobody is ahead of the holder of the potato.
HolderInv(p) ==
    Holds(p) /\ OffChain(p) =>
        /\ peer[Other(p)].ch.sn <= peer[p].ch.sn
        /\ OffChain(Other(p)) =>
              /\ peer[Other(p)].ch.sn = peer[p].ch.sn
              /\ peer[Other(p)].ch.sent = peer[p].ch.received

\* The peer has on record what a player may publish, and so has the player,
\* unless an error in its answer to a batch made it forget the state received.
Recorded(p, x) ==
    x.k = "Unroll" =>
        /\ x.c \in peer[Other(p)].ch.known
        /\ x.c \in peer[p].ch.known \/ peer[p].accused

SpendInv(p) == \A x \in published[p] \cup {peer[p].spend} : Recorded(p, x)

\* A confirmed unroll is a failure to a player who accused its peer at most.
RecognisedUnlessAccused ==
    \A p \in Party : peer[p].phase = "Failed" /\ chain.k = "Unroll" => peer[p].accused

\* Only a confirmed spend is a failure.
FailedInv == \A p \in Party : peer[p].phase = "Failed" => chain # NoSpend

\* The inductive invariant.
PotatoInv ==
    /\ TypeInv
    /\ \A p \in Party : SessionInv(peer[p])
    /\ AtMostOne
    /\ AtLeastOne
    /\ \A p \in Party : BatchInv(p) /\ HolderInv(p) /\ SpendInv(p)
    /\ KnownStatesAgree
    /\ FailedInv /\ RecognisedUnlessAccused
=============================================================================
