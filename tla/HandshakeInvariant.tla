------------------------- MODULE HandshakeInvariant -------------------------
(***************************************************************************)
(* The inductive invariants behind the safety of the handshake's funding   *)
(* and the order of its messages.                                          *)
(***************************************************************************)
EXTENDS Handshake

Past(p) == hs[p].st \in {"Finished", "Done"}

\* A half of the funding that is on its way was made by an initiator that has
\* nothing more to wait for, and holds until the initiator's deadline.
Offered(b) == Past("initiator") /\ b = hs["initiator"].deadline

\* The whole funding holds until neither party's deadline has passed.  Only a
\* hostile receiver has it without having finished.
Bound(b) ==
    /\ Past("initiator")
    /\ \/ Past("receiver")
       \/ hostile = "receiver" /\ hs["receiver"].st = "WaitingForCompletion"
    /\ ~hs["receiver"].pending
    /\ b <= hs["initiator"].deadline /\ b <= hs["receiver"].deadline

\* Messages that carry no other bundle.
Sound ==
    {m \in Messages : /\ m.k = "E" /\ m.bundle # 0 => Offered(m.bundle)
                      /\ m.k = "F" /\ m.bundle # 0 => Bound(m.bundle)}

\* Where a request to the wallet may be outstanding.
Asking ==
    /\ hs["initiator"].pending => hs["initiator"].st = "WaitingForOffer"
    /\ hs["receiver"].pending =>
          \/ hs["receiver"].st = "SentD" /\ hs["receiver"].gone
          \/ hs["receiver"].st = "WaitingForCompletion"
    /\ wallet["initiator"] = "launcher" => hs["initiator"].st = "WaitingForLauncher"
    /\ wallet["initiator"] = "spend" => hs["initiator"].st = "WaitingForOffer"
    /\ wallet["receiver"] # "launcher"
    /\ wallet["receiver"] = "spend" =>
          \/ hs["receiver"].st = "SentD" /\ hs["receiver"].gone
          \/ hs["receiver"].st = "WaitingForCompletion"
    /\ \A p \in Party : wallet[p] = "spend" => ~hs[p].pending

\* Signatures come before the funding they protect.
Signed ==
    /\ hs["initiator"].st \in {"WaitingForOffer", "Finished", "Done"} => hs["initiator"].sigs
    /\ hs["receiver"].st \in {"WaitingForCompletion", "Finished", "Done"} => hs["receiver"].sigs

\* Every bundle anywhere is bound by the deadlines.
Funding ==
    /\ net \in [Party -> Seq(Sound)] /\ queue \in [Party -> Seq(Sound)]
    /\ hs["receiver"].theirs # 0 => Offered(hs["receiver"].theirs)
    /\ \A p \in Party : outbox[p] # 0 => Bound(outbox[p])
    /\ chain.pool # 0 => Bound(chain.pool) /\ chain.height < chain.pool
    /\ chain.made # 0 => \E b \in Bundles : Bound(b)

\* What a session says of the channel coin.
Expiries ==
    \A p \in Party :
        /\ hs[p].expiry # 0 => hs[p].expiry = hs[p].deadline /\ Past(p)
        /\ hs[p].opened => hs[p].established \/ hs[p].expired
        /\ hs[p].expired =>
              chain.made = 0 /\ hs[p].expiry # 0 /\ hs[p].expiry <= chain.height

\* hs is a function, which TypeOK does not say.
FundingInv ==
    /\ TypeOK /\ hs = [p \in Party |-> hs[p]]
    /\ Asking /\ Signed /\ Funding /\ Expiries

-----------------------------------------------------------------------------
(***************************************************************************)
(* Between honest parties: the messages, in order.                         *)
(***************************************************************************)

\* How many messages of the handshake a party takes up to be in state st.  An
\* initiator that has finished may have taken F, or not.
Takes(p, st) ==
    CASE st \in {"WaitingForStart", "SentA", "WaitingForA"} -> 0
      [] st \in {"WaitingForLauncher", "SentC", "SentB"}    -> 1
      [] st \in {"WaitingForOffer", "SentD"}                -> 2
      [] OTHER -> IF p = "initiator" THEN 2 ELSE 3

\* How many messages of the handshake a party sends to be in state st, unless
\* it has cut its peer off.
Sends(st) ==
    CASE st \in {"WaitingForStart", "WaitingForA"}        -> 0
      [] st \in {"SentA", "WaitingForLauncher", "SentB"}  -> 1
      [] st \in {"SentC", "WaitingForOffer", "SentD", "WaitingForCompletion"} -> 2
      [] OTHER -> 3

Taken(p) == Takes(p, hs[p].st)

Made(p) == Sends(hs[p].st) + sent[p]

\* The messages of the handshake that a party gets.
Handshakes(p) == IF p = "initiator" THEN <<"B", "D", "F">> ELSE <<"A", "C", "E">>

\* m may be the j-th message that p gets.
Due(p, j, m) ==
    IF j <= 3
    THEN m.k = Handshakes(p)[j] /\ m.ok /\ (m.k = "E" => m.bundle # 0)
    ELSE m.k = "Play" /\ m.n = j - 3

\* The messages that p has heard or not taken up yet are those after the o-th.
InOrder(p, o) ==
    /\ \A i \in 1..Len(Coming(p)) : Due(p, o + i, Coming(p)[i])
    /\ o + Len(Coming(p)) <= Made(Peer(p))
    /\ \/ o + Len(Coming(p)) = Made(Peer(p))
       \/ hs[Peer(p)].gone /\ sent[Peer(p)] = 0
    /\ Past(p) \/ o = Taken(p)
    /\ hs[p].st # "Done" => heard[p] = << >>
    /\ Past(p) /\ o # 3 => heard[p] = << >> /\ queue[p] = << >>

\* What each party does is what the other's messages make it do.
InStep ==
    \A p \in Party :
        /\ hs[p].left => hs[p].gone
        /\ hs[p].st # "Done" => sent[p] = 0
        /\ hs[p].st = "WaitingForOffer" /\ ~hs[p].pending => hs[p].deadline # 0
        /\ hostile = "nobody" =>
             /\ Taken(p) <= Made(Peer(p))
             /\ ~Deaf(p) => \E o \in {Taken(p), 3} : InOrder(p, o)
=============================================================================
