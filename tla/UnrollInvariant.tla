--------------------------- MODULE UnrollInvariant ---------------------------
(***************************************************************************)
(* The inductive invariant behind Unroll's safety properties.              *)
(***************************************************************************)
EXTENDS Unroll

\* The parity rule: alice receives even states only, bob odd ones only.
Parity(p) == IF p = "alice" THEN 0 ELSE 1

\* What is on the wire, or can be put there, has the receiver's parity; what
\* a player holds both signatures of has its parity, or is state 0.
ParityRule ==
    \A p \in Party :
        /\ \A n \in wire[p] : n % 2 = Parity(p)
        /\ \A n \in held[p] : n % 2 = Parity(p) \/ n = 0
        /\ recv[p] % 2 = Parity(p) \/ recv[p] = 0
        /\ potato[p] => sn[p] = recv[p] /\ recv[p] % 2 = Parity(p)

\* Nothing a player holds is newer than what the peer has signed.
Numbers ==
    \A p \in Party :
        /\ recv[p] \in held[p]
        /\ sn[p] = recv[p] \/ sn[p] = recv[p] + 1
        /\ \A n \in held[p] : n <= recv[p]
        /\ \A n \in wire[p] : n <= sn[Other(p)]
        /\ recv[p] <= sn[Other(p)]

\* What is submitted is held, and an honest player submits the state it last
\* received, when it no longer plays off chain.
Submitted ==
    \A p \in Party :
        /\ published[p] \subseteq held[p]
        /\ preempts[p] \subseteq held[p]
        /\ p \in Honest =>
              /\ \A n \in published[p] \cup preempts[p] :
                    n = recv[p] /\ phase[p] # "OffChain"

\* What an honest player's phase says of the coin it has seen.
Reactions ==
    \A p \in Party :
        /\ phase[p] # "Failed"
        /\ p \in Honest /\ phase[p] = "UnrollSpend" =>
              /\ coin.k # "Channel"
              /\ preempts[p] # {}
              /\ recv[p] > coin.from
              /\ recv[p] % 2 # coin.from % 2
        /\ p \in Honest /\ phase[p] \in {"UnrollTimeoutOrSpend", "Resolved"} =>
              coin.k # "Channel"
        /\ p \in Honest /\ phase[p] = "UnrollTimeoutOrSpend" =>
              coin.from >= recv[p] \/ recv[p] % 2 = coin.from % 2
        /\ p \in Honest /\ phase[p] = "Resolved" => coin.k = "Settled"

\* Where the coin came from, and where it can have gone.
OnChain ==
    /\ coin.k # "Channel" => \E p \in Party : coin.from \in published[p]
    /\ mature => coin.k # "Channel"
    /\ \A p \in Party : stale[p] => coin.k = "Settled"
    /\ mature /\ coin.k = "Unroll" =>
          \A p \in Honest : phase[p] = "UnrollTimeoutOrSpend"
    /\ coin.k = "Settled" =>
          \A p \in Honest :
             \/ p = "alice" /\ coin.from = 0
             \/ coin.sn >= recv[p] /\ phase[p] # "OffChain"

IInv ==
    /\ TypeOK /\ ParityRule /\ Numbers /\ Submitted /\ Reactions /\ OnChain
    /\ HonestNeverStale
=============================================================================
