------------------------------ MODULE MCPotato ------------------------------
EXTENDS PotatoInvariant

MCDeposit == [p \in Party |-> IF p = "alice" THEN 2 ELSE 1]

\* Deep pockets: no proposal of an instance that uses it runs short.
RichDeposit == [p \in Party |-> 4]

Game(sender, receiver, first, share) ==
    [sender |-> sender, receiver |-> receiver,
     sender_goes_first |-> first, mover_share |-> share]

Duel == << Game(1, 1, TRUE, 0) >>       \* the proposer moves first
Reply == << Game(1, 1, FALSE, 0) >>     \* the proposer moves second
Pair == << Game(1, 0, TRUE, 0), Game(0, 1, FALSE, 0) >>

DuelPair == [duel |-> Duel, pair |-> Pair]
DuelReply == [duel |-> Duel, reply |-> Reply]
DuelOnly == [duel |-> Duel]

AllTypes == [p \in Party |-> DOMAIN Factory]
BobDuelOnly == [p \in Party |-> IF p = "bob" THEN {"duel"} ELSE DOMAIN Factory]

Mv(give, final) == [give |-> give, final |-> final, legal |-> TRUE,
                    rejected |-> FALSE, note |-> FALSE]

\* A move that ends the game and is answered with an advisory message, and one
\* that does not; a move the handler rejects; a move that cheats.
PlainMoves == {[Mv(TRUE, TRUE) EXCEPT !.note = TRUE], Mv(FALSE, FALSE)}
OddMoves == {[Mv(TRUE, TRUE) EXCEPT !.note = TRUE],
             [Mv(FALSE, FALSE) EXCEPT !.rejected = TRUE],
             [Mv(FALSE, FALSE) EXCEPT !.legal = FALSE]}
LastMove == {Mv(TRUE, TRUE)}

Up(a, b) == [p \in Party |-> IF p = "alice" THEN a ELSE b]
Calls22 == Up(2, 2)
Calls32 == Up(3, 2)
=============================================================================
