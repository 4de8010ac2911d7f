------------------------------ MODULE MCQuotes ------------------------------
(* Instances of Quotes for TLC. *)
EXTENDS Quotes

MCOffer(side, n, k) == [kind |-> side, price |-> [n |-> n, k |-> k], size |-> [n |-> 10, k |-> 0]]

\* Bids of 0.44, of 0.449, the same to two digits, and of 0.47; an ask of 0.55.
MCOffers == {MCOffer("buy", 44, 2), MCOffer("buy", 449, 3), MCOffer("buy", 47, 2),
             MCOffer("sell", 55, 2)}

\* Nothing, a bid, and a bid of another price and an ask.
MCWanted == {<<NoOffer, NoOffer>>, <<MCOffer("buy", 44, 2), NoOffer>>,
             <<MCOffer("buy", 449, 3), MCOffer("sell", 55, 2)>>,
             <<MCOffer("buy", 47, 2), MCOffer("sell", 55, 2)>>}
=============================================================================
