------------------------------ MODULE MCUniverse ------------------------------
(* Instances of Universe for TLC. *)
EXTENDS Universe, TLC

Symmetry == Permutations(Refreshers)

Ok(id, closed, reward) == Record(id, "ok", closed, TRUE, TRUE, reward)

Bad(id, form) == Record(id, form, FALSE, TRUE, TRUE, TRUE)

\* Three events, one of a market that is set aside; the same with a market closed,
\* one gone and one new; one whose second page cannot be parsed.
MCCatalogs == {<< <<Ok(1, FALSE, TRUE)>>, <<Bad(9, "odd")>>, <<Ok(3, FALSE, TRUE), Ok(4, FALSE, FALSE)>> >>,
               << <<Ok(1, TRUE, TRUE)>>, <<Ok(2, FALSE, TRUE)>>, <<Ok(3, FALSE, TRUE)>> >>,
               << <<Ok(1, FALSE, TRUE)>>, <<Ok(2, FALSE, TRUE)>>, <<Bad(9, "broken")>> >>}

MCPolicy == [active_only |-> TRUE, require_reward |-> TRUE, include |-> {4}, exclude |-> {},
             bypass |-> FALSE]

\* The two assets of a market.
MCAssetsOf == [id \in 1..9 |-> {2 * id, 2 * id + 1}]
=============================================================================
