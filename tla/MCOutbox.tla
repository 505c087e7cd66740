----------------------------- MODULE MCOutbox -----------------------------
(* Instances of Outbox for TLC: a page of three elements, two of which     *)
(* show the same post, and a smaller one of an element for each post.      *)
EXTENDS Outbox

CONSTANTS e1, e2, e3, p1, p2

MCElements == {e1, e2, e3}

MCPosts == {p1, p2}

MCPostOf == (e1 :> p1) @@ (e2 :> p1) @@ (e3 :> p2)

\* The two elements of one post are alike.
TwoAlike == Permutations({e1, e2})

TwoElements == {e1, e3}

TwoPostOf == (e1 :> p1) @@ (e3 :> p2)

===========================================================================
