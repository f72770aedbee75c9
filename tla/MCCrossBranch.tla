---- MODULE MCCrossBranch ----
(* Instances of CrossBranch for TLC: a supervisor p below r, three agents below p. *)
EXTENDS CrossBranch, TLC

CONSTANTS r, p, c, d, e, x

Give(n) == [name |-> n, delegable |-> TRUE]

G(i, from, to, scopes, since, until, parent, peer) ==
    [id |-> i, grantor |-> from, grantee |-> to, scopes |-> scopes,
     from |-> since, until |-> until, parent |-> parent, peer |-> peer]

CharterOnly == {G(3, Deployment, p, <<Give(x)>>, 0, 1, None, None)}

Tree == [a \in Agents |-> IF a = r THEN None ELSE IF a = p THEN r ELSE p]
TreeOnly == {Tree}

PairRequests ==
    {[requester |-> c, peer |-> d, class |-> x, expires |-> 1],
     [requester |-> c, peer |-> e, class |-> x, expires |-> 1]}
====
