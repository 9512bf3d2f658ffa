----------------------------- MODULE MCHandlers -----------------------------
(* Small instance of Handlers: three requests of any family; two clients, two
   different job lines and tables of at most two jobs, so that an index can
   point at nothing, at the job that was meant and at another one; two visitors
   and the two feeds of a page, where 2 and 3 stand for 8 articles of a feed and
   12 of a page, and the clock runs past the lifetime of an entry and of the one
   stored after it. *)
EXTENDS Handlers

CONSTANTS r1, r2, r3, c1, c2, a, b, none, v1, v2, f1, f2

MCRequests == {r1, r2, r3}
MCClients == {c1, c2}
MCLines == {a, b}
MCVisitors == {v1, v2}
MCFeeds == {f1, f2}

(* The groups share nothing, so one exchange may act on all of them at once. *)
Exchanges(x1, y1, x2, y2) ==
    {p \in Permutations({x1, y1, x2, y2}) :
        {p[x1], p[y1]} = {x1, y1} /\ (p[x1] = x1 <=> p[x2] = x2)}

Symmetry == Exchanges(c1, c2, v1, v2) \cup Exchanges(a, b, f1, f2)
=============================================================================
