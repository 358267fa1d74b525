---------------------------- MODULE MCClientFeed -----------------------------
(* Two pages of one host, with the bounds of the behaviours that TLC explores.  *)
EXTENDS ClientFeed, TLC

CONSTANTS c1, c2

\* One page that is shown once, with faults; two pages that share the reads of
\* the projection and the poll; a page that is hidden, revealed and navigates
MCBounds ==
    {[commits |-> 2, foreign |-> 1, faults |-> 2, visits |-> (c1 :> 1 @@ c2 :> 0)],
     [commits |-> 2, foreign |-> 1, faults |-> 0, visits |-> (c1 :> 1 @@ c2 :> 1)],
     [commits |-> 1, foreign |-> 1, faults |-> 0, visits |-> (c1 :> 3 @@ c2 :> 0)]}
=============================================================================
