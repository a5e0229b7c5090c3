------------------------------ MODULE FreshView ------------------------------
(***************************************************************************)
(* What the dashboard promises a browser, apart from how it is computed.   *)
(* Accepted batches accumulate; the pages are replaced all together by     *)
(* pages made from one set of accepted batches, and they never go back to  *)
(* older data nor show a batch that was not accepted.                      *)
(***************************************************************************)
CONSTANTS
    Batches,    \* block samples that an ingest request may carry
    Pages       \* the vantage x transport keys of the response cache

VARIABLES
    accepted,   \* batches on disk
    view        \* the batches each page was computed from

vars == <<accepted, view>>

Init ==
    /\ accepted \in SUBSET Batches
    /\ view = [page \in Pages |-> accepted]

Accept(batch) ==
    /\ batch \notin accepted
    /\ accepted' = accepted \union {batch}
    /\ UNCHANGED view

\* All pages change at once, to one set that loses nothing already shown.
Replace ==
    \E shown \in SUBSET accepted :
        /\ \A page \in Pages : view[page] \subseteq shown
        /\ view' = [page \in Pages |-> shown]
        /\ UNCHANGED accepted

Next == Replace \/ \E batch \in Batches : Accept(batch)

Spec == Init /\ [][Next]_vars
=============================================================================
