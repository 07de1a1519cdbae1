--------------------------- MODULE MCReviewerPage ---------------------------
(* ReviewerPage on a small instance: the bounds are in page.cfg.           *)
EXTENDS ReviewerPage

\* Of a signal on its way, a posted click and a last call of onPageFinished
\* one is looked at at a time.  None of them ever has to happen, so that no
\* liveness is lost.
OneAtATime ==
    Len(signals) + clicks + (IF Len(page.chains) = MaxFinished THEN 1 ELSE 0) <= 1
=============================================================================
