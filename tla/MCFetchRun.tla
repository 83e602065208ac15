----------------------------- MODULE MCFetchRun -----------------------------
(* Instances of FetchRun for TLC: sources whose feeds overlap. *)
EXTENDS FetchRun

CONSTANTS blog, hn, a1, a2, p1, p2

BothFeeds == [s \in Source |-> Article]
\* The blog also lists an article without a link.
OneShared == [s \in Source |-> IF s = blog THEN {a1, a2} ELSE {a1}]
=============================================================================
