---------------------------- MODULE MCRateLimit ----------------------------
\* TLC instance of RateLimit: a path limited by session and one without a
\* configuration, which takes the address; clients behind one address, with a
\* session and without.
EXTENDS RateLimit, TLC

BySession == "/info" :> [window |-> 2, limit |-> 2, hasSession |-> TRUE]
TwoClients == {[ip |-> "i1", sid |-> "s1"], [ip |-> "i1", sid |-> ""]}
=============================================================================
