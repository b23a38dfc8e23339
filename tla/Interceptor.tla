---------------------------- MODULE Interceptor ----------------------------
(***************************************************************************)
(* The counters of biz/util/interceptor: a Redis key counted up by a Lua   *)
(* script, which Redis runs without interruption.  A key is known by its   *)
(* count and its time to live.                                             *)
(***************************************************************************)
EXTENDS Integers

NoTTL == -1
NoKey == [count |-> 0, ttl |-> 0]
Counters(window) == [count : Nat, ttl : {NoTTL} \cup 0..window]

\* luaScript: INCR, and EXPIRE when the key is new or has no time to live.
NeverExpires(c, window) == c.ttl
AlwaysRenewed(c, window) == window
NewKeyOnly(c, window) == IF c.count = 0 THEN window ELSE c.ttl
Healed(c, window) == IF c.count = 0 \/ c.ttl = NoTTL THEN window ELSE c.ttl
Incr(c, window) == [count |-> c.count + 1, ttl |-> Healed(c, window)]

\* Allow has answered: the count it has left in the key is within the limit.
AllowedPastLimit(c, limit) == c.count <= limit + 1
Allowed(c, limit) == c.count <= limit

\* ReachLimit; a GET of no key is an error and counts as "not reached".
ReachedTooLate(c, limit) == c.count > limit
Reached(c, limit) == c.count # 0 /\ c.count >= limit

\* One unit of time later: Redis drops a key whose time to live is over.
Older(ttl) == IF ttl > 0 THEN ttl - 1 ELSE ttl
Aged(c) == IF c.ttl = 1 THEN NoKey ELSE [c EXCEPT !.ttl = Older(c.ttl)]
=============================================================================
