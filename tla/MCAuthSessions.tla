-------------------------- MODULE MCAuthSessions ---------------------------
(* AuthSessions for TLC: the requests are interchangeable, and the calls of *)
(* logout_all.  The view leaves out what no later step and no property asks  *)
(* for: an index entry of a key that is gone, or its place among the keys of *)
(* a purge, since such a key never returns; the age of a token that neither  *)
(* Redis nor a request has and whose access token has run out; who signed    *)
(* out once a logout_all has begun; and what was sealed by an epoch that is  *)
(* gone.                                                                     *)
EXTENDS AuthSessions, TLC

Symmetry == Permutations(Request) \cup Permutations(LogoutAll)

InUse(t) == t \in store \/ \E r \in Request : req[r].key = t

Age(t) == IF InUse(t) \/ now < created[t] + AccessTtl THEN created[t] ELSE 0

View ==
  <<now, minted, [t \in Token |-> Age(t)], session, store, index \cap store,
    epoch, epochEnd, req,
    [c \in LogoutAll |-> [la[c] EXCEPT !.keys = @ \cap store]], lost,
    IF NoLogoutAllYet THEN signedOut ELSE {},
    IF EpochLive THEN sealed ELSE {}>>
=============================================================================
