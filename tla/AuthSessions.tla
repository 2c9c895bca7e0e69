---------------------------- MODULE AuthSessions ----------------------------
(***************************************************************************)
(* Refresh-token sessions of one user, as kept in Redis by                 *)
(* shared/auth/local.py: logging in and refreshing mint a key              *)
(* "refresh:<hash>" holding the second it was minted in, a set             *)
(* "user_sessions:<uid>" indexes the keys, and logout_all writes a per-user *)
(* revocation epoch, reads the index, deletes its keys and drops it.       *)
(* Every Redis command is one step: the coroutines of several API workers  *)
(* interleave between them.  Clocks count whole seconds, int(timestamp()). *)
(*                                                                         *)
(* A token is the number of its minting.  A session is the number of the   *)
(* token its login minted; refreshing hands the session on to a new token. *)
(* The 30-day expiry of a refresh key is not modelled.                     *)
(***************************************************************************)
EXTENDS Naturals, FiniteSets

CONSTANTS
  Request,         \* concurrent login and refresh requests
  MaxTokens,       \* bound: refresh tokens ever minted
  MaxClock,        \* bound: the last second of a behaviour
  MaxLost,         \* bound: tokens that go down with a request
  LogoutAll,       \* calls of logout_all, which may overlap
  AccessTtl,       \* ACCESS_TOKEN_TTL_SECONDS
  EpochTtl,        \* how long the epoch key lives, AccessTtl plus a margin
  RedisFails,      \* whether the best-effort Redis commands may fail
  EpochReadFails   \* whether reading the epoch may fail, which lets through

ASSUME AuthAssumption ==
  /\ {MaxTokens, MaxClock, MaxLost, AccessTtl, EpochTtl} \subseteq Nat
  /\ AccessTtl < EpochTtl
  /\ {RedisFails, EpochReadFails} \subseteq BOOLEAN

VARIABLES
  now,        \* the current second
  minted,     \* how many tokens have been minted
  created,    \* per token, the created_at of its Redis value
  session,    \* per token, the session it belongs to
  store,      \* the tokens whose key is in Redis
  index,      \* the members of the user's session index
  epoch,      \* the last revocation epoch written, 0 before the first
  epochEnd,   \* when the epoch key expires
  req,        \* the requests in flight
  la,         \* the calls of logout_all
  signedOut,  \* sessions that a logout named
  sealed,     \* sessions at rest at the last epoch written, no younger than it
  lost        \* tokens that went down with the request working on them

clientVars == <<signedOut, sealed, lost>>
redisVars == <<store, index, epoch, epochEnd>>
mintVars == <<minted, created, session>>
vars == <<now, mintVars, redisVars, req, la, clientVars>>

Token == 1..MaxTokens

(* Steps of a request.  check, gate, rotate: a refresh that has read its key; *)
(* stamp, set, add: minting, which a login enters directly.                   *)
Pc == {"idle", "check", "gate", "rotate", "stamp", "set", "add"}

(* The commands of logout_all. *)
Phase == {"new", "epoch", "members", "keys", "index", "done"}

(* session is 0 for a login that has not minted yet. *)
Idle == [pc |-> "idle", key |-> 0, session |-> 0]
LaNew == [phase |-> "new", epoch |-> 0, keys |-> {}]

TypeOK ==
  /\ now \in 0..MaxClock
  /\ minted \in 0..MaxTokens
  /\ created \in [Token -> 0..MaxClock]
  /\ session \in [Token -> 0..MaxTokens]
  /\ store \subseteq Token /\ index \subseteq Token
  /\ epoch \in 0..MaxClock /\ epochEnd \in 0..(MaxClock + EpochTtl)
  /\ req \in [Request -> [pc: Pc, key: 0..MaxTokens, session: 0..MaxTokens]]
  /\ la \in [LogoutAll -> [phase: Phase, epoch: 0..MaxClock, keys: SUBSET Token]]
  /\ signedOut \subseteq Token /\ sealed \subseteq Token /\ lost \subseteq Token

Init ==
  /\ now = 0 /\ minted = 0
  /\ created = [t \in Token |-> 0] /\ session = [t \in Token |-> 0]
  /\ store = {} /\ index = {} /\ epoch = 0 /\ epochEnd = 0
  /\ req = [r \in Request |-> Idle]
  /\ la = [c \in LogoutAll |-> LaNew]
  /\ signedOut = {} /\ sealed = {} /\ lost = {}

-----------------------------------------------------------------------------
(* The epoch key and what is checked against it. *)

EpochExpiryWithoutWindow(t) == t + (EpochTtl - AccessTtl)  \* mutant: margin only
EpochExpiry(t) == t + EpochTtl

EpochLive == now < epochEnd

(* _is_session_revoked_by_epoch. *)
RevokedByEpoch(t) == EpochLive /\ created[t] <= epoch

(* get_current_user: an access token is good until it expires, unless its iat *)
(* lies before a live epoch.                                                  *)
Accepted(iat) == now < iat + AccessTtl /\ ~ (EpochLive /\ iat < epoch)

(* A best-effort Redis command: the value it leaves, when it may also fail. *)
Attempted(new, old) == {new} \cup (IF RedisFails THEN {old} ELSE {})

-----------------------------------------------------------------------------
(* Requests. *)

(* The next step of a refresh once a step has let it through. *)
FollowingRotatesFirst == [check |-> "rotate", rotate |-> "gate", gate |-> "stamp"]
Following == [check |-> "gate", gate |-> "rotate", rotate |-> "stamp"]

Proceed(r) == req' = [req EXCEPT ![r].pc = Following[req[r].pc]]
Finish(r) == req' = [req EXCEPT ![r] = Idle]

(* The tokens a client has: a token is handed over when its request ends well. *)
Delivered ==
  {t \in store \ lost : \A r \in Request : req[r].pc = "add" => req[r].key # t}

(* authenticate, register and the SSO callbacks, up to issuing the tokens. *)
Login(r) ==
  /\ req[r].pc = "idle"
  /\ minted < MaxTokens
  /\ req' = [req EXCEPT ![r] = [Idle EXCEPT !.pc = "stamp"]]
  /\ UNCHANGED <<now, mintVars, redisVars, la, clientVars>>

(* refresh reads its key; a missing key is refused and changes nothing. *)
Refresh(r) ==
  /\ req[r].pc = "idle"
  /\ minted < MaxTokens
  /\ \E t \in Delivered :
       req' = [req EXCEPT ![r] = [pc |-> "check", key |-> t, session |-> session[t]]]
  /\ UNCHANGED <<now, mintVars, redisVars, la, clientVars>>

(* The epoch lets the refresh through, or could not be read. *)
EpochPasses(r) ==
  /\ req[r].pc = "check"
  /\ ~ RevokedByEpoch(req[r].key) \/ EpochReadFails
  /\ Proceed(r)
  /\ UNCHANGED <<now, mintVars, redisVars, la, clientVars>>

(* The epoch refuses the refresh, which removes the stale key. *)
EpochRefuses(r) ==
  /\ req[r].pc = "check"
  /\ RevokedByEpoch(req[r].key)
  /\ store' = store \ {req[r].key}
  /\ index' \in Attempted(index \ {req[r].key}, index)
  /\ Finish(r)
  /\ UNCHANGED <<now, mintVars, epoch, epochEnd, la, clientVars>>

(* The account is live in Postgres. *)
GatePasses(r) ==
  /\ req[r].pc = "gate"
  /\ Proceed(r)
  /\ UNCHANGED <<now, mintVars, redisVars, la, clientVars>>

(* The account is suspended or erased, or Postgres cannot say: the request  *)
(* fails and the client still holds its token.                              *)
GateRefuses(r) ==
  /\ req[r].pc = "gate"
  /\ Finish(r)
  /\ UNCHANGED <<now, mintVars, redisVars, la, clientVars>>

(* The key read is deleted, whether or not it is still there, and untracked. *)
Rotate(r) ==
  /\ req[r].pc = "rotate"
  /\ store' = store \ {req[r].key}
  /\ index' \in Attempted(index \ {req[r].key}, index)
  /\ Proceed(r)
  /\ UNCHANGED <<now, mintVars, epoch, epochEnd, la, clientVars>>

CreatedAt == now

(* _issue_tokens: the access token and the value of the refresh key are made, *)
(* so created[t] is also the iat of the access token issued with t.           *)
Stamp(r) ==
  /\ req[r].pc = "stamp"
  /\ minted < MaxTokens
  /\ LET t == minted + 1
         s == IF req[r].session = 0 THEN t ELSE req[r].session
     IN /\ minted' = t
        /\ created' = [created EXCEPT ![t] = CreatedAt]
        /\ session' = [session EXCEPT ![t] = s]
        /\ req' = [req EXCEPT ![r] = [pc |-> "set", key |-> t, session |-> s]]
  /\ UNCHANGED <<now, redisVars, la, clientVars>>

(* SETEX of the new key. *)
SetKey(r) ==
  /\ req[r].pc = "set"
  /\ store' = store \cup {req[r].key}
  /\ req' = [req EXCEPT ![r].pc = "add"]
  /\ UNCHANGED <<now, mintVars, index, epoch, epochEnd, la, clientVars>>

(* SADD to the index, best effort; the tokens are then handed to the client. *)
AddToIndex(r) ==
  /\ req[r].pc = "add"
  /\ index' \in Attempted(index \cup {req[r].key}, index)
  /\ Finish(r)
  /\ UNCHANGED <<now, mintVars, store, epoch, epochEnd, la, clientVars>>

(* A command of the request raises, or its process dies.  What it had taken  *)
(* from Redis or was about to hand over goes down with it: the old key once   *)
(* its DEL is done, the new token from the moment it is made.                 *)
Taken(r) == {k \in {req[r].key} : k # 0 /\ req[r].pc \in {"stamp", "set", "add"}}

RequestDies(r) ==
  /\ req[r].pc # "idle"
  /\ Cardinality(lost \cup Taken(r)) <= MaxLost
  /\ lost' = lost \cup Taken(r)
  /\ Finish(r)
  /\ UNCHANGED <<now, mintVars, redisVars, la, signedOut, sealed>>

(* logout of one session by the holder of its token.  A key's value never   *)
(* changes, so the ownership check and the deletion are one step.           *)
Logout(t) ==
  /\ t \in Delivered
  /\ store' = store \ {t}
  /\ index' \in Attempted(index \ {t}, index)
  /\ signedOut' = signedOut \cup {session[t]}
  /\ UNCHANGED <<now, mintVars, epoch, epochEnd, req, la, sealed, lost>>

-----------------------------------------------------------------------------
(* logout_all, by several callers at once. *)

LogoutOrderPurgeFirst == <<"members", "keys", "index", "epoch">>  \* the old order
LogoutOrder == <<"epoch", "members", "keys", "index">>

PlaceOf(p) == CHOOSE i \in 1..4 : LogoutOrder[i] = p
NextPhase(p) == IF PlaceOf(p) = 4 THEN "done" ELSE LogoutOrder[PlaceOf(p) + 1]

(* Sessions no request is working on, with every key at or before e. *)
AtRest(e) ==
  {s \in {session[t] : t \in store} :
     /\ \A r \in Request : req[r].session # s
     /\ \A t \in store : session[t] = s => created[t] <= e}

(* Bookkeeping for the properties, at a call's first Redis command. *)
Witness(c, p) ==
  IF PlaceOf(p) = 1 THEN sealed' = AtRest(la[c].epoch) ELSE UNCHANGED sealed

LogoutAllBegins(c) ==
  /\ la[c].phase = "new"
  /\ la' = [la EXCEPT ![c].phase = LogoutOrder[1], ![c].epoch = now]
  /\ UNCHANGED <<now, mintVars, redisVars, req, clientVars>>

(* SETEX of the epoch, over whatever epoch another call wrote meanwhile; the *)
(* purge follows even when the write has failed.                             *)
WriteEpoch(c) ==
  /\ la[c].phase = "epoch"
  /\ \/ epoch' = la[c].epoch /\ epochEnd' = EpochExpiry(now) /\ Witness(c, "epoch")
     \/ RedisFails /\ UNCHANGED <<epoch, epochEnd, sealed>>
  /\ la' = [la EXCEPT ![c].phase = NextPhase("epoch"), ![c].epoch = 0]
  /\ UNCHANGED <<now, mintVars, store, index, req, signedOut, lost>>

(* SMEMBERS. *)
ReadIndex(c) ==
  /\ la[c].phase = "members"
  /\ Witness(c, "members")
  /\ la' = [la EXCEPT ![c].phase = NextPhase("members"), ![c].keys = index]
  /\ UNCHANGED <<now, mintVars, redisVars, req, signedOut, lost>>

(* DEL of the keys read. *)
DeleteKeys(c) ==
  /\ la[c].phase = "keys"
  /\ store' = store \ la[c].keys
  /\ la' = [la EXCEPT ![c].phase = NextPhase("keys"), ![c].keys = {}]
  /\ UNCHANGED <<now, mintVars, index, epoch, epochEnd, req, clientVars>>

(* DEL of the index as it is now, keys added since SMEMBERS included. *)
DropIndex(c) ==
  /\ la[c].phase = "index"
  /\ index' = {}
  /\ la' = [la EXCEPT ![c].phase = NextPhase("index")]
  /\ UNCHANGED <<now, mintVars, store, epoch, epochEnd, req, clientVars>>

(* A command of the purge fails, which ends the call, or its process dies. *)
LogoutAllStops(c) ==
  /\ la[c].phase \notin {"new", "done"}
  /\ la' = [la EXCEPT ![c] = [LaNew EXCEPT !.phase = "done"]]
  /\ UNCHANGED <<now, mintVars, redisVars, req, clientVars>>

Tick ==
  /\ now < MaxClock
  /\ now' = now + 1
  /\ UNCHANGED <<mintVars, redisVars, req, la, clientVars>>

RequestStep(r) ==
  \/ Login(r) \/ Refresh(r)
  \/ EpochPasses(r) \/ EpochRefuses(r) \/ GatePasses(r) \/ GateRefuses(r)
  \/ Rotate(r) \/ Stamp(r) \/ SetKey(r) \/ AddToIndex(r)
  \/ RequestDies(r)

LogoutAllStep(c) ==
  \/ LogoutAllBegins(c) \/ WriteEpoch(c) \/ ReadIndex(c) \/ DeleteKeys(c) \/ DropIndex(c)
  \/ LogoutAllStops(c)

Next ==
  \/ \E r \in Request : RequestStep(r)
  \/ \E t \in Token : Logout(t)
  \/ \E c \in LogoutAll : LogoutAllStep(c)
  \/ Tick

Spec == Init /\ [][Next]_vars

-----------------------------------------------------------------------------
(* Properties. *)

Exchanging(r) == req[r].pc \in {"gate", "rotate", "stamp", "set", "add"}

(* While the epoch key lives, no session that was at rest when its epoch was *)
(* written gets past the check of a refresh, even when the index missed the  *)
(* session's key or the purge failed.  It speaks of the last epoch written:  *)
(* a slow logout_all may put an earlier second over that of a faster one.    *)
SealedSessionsStayOut ==
  EpochLive => \A r \in Request : Exchanging(r) => req[r].session \notin sealed

(* No access token issued before the second of the last epoch written is     *)
(* accepted, not even once the epoch key itself has gone.                    *)
AccessTokensStayRevoked ==
  \A t \in 1..minted : created[t] < epoch => ~ Accepted(created[t])

NoLogoutAllYet == \A c \in LogoutAll : la[c].phase = "new"

(* Sessions one of whose requests died between its DEL and its answer. *)
Broken == {session[t] : t \in lost}

(* As long as no logout_all has begun, a session its user did not sign out is *)
(* lost only where a request died after it had deleted the old key (there the *)
(* code offers no way back): failing index commands, a refusing or failing    *)
(* database, a failing check and two refreshes with one token never cost it.  *)
(* Its key is in Redis or a request that took it is about to store the next.  *)
RotationKeepsSession ==
  NoLogoutAllYet =>
    \A s \in {session[t] : t \in 1..minted} \ (signedOut \cup Broken) :
      \/ \E t \in store : session[t] = s
      \/ \E r \in Request : req[r].session = s /\ req[r].pc \in {"stamp", "set"}

(* What the module doc says of logout_all: "This closes the window even when *)
(* logout_all completes between the Redis GET and the Redis DELETE in        *)
(* refresh()".  Once a call has ended, every key a refresh stored for a      *)
(* login made by the second of the epoch is one that the epoch refuses.      *)
LogoutAllClosesTheWindow ==
  (\A c \in LogoutAll : la[c].phase \in {"new", "done"}) /\ EpochLive =>
    \A t \in store :
      t # session[t] /\ created[session[t]] <= epoch => RevokedByEpoch(t)

=============================================================================
