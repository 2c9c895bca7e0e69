------------------------- MODULE AuthSessionsProofs -------------------------
(***************************************************************************)
(* Machine-checked proofs about AuthSessions, for any number of requests    *)
(* and tokens.  What a request does between two of its commands is one of   *)
(* three kinds of step (Quiet, Stamp, Logout), and there is a lemma for     *)
(* each kind, beside those for logout_all and for the clock.                *)
(***************************************************************************)
EXTENDS AuthSessions, TLAPS

-----------------------------------------------------------------------------
(* AuthSessions.                                                            *)

Minted == 1..minted

\* What a request q may hold: a minted key and its session, or neither.
Fits(q) ==
    \/ q.pc \in {"idle", "stamp"} /\ q.key = 0 /\ q.session = 0
    \/ q.key \in Minted /\ q.session = session[q.key]

\* What has been minted is known: keys, sessions and the sessions of a logout_all are of
\* tokens minted before, and a request that holds a key works for that key's session.
KeysAreMinted ==
    /\ store \subseteq Minted /\ sealed \subseteq Minted /\ lost \subseteq Minted
    /\ \A t \in Minted : session[t] \in Minted
    /\ \A r \in Request : Fits(req[r])

\* The epoch key outlives every access token issued before its epoch.
EpochOutlivesTokens ==
    /\ \A c \in LogoutAll : la[c].epoch <= now
    /\ epoch > 0 => epochEnd >= epoch + EpochTtl

\* Before the first logout_all there is no epoch.
NoEpochYet == NoLogoutAllYet => epochEnd = 0

Base == TypeOK /\ KeysAreMinted /\ EpochOutlivesTokens /\ NoEpochYet

\* While the epoch lives, a key of a sealed session is one that the check refuses, and no
\* request for such a session is past the check.
SealedKeysAreStale ==
    EpochLive =>
        /\ \A t \in store : session[t] \in sealed => created[t] <= epoch
        /\ \A r \in Request : req[r].session \in sealed =>
              /\ ~Exchanging(r)
              /\ req[r].pc = "check" => created[req[r].key] <= epoch

\* The order of the commands of logout_all.
LEMMA Phases ==
  /\ LogoutOrder[1] = "epoch"
  /\ PlaceOf("epoch") = 1 /\ PlaceOf("members") = 2
  /\ NextPhase("epoch") = "members" /\ NextPhase("members") = "keys"
  /\ NextPhase("keys") = "index" /\ NextPhase("index") = "done"
  <1>1. /\ LogoutOrder[1] = "epoch" /\ LogoutOrder[2] = "members"
        /\ LogoutOrder[3] = "keys" /\ LogoutOrder[4] = "index"
    BY DEF LogoutOrder
  <1>2. \A i \in 1..4 : i = 1 \/ i = 2 \/ i = 3 \/ i = 4
    OBVIOUS
  <1>3. \A p, i : i \in 1..4 /\ LogoutOrder[i] = p /\ (\A k \in 1..4 : LogoutOrder[k] = p => k = i)
                    => PlaceOf(p) = i
    BY DEF PlaceOf
  <1> HIDE DEF LogoutOrder
  <1>4. PlaceOf("epoch") = 1
    BY <1>1, <1>2, <1>3
  <1>5. PlaceOf("members") = 2
    BY <1>1, <1>2, <1>3
  <1>6. PlaceOf("keys") = 3
    BY <1>1, <1>2, <1>3
  <1>7. PlaceOf("index") = 4
    BY <1>1, <1>2, <1>3
  <1> QED
    BY <1>1, <1>4, <1>5, <1>6, <1>7 DEF NextPhase

LEMMA InitBase == Init => Base
  BY AuthAssumption
  DEF Init, Base, TypeOK, KeysAreMinted, EpochOutlivesTokens, NoEpochYet, Fits, Idle, LaNew, Pc, Phase,
      Token, Minted

RequestType == [pc : Pc, key : 0..MaxTokens, session : 0..MaxTokens]

\* A request that mints nothing moves within what has been minted.
LEMMA RequestMoves ==
  ASSUME Base, NEW r \in Request, NEW q \in RequestType, req' = [req EXCEPT ![r] = q],
         UNCHANGED <<now, mintVars, epoch, epochEnd, la>>,
         store' \subseteq store \cup {k \in {q.key} : k \in Minted}, index' \subseteq Token,
         signedOut' \subseteq Token, sealed' = sealed, lost' \subseteq Minted, Fits(q)
  PROVE  Base'
  <1>1. req'[r] = q /\ \A i \in Request \ {r} : req'[i] = req[i]
    BY DEF Base, TypeOK
  <1>2. TypeOK'
    <2>1. Minted \subseteq Token
      BY AuthAssumption DEF Base, TypeOK, Minted, Token
    <2> QED
      BY <2>1 DEF Base, TypeOK, KeysAreMinted, mintVars, RequestType
  <1>3. Minted' = Minted /\ session' = session
    BY DEF mintVars, Minted
  <1>4. KeysAreMinted'
    BY <1>1, <1>3 DEF Base, KeysAreMinted, Fits
  <1>5. EpochOutlivesTokens' /\ NoEpochYet'
    BY DEF Base, EpochOutlivesTokens, NoEpochYet, NoLogoutAllYet
  <1> QED
    BY <1>2, <1>4, <1>5 DEF Base

LEMMA RequestFacts ==
  ASSUME Base, NEW r \in Request
  PROVE  /\ req[r] \in RequestType /\ req[r].session \in {0} \cup Minted /\ Fits(req[r])
         /\ req[r].pc \in {"check", "gate", "rotate", "set", "add"} =>
               req[r].key \in Minted /\ req[r].session = session[req[r].key]
         /\ Minted \subseteq Token /\ store \subseteq Minted /\ index \subseteq Token
         /\ signedOut \subseteq Token /\ lost \subseteq Minted
         /\ Idle \in RequestType /\ Fits(Idle)
  <1>1. req[r] \in RequestType /\ index \subseteq Token /\ signedOut \subseteq Token
    BY DEF Base, TypeOK, RequestType
  <1>2. /\ Fits(req[r]) /\ store \subseteq Minted /\ lost \subseteq Minted
        /\ req[r].session \in {0} \cup Minted
        /\ req[r].pc \in {"check", "gate", "rotate", "set", "add"} =>
              req[r].key \in Minted /\ req[r].session = session[req[r].key]
    BY DEF Base, KeysAreMinted, Fits
  <1>3. Minted \subseteq Token
    BY AuthAssumption DEF Base, TypeOK, Minted, Token
  <1>4. Idle \in RequestType /\ Fits(Idle)
    BY AuthAssumption DEF Idle, RequestType, Pc, Fits
  <1> QED
    BY <1>1, <1>2, <1>3, <1>4

\* The requests that mint nothing: what each leaves in its place.
Quiet(r) ==
    \/ Login(r) \/ Refresh(r) \/ EpochPasses(r) \/ EpochRefuses(r) \/ GatePasses(r)
    \/ GateRefuses(r) \/ Rotate(r) \/ SetKey(r) \/ AddToIndex(r) \/ RequestDies(r)

LEMMA QuietBase == ASSUME Base, NEW r \in Request, Quiet(r) PROVE Base'
  <1> USE RequestFacts
  <1> DEFINE Goes(q) ==
        /\ req' = [req EXCEPT ![r] = q]
        /\ Fits(q)
        /\ store' \subseteq store \cup {k \in {q.key} : k \in Minted}
  <1>1. \E q \in RequestType : Goes(q)
    <2>1. CASE Login(r)
      <3> DEFINE q == [pc |-> "stamp", key |-> 0, session |-> 0]
      <3>1. [Idle EXCEPT !.pc = "stamp"] = q
        BY DEF Idle
      <3>2. q \in RequestType
        BY AuthAssumption DEF RequestType, Pc
      <3>3. Goes(q)
        BY <2>1, <3>1 DEF Login, redisVars, Fits
      <3> QED
        BY <3>2, <3>3
    <2>2. CASE Refresh(r)
      <3>1. PICK t \in store : req' = [req EXCEPT ![r] = [pc |-> "check", key |-> t, session |-> session[t]]]
        BY <2>2 DEF Refresh, Delivered
      <3> DEFINE q == [pc |-> "check", key |-> t, session |-> session[t]]
      <3>2. t \in Minted /\ session[t] \in Minted
        BY DEF Base, KeysAreMinted
      <3>3. q \in RequestType
        <4>1. t \in Token /\ session[t] \in Token
          BY <3>2
        <4> QED
          BY <4>1, AuthAssumption DEF RequestType, Pc, Token
      <3>4. Goes(q)
        BY <2>2, <3>1, <3>2 DEF Refresh, redisVars, Fits
      <3> QED
        BY <3>3, <3>4
    <2>3. CASE EpochPasses(r) \/ GatePasses(r) \/ Rotate(r)
      <3>1. PICK p \in {"gate", "rotate", "stamp"} :
               req' = [req EXCEPT ![r].pc = p] /\ req[r].pc \in {"check", "gate", "rotate"}
        BY <2>3 DEF EpochPasses, GatePasses, Rotate, Proceed, Following
      <3> DEFINE q == [req[r] EXCEPT !.pc = p]
      <3>2. q \in RequestType
        BY DEF RequestType, Pc
      <3>3. q.key = req[r].key /\ q.session = req[r].session /\ q.pc = p
        BY DEF RequestType
      <3>4. req' = [req EXCEPT ![r] = q] /\ store' \subseteq store
        BY <2>3, <3>1 DEF EpochPasses, GatePasses, Rotate, redisVars
      <3> HIDE DEF q
      <3>5. Goes(q)
        BY <3>1, <3>3, <3>4 DEF Fits
      <3> QED
        BY <3>2, <3>5
    <2>4. CASE EpochRefuses(r) \/ GateRefuses(r) \/ AddToIndex(r) \/ RequestDies(r)
      <3>1. Goes(Idle)
        BY <2>4 DEF EpochRefuses, GateRefuses, AddToIndex, RequestDies, Finish, redisVars
      <3> QED
        BY <3>1
    <2>5. CASE SetKey(r)
      <3> DEFINE q == [req[r] EXCEPT !.pc = "add"]
      <3>1. q \in RequestType
        BY DEF RequestType, Pc
      <3>2. q.key = req[r].key /\ q.session = req[r].session /\ q.pc = "add"
        BY DEF RequestType
      <3>3. req' = [req EXCEPT ![r] = q] /\ store' = store \cup {req[r].key} /\ req[r].pc = "set"
        BY <2>5 DEF SetKey
      <3> HIDE DEF q
      <3>4. Goes(q)
        BY <3>2, <3>3 DEF Fits
      <3> QED
        BY <3>1, <3>4
    <2> QED
      BY <2>1, <2>2, <2>3, <2>4, <2>5 DEF Quiet
  <1>2. /\ UNCHANGED <<now, mintVars, epoch, epochEnd, la>>
        /\ UNCHANGED <<signedOut, sealed>>
    BY DEF Quiet, Login, Refresh, EpochPasses, EpochRefuses, GatePasses, GateRefuses, Rotate, SetKey,
           AddToIndex, RequestDies, redisVars, clientVars
  <1>3. index' \subseteq Token
    <2>1. \A k \in Token : Attempted(index \ {k}, index) \subseteq SUBSET Token
      BY DEF Attempted
    <2>2. \A k \in Token : Attempted(index \cup {k}, index) \subseteq SUBSET Token
      BY DEF Attempted
    <2>3. req[r].pc \in {"check", "rotate", "add"} => req[r].key \in Token
      OBVIOUS
    <2> QED
      BY <2>1, <2>2, <2>3
      DEF Quiet, Login, Refresh, EpochPasses, EpochRefuses, GatePasses, GateRefuses, Rotate, SetKey,
          AddToIndex, RequestDies, redisVars
  <1>4. lost' \subseteq Minted
    BY DEF Quiet, Login, Refresh, EpochPasses, EpochRefuses, GatePasses, GateRefuses, Rotate, SetKey,
           AddToIndex, RequestDies, Taken, Fits, clientVars
  <1> QED
    BY <1>1, <1>2, <1>3, <1>4, RequestMoves

LEMMA StampBase == ASSUME Base, NEW r \in Request, Stamp(r) PROVE Base'
  <1> DEFINE t == minted + 1
             s == IF req[r].session = 0 THEN t ELSE req[r].session
             q == [pc |-> "set", key |-> t, session |-> s]
  <1>1. /\ minted' = t /\ created' = [created EXCEPT ![t] = now]
        /\ session' = [session EXCEPT ![t] = s] /\ req' = [req EXCEPT ![r] = q]
        /\ UNCHANGED <<now, store, index, epoch, epochEnd, la, signedOut, sealed, lost>>
        /\ minted < MaxTokens
    BY DEF Stamp, CreatedAt, redisVars, clientVars
  <1>2. minted \in Nat /\ t \in Token /\ t \in Minted' /\ Minted \subseteq Minted' /\ t \notin Minted
        /\ Minted' = Minted \cup {t} /\ Minted' \subseteq 0..MaxTokens
    BY <1>1, AuthAssumption DEF Base, TypeOK, Token, Minted
  <1>3. s \in Minted'
    BY <1>2, RequestFacts
  <1> HIDE DEF s
  <1>4. q \in RequestType
    BY <1>2, <1>3 DEF RequestType, Pc
  <1>5. req'[r] = q /\ \A i \in Request \ {r} : req'[i] = req[i]
    BY <1>1 DEF Base, TypeOK
  <1>6. TypeOK'
    BY <1>1, <1>2, <1>3, <1>4 DEF Base, TypeOK, RequestType, Token
  <1>7. session'[t] = s /\ \A k \in Minted : session'[k] = session[k]
    BY <1>1, <1>2, RequestFacts DEF Base, TypeOK
  <1>8. KeysAreMinted'
    <2>1. ASSUME NEW i \in Request \ {r} PROVE Fits(req[i])'
      <3>1. req'[i] = req[i] /\ Fits(req[i])
        BY <1>5 DEF Base, KeysAreMinted
      <3>2. CASE req[i].pc \in {"idle", "stamp"} /\ req[i].key = 0 /\ req[i].session = 0
        BY <3>1, <3>2 DEF Fits
      <3>3. CASE req[i].key \in Minted /\ req[i].session = session[req[i].key]
        <4>1. req[i].key \in Minted' /\ session'[req[i].key] = session[req[i].key]
          BY <3>3, <1>2, <1>7
        <4> QED
          BY <3>1, <3>3, <4>1 DEF Fits
      <3> QED
        BY <3>1, <3>2, <3>3 DEF Fits
    <2>2. Fits(req[r])'
      BY <1>2, <1>5, <1>7 DEF Fits
    <2> QED
      BY <1>1, <1>2, <1>3, <1>7, <2>1, <2>2 DEF Base, KeysAreMinted
  <1>9. EpochOutlivesTokens' /\ NoEpochYet'
    BY <1>1 DEF Base, EpochOutlivesTokens, NoEpochYet, NoLogoutAllYet
  <1> QED
    BY <1>6, <1>8, <1>9 DEF Base

LEMMA LogoutBase == ASSUME Base, NEW t \in Token, Logout(t) PROVE Base'
  <1>1. /\ t \in store /\ store' = store \ {t} /\ index' \in {index \ {t}, index}
        /\ signedOut' = signedOut \cup {session[t]}
        /\ UNCHANGED <<now, minted, created, session, epoch, epochEnd, req, la, sealed, lost>>
    BY DEF Logout, Delivered, Attempted, mintVars
  <1>2. session[t] \in Token
    <2>1. session[t] \in 1..minted
      BY <1>1 DEF Base, KeysAreMinted, Minted
    <2> QED
      BY <2>1, AuthAssumption DEF Base, TypeOK, Token
  <1>3. TypeOK'
    BY <1>1, <1>2 DEF Base, TypeOK
  <1>4. Minted' = Minted
    BY <1>1 DEF Minted
  <1>5. KeysAreMinted'
    BY <1>1, <1>4 DEF Base, KeysAreMinted, Fits
  <1> QED
    BY <1>1, <1>3, <1>5 DEF Base, EpochOutlivesTokens, NoEpochYet, NoLogoutAllYet

LogoutAllType == [phase : Phase, epoch : 0..MaxClock, keys : SUBSET Token]

\* Logging out everywhere removes keys and writes the epoch.
LEMMA LogoutAllMoves ==
  ASSUME Base, NEW c \in LogoutAll, NEW x \in LogoutAllType, la' = [la EXCEPT ![c] = x],
         x.epoch <= now, x.phase # "new",
         UNCHANGED <<now, minted, created, session, req, signedOut, lost>>,
         store' \subseteq store, index' \subseteq Token, sealed' \subseteq sealed \cup Minted,
         \/ UNCHANGED <<epoch, epochEnd>>
         \/ epoch' = la[c].epoch /\ epochEnd' = now + EpochTtl
  PROVE  Base' /\ ~NoLogoutAllYet'
  <1>1. /\ now \in 0..MaxClock /\ epoch \in 0..MaxClock /\ epochEnd \in 0..(MaxClock + EpochTtl)
        /\ la[c].epoch \in 0..MaxClock /\ MaxClock \in Nat /\ EpochTtl \in Nat /\ la[c].epoch <= now
    BY AuthAssumption DEF Base, TypeOK, EpochOutlivesTokens
  <1>2. epoch' \in 0..MaxClock /\ epochEnd' \in 0..(MaxClock + EpochTtl)
    BY <1>1
  <1>3. Minted' = Minted /\ Minted \subseteq Token
    BY AuthAssumption DEF Minted, Token, Base, TypeOK
  <1>4. la'[c] = x /\ \A i \in LogoutAll \ {c} : la'[i] = la[i]
    BY DEF Base, TypeOK
  <1>5. TypeOK'
    BY <1>2, <1>3 DEF Base, TypeOK, LogoutAllType
  <1>6. KeysAreMinted'
    BY <1>3 DEF Base, KeysAreMinted, Fits
  <1>7. EpochOutlivesTokens'
    BY <1>1, <1>4 DEF Base, EpochOutlivesTokens
  <1>8. ~NoLogoutAllYet'
    BY <1>4 DEF NoLogoutAllYet
  <1> QED
    BY <1>5, <1>6, <1>7, <1>8 DEF Base, NoEpochYet

\* What each command leaves of its call.
LEMMA LogoutAllLeaves ==
  ASSUME Base, NEW c \in LogoutAll, LogoutAllStep(c)
  PROVE  \E x \in LogoutAllType :
            la' = [la EXCEPT ![c] = x] /\ x.phase # "new" /\ x.epoch \in {0, now, la[c].epoch}
  <1>1. la[c] \in LogoutAllType /\ now \in 0..MaxClock /\ 0 \in 0..MaxClock
    BY AuthAssumption DEF Base, TypeOK, LogoutAllType
  <1>2. index \subseteq Token /\ {} \subseteq Token
    BY DEF Base, TypeOK
  <1> DEFINE Becomes(x) == la' = [la EXCEPT ![c] = x] /\ x.phase # "new" /\ x.epoch \in {0, now, la[c].epoch}
  <1>3. CASE LogoutAllBegins(c)
    <2> DEFINE y == [la[c] EXCEPT !.phase = "epoch", !.epoch = now]
    <2>1. la' = [la EXCEPT ![c] = y]
      BY <1>3, Phases DEF LogoutAllBegins
    <2>2. y \in LogoutAllType /\ y.phase # "new" /\ y.epoch \in {0, now, la[c].epoch}
      BY <1>1, <1>2 DEF LogoutAllType, Phase
    <2> HIDE DEF y
    <2>3. Becomes(y)
      BY <2>1, <2>2
    <2> QED
      BY <2>2, <2>3
  <1>4. CASE WriteEpoch(c)
    <2> DEFINE y == [la[c] EXCEPT !.phase = "members", !.epoch = 0]
    <2>1. la' = [la EXCEPT ![c] = y]
      BY <1>4, Phases DEF WriteEpoch
    <2>2. y \in LogoutAllType /\ y.phase # "new" /\ y.epoch \in {0, now, la[c].epoch}
      BY <1>1, <1>2 DEF LogoutAllType, Phase
    <2> HIDE DEF y
    <2>3. Becomes(y)
      BY <2>1, <2>2
    <2> QED
      BY <2>2, <2>3
  <1>5. CASE ReadIndex(c)
    <2> DEFINE y == [la[c] EXCEPT !.phase = "keys", !.keys = index]
    <2>1. la' = [la EXCEPT ![c] = y]
      BY <1>5, Phases DEF ReadIndex
    <2>2. y \in LogoutAllType /\ y.phase # "new" /\ y.epoch \in {0, now, la[c].epoch}
      BY <1>1, <1>2 DEF LogoutAllType, Phase
    <2> HIDE DEF y
    <2>3. Becomes(y)
      BY <2>1, <2>2
    <2> QED
      BY <2>2, <2>3
  <1>6. CASE DeleteKeys(c)
    <2> DEFINE y == [la[c] EXCEPT !.phase = "index", !.keys = {}]
    <2>1. la' = [la EXCEPT ![c] = y]
      BY <1>6, Phases DEF DeleteKeys
    <2>2. y \in LogoutAllType /\ y.phase # "new" /\ y.epoch \in {0, now, la[c].epoch}
      BY <1>1, <1>2 DEF LogoutAllType, Phase
    <2> HIDE DEF y
    <2>3. Becomes(y)
      BY <2>1, <2>2
    <2> QED
      BY <2>2, <2>3
  <1>7. CASE DropIndex(c)
    <2> DEFINE y == [la[c] EXCEPT !.phase = "done"]
    <2>1. la' = [la EXCEPT ![c] = y]
      BY <1>7, Phases DEF DropIndex
    <2>2. y \in LogoutAllType /\ y.phase # "new" /\ y.epoch \in {0, now, la[c].epoch}
      BY <1>1, <1>2 DEF LogoutAllType, Phase
    <2> HIDE DEF y
    <2>3. Becomes(y)
      BY <2>1, <2>2
    <2> QED
      BY <2>2, <2>3
  <1>8. CASE LogoutAllStops(c)
    <2> DEFINE y == [LaNew EXCEPT !.phase = "done"]
    <2>1. la' = [la EXCEPT ![c] = y]
      BY <1>8, Phases DEF LogoutAllStops
    <2>2. y \in LogoutAllType /\ y.phase # "new" /\ y.epoch \in {0, now, la[c].epoch}
      BY <1>1, <1>2 DEF LogoutAllType, Phase, LaNew
    <2> HIDE DEF y
    <2>3. Becomes(y)
      BY <2>1, <2>2
    <2> QED
      BY <2>2, <2>3
  <1> QED
    BY <1>3, <1>4, <1>5, <1>6, <1>7, <1>8 DEF LogoutAllStep

LEMMA LogoutAllBase ==
  ASSUME Base, NEW c \in LogoutAll, LogoutAllStep(c) PROVE Base' /\ ~NoLogoutAllYet'
  <1>1. PICK x \in LogoutAllType :
           la' = [la EXCEPT ![c] = x] /\ x.phase # "new" /\ x.epoch \in {0, now, la[c].epoch}
    BY LogoutAllLeaves
  <1>2. x.epoch <= now
    BY <1>1, AuthAssumption DEF Base, TypeOK, EpochOutlivesTokens
  <1>3. UNCHANGED <<now, minted, created, session, req, signedOut, lost>>
    BY DEF LogoutAllStep, LogoutAllBegins, WriteEpoch, ReadIndex, DeleteKeys, DropIndex,
           LogoutAllStops, mintVars, redisVars, clientVars
  <1>4. store' \subseteq store /\ index' \in {index, {}}
    BY DEF LogoutAllStep, LogoutAllBegins, WriteEpoch, ReadIndex, DeleteKeys, DropIndex,
           LogoutAllStops, redisVars
  <1>5. sealed' \subseteq sealed \cup Minted
    <2>1. \A e : AtRest(e) \subseteq Minted
      BY DEF AtRest, Base, KeysAreMinted
    <2> QED
      BY <2>1, Phases DEF LogoutAllStep, LogoutAllBegins, WriteEpoch, ReadIndex, DeleteKeys,
         DropIndex, LogoutAllStops, Witness, clientVars
  <1>6. \/ UNCHANGED <<epoch, epochEnd>>
        \/ epoch' = la[c].epoch /\ epochEnd' = now + EpochTtl
    BY DEF LogoutAllStep, LogoutAllBegins, WriteEpoch, ReadIndex, DeleteKeys, DropIndex,
           LogoutAllStops, EpochExpiry, redisVars
  <1>7. index' \subseteq Token
    BY <1>4 DEF Base, TypeOK
  <1> QED
    BY <1>1, <1>2, <1>3, <1>4, <1>5, <1>6, <1>7, LogoutAllMoves

LEMMA TickBase == ASSUME Base, Tick PROVE Base'
  <1>1. /\ now' = now + 1 /\ now < MaxClock
        /\ UNCHANGED <<minted, created, session, store, index, epoch, epochEnd, req, la, signedOut, sealed, lost>>
    BY DEF Tick, mintVars, redisVars, clientVars
  <1>2. now' \in 0..MaxClock /\ \A c \in LogoutAll : la[c].epoch <= now'
    BY <1>1, AuthAssumption DEF Base, TypeOK, EpochOutlivesTokens
  <1> QED
    BY <1>1, <1>2 DEF Base, TypeOK, KeysAreMinted, EpochOutlivesTokens, NoEpochYet, NoLogoutAllYet,
                      Fits, Minted

LEMMA StepBase == Base /\ [Next]_vars => Base'
  <1> SUFFICES ASSUME Base, [Next]_vars PROVE Base'
    OBVIOUS
  <1>1. ASSUME NEW r \in Request, RequestStep(r) PROVE Base'
    BY <1>1, QuietBase, StampBase DEF RequestStep, Quiet
  <1>2. CASE UNCHANGED vars
    BY <1>2 DEF vars, mintVars, redisVars, clientVars, Base, TypeOK, KeysAreMinted,
                EpochOutlivesTokens, NoEpochYet, NoLogoutAllYet, Fits, Minted
  <1> QED
    BY <1>1, <1>2, LogoutBase, LogoutAllBase, TickBase DEF Next

\* A session is held by a key in Redis, or by the request that is to store its next key.
Held(s) ==
    \/ \E t \in store : session[t] = s
    \/ \E r \in Request : req[r].session = s /\ req[r].pc \in {"stamp", "set"}

RotationKept ==
    NoLogoutAllYet =>
        \A t \in Minted : session[t] \in signedOut \cup Broken \/ Held(session[t])

LEMMA RotationIsKept == RotationKept <=> RotationKeepsSession
  BY DEF RotationKept, RotationKeepsSession, Held, Minted

LEMMA QuietRotation ==
  ASSUME Base, NoLogoutAllYet, NEW r \in Request, Quiet(r), NEW s \in Minted, Held(s)
  PROVE  Held(s)' \/ s \in Broken'
  <1> USE RequestFacts
  <1>1. session' = session /\ \A i \in Request \ {r} : req'[i] = req[i]
    BY DEF Quiet, Login, Refresh, EpochPasses, EpochRefuses, GatePasses, GateRefuses, Rotate, SetKey,
           AddToIndex, RequestDies, Proceed, Finish, mintVars, Base, TypeOK
  <1>2. CASE Login(r) \/ Refresh(r) \/ EpochPasses(r) \/ GatePasses(r) \/ GateRefuses(r) \/ AddToIndex(r)
    <2>1. store' = store /\ req[r].pc \notin {"stamp", "set"}
      BY <1>2 DEF Login, Refresh, EpochPasses, GatePasses, GateRefuses, AddToIndex, redisVars
    <2> QED
      BY <1>1, <2>1 DEF Held
  <1>3. ~EpochRefuses(r)
    BY DEF EpochRefuses, RevokedByEpoch, EpochLive, Base, NoEpochYet, TypeOK
  <1>4. CASE Rotate(r)
    <2>1. /\ store' = store \ {req[r].key} /\ req[r].pc = "rotate"
          /\ session[req[r].key] = req[r].session
      BY <1>4 DEF Rotate
    <2>2. req'[r].session = req[r].session /\ req'[r].pc = "stamp"
      BY <2>1, <1>4 DEF Rotate, Proceed, Following, Base, TypeOK
    <2> QED
      BY <1>1, <2>1, <2>2 DEF Held
  <1>5. CASE SetKey(r)
    <2>1. /\ store' = store \cup {req[r].key} /\ req[r].pc = "set"
          /\ session[req[r].key] = req[r].session
      BY <1>5 DEF SetKey
    <2> QED
      BY <1>1, <2>1 DEF Held
  <1>6. CASE RequestDies(r)
    <2>1. store' = store /\ lost' = lost \cup Taken(r)
      BY <1>6 DEF RequestDies, redisVars
    <2>2. CASE req[r].session = s /\ req[r].pc \in {"stamp", "set"}
      <3>1. req[r].key \in Minted /\ s = session[req[r].key] /\ req[r].key # 0
        BY <2>2 DEF Fits, Minted
      <3>2. req[r].key \in lost'
        BY <2>1, <2>2, <3>1 DEF Taken
      <3> QED
        BY <1>1, <3>1, <3>2 DEF Broken
    <2>3. CASE ~(req[r].session = s /\ req[r].pc \in {"stamp", "set"})
      BY <1>1, <2>1, <2>3 DEF Held
    <2> QED
      BY <2>2, <2>3
  <1> QED
    BY <1>2, <1>3, <1>4, <1>5, <1>6 DEF Quiet

LEMMA StampRotation ==
  ASSUME Base, RotationKept, NEW r \in Request, Stamp(r)
  PROVE  RotationKept'
  <1>1. PICK t, s :
           /\ t = minted + 1 /\ s = IF req[r].session = 0 THEN t ELSE req[r].session
           /\ minted' = t /\ session' = [session EXCEPT ![t] = s]
           /\ req' = [req EXCEPT ![r] = [pc |-> "set", key |-> t, session |-> s]]
           /\ UNCHANGED <<store, la, signedOut, lost>> /\ req[r].pc = "stamp" /\ minted < MaxTokens
    BY DEF Stamp, redisVars, clientVars
  <1>2. t \in Token /\ t \notin Minted /\ Minted' = Minted \cup {t}
    BY <1>1, AuthAssumption DEF Base, TypeOK, Token, Minted
  <1>3. /\ session'[t] = s /\ (\A k \in Minted : session'[k] = session[k])
        /\ store \subseteq Minted /\ lost \subseteq Minted
    BY <1>1, <1>2, RequestFacts DEF Base, TypeOK
  <1>4. /\ req'[r].pc = "set" /\ req'[r].session = s
        /\ \A i \in Request \ {r} : req'[i] = req[i]
    BY <1>1 DEF Base, TypeOK
  <1>5. Held(s)'
    BY <1>4 DEF Held
  <1>6. ASSUME NEW k \in Minted, Held(session[k]) PROVE Held(session[k])'
    <2>1. session[k] # 0 /\ session'[k] = session[k]
      BY <1>3 DEF Base, KeysAreMinted, Minted
    <2>2. CASE \E i \in store : session[i] = session[k]
      BY <1>1, <1>3, <2>1, <2>2 DEF Held
    <2>3. CASE req[r].session = session[k]
      BY <1>1, <1>4, <2>1, <2>3 DEF Held
    <2>4. CASE \E i \in Request \ {r} : req[i].session = session[k] /\ req[i].pc \in {"stamp", "set"}
      BY <1>4, <2>1, <2>4 DEF Held
    <2> QED
      BY <1>6, <2>2, <2>3, <2>4 DEF Held
  <1>7. ASSUME NoLogoutAllYet, NEW k \in Minted'
        PROVE  (session[k] \in signedOut \cup Broken \/ Held(session[k]))'
    <2>1. CASE k = t
      <3>1. (Held(session[k]))'
        BY <1>3, <1>5, <2>1 DEF Held
      <3> QED
        BY <3>1
    <2>2. CASE k \in Minted
      <3>1. session[k] \in Broken => session'[k] \in Broken'
        BY <1>1, <1>3, <2>2 DEF Broken
      <3> QED
        BY <1>1, <1>3, <1>6, <1>7, <2>2, <3>1 DEF RotationKept, Held
    <2> QED
      BY <1>2, <2>1, <2>2
  <1> QED
    BY <1>1, <1>7 DEF RotationKept, Held, NoLogoutAllYet, Broken

LEMMA StepRotation == Base /\ RotationKept /\ [Next]_vars => RotationKept'
  <1> SUFFICES ASSUME Base, RotationKept, [Next]_vars PROVE RotationKept'
    OBVIOUS
  <1>1. ASSUME NEW r \in Request, Quiet(r) PROVE RotationKept'
    <2>1. UNCHANGED <<minted, session, la, signedOut>> /\ lost \subseteq lost'
      BY <1>1 DEF Quiet, Login, Refresh, EpochPasses, EpochRefuses, GatePasses, GateRefuses, Rotate,
                  SetKey, AddToIndex, RequestDies, mintVars, clientVars
    <2>2. \A t \in Minted : session[t] \in Minted
      BY DEF Base, KeysAreMinted
    <2>3. Broken \subseteq Broken' /\ (NoLogoutAllYet' => NoLogoutAllYet) /\ Minted' = Minted
      BY <2>1 DEF Broken, NoLogoutAllYet, Minted
    <2> QED
      BY <1>1, <2>1, <2>2, <2>3, QuietRotation DEF RotationKept
  <1>2. ASSUME NEW t \in Token, Logout(t) PROVE RotationKept'
    <2>1. /\ store' = store \ {t} /\ signedOut' = signedOut \cup {session[t]}
          /\ UNCHANGED <<minted, session, la, req, lost>>
      BY <1>2 DEF Logout, mintVars
    <2> QED
      BY <2>1 DEF RotationKept, Held, Minted, NoLogoutAllYet, Broken
  <1>3. ASSUME NEW c \in LogoutAll, LogoutAllStep(c) PROVE RotationKept'
    BY <1>3, LogoutAllBase DEF RotationKept
  <1>4. CASE Tick \/ UNCHANGED vars
    BY <1>4 DEF Tick, vars, mintVars, redisVars, clientVars, RotationKept, Held, Minted,
                NoLogoutAllYet, Broken
  <1> QED
    BY <1>1, <1>2, <1>3, <1>4, StampRotation DEF Next, RequestStep, Quiet

LEMMA QuietSealed ==
  ASSUME EpochReadFails = FALSE, Base, SealedKeysAreStale, NEW r \in Request, Quiet(r)
  PROVE  SealedKeysAreStale'
  <1> USE RequestFacts
  <1> SUFFICES ASSUME EpochLive' PROVE SealedKeysAreStale'
    BY DEF SealedKeysAreStale
  <1>1. /\ UNCHANGED <<now, created, session, epoch, epochEnd, sealed>>
        /\ \A i \in Request \ {r} : req'[i] = req[i]
    BY DEF Quiet, Login, Refresh, EpochPasses, EpochRefuses, GatePasses, GateRefuses, Rotate, SetKey,
           AddToIndex, RequestDies, Proceed, Finish, mintVars, redisVars, clientVars, Base, TypeOK
  <1>2. EpochLive /\ 0 \notin sealed
    BY <1>1 DEF EpochLive, Base, KeysAreMinted, Minted
  <1>3. /\ \A t \in store : session[t] \in sealed => created[t] <= epoch
        /\ \A i \in Request : req[i].session \in sealed =>
              ~Exchanging(i) /\ (req[i].pc = "check" => created[req[i].key] <= epoch)
    BY <1>2 DEF SealedKeysAreStale
  <1>4. /\ \A t \in store' : session[t] \in sealed => created[t] <= epoch
        /\ req'[r].session \in sealed =>
              ~Exchanging(r)' /\ (req'[r].pc = "check" => created[req'[r].key] <= epoch)
    <2>1. CASE Login(r)
      BY <1>2, <1>3, <2>1 DEF Login, Idle, redisVars, Base, TypeOK
    <2>2. CASE Refresh(r)
      <3>1. PICK t \in store :
               req' = [req EXCEPT ![r] = [pc |-> "check", key |-> t, session |-> session[t]]]
        BY <2>2 DEF Refresh, Delivered
      <3>2. req'[r] = [pc |-> "check", key |-> t, session |-> session[t]] /\ store' = store
        BY <2>2, <3>1 DEF Refresh, redisVars, Base, TypeOK
      <3> QED
        BY <1>3, <3>2 DEF Exchanging
    <2>3. CASE EpochPasses(r)
      <3>1. req[r].pc = "check" /\ ~(created[req[r].key] <= epoch) /\ store' = store
        BY <1>2, <2>3 DEF EpochPasses, RevokedByEpoch, redisVars
      <3>2. req'[r].session = req[r].session
        BY <2>3 DEF EpochPasses, Proceed, Base, TypeOK
      <3> QED
        BY <1>3, <3>1, <3>2
    <2>4. CASE GatePasses(r) \/ Rotate(r)
      <3>1. Exchanging(r) /\ store' \subseteq store
        BY <2>4 DEF GatePasses, Rotate, Exchanging, redisVars
      <3>2. req'[r].session = req[r].session
        BY <2>4 DEF GatePasses, Rotate, Proceed, Base, TypeOK
      <3> QED
        BY <1>3, <3>1, <3>2
    <2>5. CASE EpochRefuses(r) \/ GateRefuses(r) \/ AddToIndex(r) \/ RequestDies(r)
      BY <1>2, <1>3, <2>5 DEF EpochRefuses, GateRefuses, AddToIndex, RequestDies, Finish, Idle, redisVars, Base, TypeOK
    <2>6. CASE SetKey(r)
      <3>1. /\ Exchanging(r) /\ store' = store \cup {req[r].key}
            /\ session[req[r].key] = req[r].session
        BY <2>6 DEF SetKey, Exchanging
      <3>2. req'[r].session = req[r].session
        BY <2>6 DEF SetKey, Base, TypeOK
      <3> QED
        BY <1>3, <3>1, <3>2
    <2> QED
      BY <2>1, <2>2, <2>3, <2>4, <2>5, <2>6 DEF Quiet
  <1> QED
    BY <1>1, <1>3, <1>4 DEF SealedKeysAreStale, Exchanging

LEMMA StampSealed ==
  ASSUME Base, SealedKeysAreStale, NEW r \in Request, Stamp(r)
  PROVE  SealedKeysAreStale'
  <1> SUFFICES ASSUME EpochLive' PROVE SealedKeysAreStale'
    BY DEF SealedKeysAreStale
  <1> DEFINE t == minted + 1
             s == IF req[r].session = 0 THEN t ELSE req[r].session
             q == [pc |-> "set", key |-> t, session |-> s]
  <1>1. /\ created' = [created EXCEPT ![t] = now] /\ session' = [session EXCEPT ![t] = s]
        /\ req' = [req EXCEPT ![r] = q] /\ req[r].pc = "stamp" /\ minted < MaxTokens
        /\ UNCHANGED <<now, store, epoch, epochEnd, sealed>>
    BY DEF Stamp, CreatedAt, redisVars, clientVars
  <1>2. EpochLive
    BY <1>1 DEF EpochLive
  <1>3. /\ \A k \in store : session[k] \in sealed => created[k] <= epoch
        /\ \A i \in Request : req[i].session \in sealed =>
              ~Exchanging(i) /\ (req[i].pc = "check" => created[req[i].key] <= epoch)
    BY <1>2 DEF SealedKeysAreStale
  <1>4. t \notin Minted /\ t \in Token /\ sealed \subseteq Minted
    BY <1>1, AuthAssumption DEF Base, TypeOK, KeysAreMinted, Minted, Token
  <1>5. s \notin sealed
    BY <1>1, <1>3, <1>4 DEF Exchanging
  <1>6. \A k \in Minted : session'[k] = session[k] /\ created'[k] = created[k]
    BY <1>1, <1>4, RequestFacts DEF Base, TypeOK
  <1>7. req'[r].session = s /\ \A i \in Request \ {r} : req'[i] = req[i]
    BY <1>1 DEF Base, TypeOK
  <1> HIDE DEF s, q, t
  <1>8. \A k \in store' : session'[k] \in sealed' => created'[k] <= epoch'
    BY <1>1, <1>3, <1>6, RequestFacts
  <1>9. ASSUME NEW i \in Request, req'[i].session \in sealed'
        PROVE  ~Exchanging(i)' /\ (req'[i].pc = "check" => created'[req'[i].key] <= epoch')
    <2>1. i # r /\ req'[i] = req[i]
      BY <1>1, <1>5, <1>7, <1>9
    <2>2. req[i].pc = "check" => req[i].key \in Minted
      BY RequestFacts
    <2> QED
      BY <1>1, <1>3, <1>6, <1>9, <2>1, <2>2 DEF Exchanging
  <1> QED
    BY <1>8, <1>9 DEF SealedKeysAreStale

LEMMA StepSealed ==
  ASSUME EpochReadFails = FALSE
  PROVE  Base /\ SealedKeysAreStale /\ [Next]_vars => SealedKeysAreStale'
  <1> SUFFICES ASSUME Base, SealedKeysAreStale, [Next]_vars PROVE SealedKeysAreStale'
    OBVIOUS
  <1>1. ASSUME NEW t \in Token, Logout(t) PROVE SealedKeysAreStale'
    <2>1. /\ store' \subseteq store
          /\ UNCHANGED <<now, created, session, epoch, epochEnd, req, sealed>>
      BY <1>1 DEF Logout, mintVars
    <2> QED
      BY <2>1 DEF SealedKeysAreStale, EpochLive, Exchanging
  <1>2. ASSUME NEW c \in LogoutAll, LogoutAllStep(c), ~WriteEpoch(c) PROVE SealedKeysAreStale'
    <2>1. /\ store' \subseteq store
          /\ UNCHANGED <<now, created, session, epoch, epochEnd, req, sealed>>
      BY <1>2, Phases DEF LogoutAllStep, LogoutAllBegins, ReadIndex, DeleteKeys, DropIndex,
                          LogoutAllStops, Witness, mintVars, redisVars, clientVars
    <2> QED
      BY <2>1 DEF SealedKeysAreStale, EpochLive, Exchanging
  <1>3. ASSUME NEW c \in LogoutAll, WriteEpoch(c) PROVE SealedKeysAreStale'
    <2>1. UNCHANGED <<now, created, session, store, req>>
      BY <1>3 DEF WriteEpoch, mintVars
    <2>2. CASE UNCHANGED <<epoch, epochEnd, sealed>>
      BY <2>1, <2>2 DEF SealedKeysAreStale, EpochLive, Exchanging
    <2>3. CASE epoch' = la[c].epoch /\ sealed' = AtRest(la[c].epoch)
      BY <2>1, <2>3 DEF SealedKeysAreStale, AtRest, Exchanging
    <2> QED
      BY <1>3, <2>2, <2>3, Phases DEF WriteEpoch, Witness
  <1>4. CASE Tick
    <2>1. /\ now' = now + 1
          /\ UNCHANGED <<created, session, store, epoch, epochEnd, req, sealed>>
      BY <1>4 DEF Tick, mintVars, redisVars, clientVars
    <2>2. EpochLive' => EpochLive
      BY <2>1, AuthAssumption DEF EpochLive, Base, TypeOK
    <2> QED
      BY <2>1, <2>2 DEF SealedKeysAreStale, Exchanging
  <1>5. CASE UNCHANGED vars
    BY <1>5 DEF vars, mintVars, redisVars, clientVars, SealedKeysAreStale, EpochLive, Exchanging
  <1> QED
    BY <1>1, <1>2, <1>3, <1>4, <1>5, QuietSealed, StampSealed
    DEF Next, RequestStep, Quiet, LogoutAllStep

LEMMA SpecBase == Spec => []Base
  BY InitBase, StepBase, PTL DEF Spec

\* Tokens, requests and the calls of logout_all keep their types.
THEOREM AuthTypeCorrect == Spec => []TypeOK
  <1>1. Base => TypeOK
    BY DEF Base
  <1> QED
    BY <1>1, SpecBase, PTL

\* No access token of before the last epoch written is accepted, not even past the epoch key.
THEOREM AccessTokensStayRevokedHolds == Spec => []AccessTokensStayRevoked
  <1>1. Base => AccessTokensStayRevoked
    <2> SUFFICES ASSUME Base, NEW t \in 1..minted, created[t] < epoch PROVE ~Accepted(created[t])
      BY DEF AccessTokensStayRevoked
    <2>1. /\ created[t] \in Nat /\ epoch \in Nat /\ epochEnd \in Nat /\ now \in Nat
          /\ AccessTtl \in Nat /\ EpochTtl \in Nat /\ AccessTtl < EpochTtl
      <3>1. t \in Token
        BY AuthAssumption DEF Base, TypeOK, Token
      <3>2. created[t] \in Nat /\ epoch \in Nat /\ epochEnd \in Nat /\ now \in Nat
        BY <3>1, AuthAssumption DEF Base, TypeOK
      <3> QED
        BY <3>2, AuthAssumption
    <2>2. epochEnd >= epoch + EpochTtl
      BY <2>1 DEF Base, EpochOutlivesTokens
    <2> QED
      BY <2>1, <2>2 DEF Accepted, EpochLive
  <1> QED
    BY <1>1, SpecBase, PTL

\* Rotation loses no session that its user has not signed out, but for those of a request
\* that died between deleting the old key and handing over the new token.
THEOREM RotationKeepsSessionHolds == Spec => []RotationKeepsSession
  <1>1. Init => RotationKept
    BY DEF Init, RotationKept, Minted
  <1>2. Base /\ RotationKept /\ [Next]_vars => RotationKept'
    BY StepRotation
  <1>3. RotationKept => RotationKeepsSession
    BY RotationIsKept
  <1> QED
    BY <1>1, <1>2, <1>3, SpecBase, PTL DEF Spec

\* As long as the epoch can be read, no session at rest when it was written is refreshed
\* while the epoch lives, whatever the purge of its keys missed.
THEOREM SealedSessionsStayOutHolds ==
  ASSUME EpochReadFails = FALSE
  PROVE  Spec => []SealedSessionsStayOut
  <1>1. Init => SealedKeysAreStale
    BY DEF Init, SealedKeysAreStale
  <1>2. Base /\ SealedKeysAreStale /\ [Next]_vars => SealedKeysAreStale'
    BY StepSealed
  <1>3. SealedKeysAreStale => SealedSessionsStayOut
    BY DEF SealedKeysAreStale, SealedSessionsStayOut
  <1> QED
    BY <1>1, <1>2, <1>3, SpecBase, PTL DEF Spec
=============================================================================
