------------------------- MODULE AccountsProofs -------------------------
(***************************************************************************)
(* Machine-checked proofs about accounts and signing in, for all values of  *)
(* the constants: the accounts of a company and the candidates' with their  *)
(* passwords, links and sessions, and the breaker in front of Naipunyam.    *)
(* Each component has its own part.                                         *)
(***************************************************************************)
EXTENDS Accounts, Naipunyam, FiniteSetTheorems, TLAPS

-----------------------------------------------------------------------------
(* Accounts.                                                                *)

Op == {"idle", "register", "login", "reset", "change", "create admin", "create hr", "remove",
       "delete company", "google"}
Pc == {"idle", "insert", "mint", "commit", "revoke", "mail", "delete", "check", "upsert"}
Memory == [op : Op, pc : Pc, email : Email \cup {NoEmail}, users : SUBSET User,
           link : 0..MaxLinks, password : Password, stale : BOOLEAN]

Typed ==
    /\ company \in {"live", "deleted"}
    /\ user \in [User -> UserRow]
    /\ link \in [Link -> LinkRow]
    /\ session \in SUBSET Session
    /\ oauth \in BOOLEAN
    /\ req \in [Request -> Memory]
    /\ served \in 0..MaxRequests

\* Rows are never taken back: what refers to one finds it, live or deleted.
LinksHaveUsers == \A t \in Link : link[t].user # 0 => user[link[t].user].row # "none"

\* What a request remembers of the accounts is still so, or it is marked stale.
Sound(m) ==
    /\ \A u \in m.users : user[u].row # "none"
    /\ m.pc \in {"mint", "mail", "commit"} => \E u \in User : m.users = {u}
    /\ m.pc \in {"insert", "upsert", "check", "delete"} => m.email \in Email
    /\ m.pc = "insert" \/ (m.pc = "commit" /\ m.op # "remove") => m.password # 0
    /\ m.pc = "mint" => (m.op = "google") <=> (m.password = 0)
    /\ m.op = "google" => m.password = 0
    /\ m.pc \in {"delete", "check", "upsert"} => m.op = "google"
    /\ (m.pc = "mint" /\ m.stale = FALSE) =>
          \A u \in m.users : /\ user[u].row = "live" /\ m.password \in {0, user[u].password}
                             /\ m.op = "google" => user[u].role = "candidate"
    /\ (m.pc = "upsert" /\ m.stale = FALSE) =>
          \A u \in User : (user[u].row = "live" /\ user[u].email = m.email)
                            => user[u].role = "candidate"

RequestsAreSound == \A r \in Request : \E m \in Memory : req[r] = m /\ Sound(m)

\* A password that a request is about to set is nobody's yet.
Pending(m) == m.pc \in {"insert", "commit"} /\ m.password # 0
Minted == 0..served \cup {First}
Fresh(p) ==
    /\ p # First
    /\ \A u \in User : user[u].password # p
    /\ \A s \in session : s.proof # p

PasswordsAreFresh ==
    /\ \A u \in User : user[u].password \in Minted
    /\ \A s \in session : s.proof \in Minted
    /\ \A r \in Request :
         /\ req[r].password \in Minted
         /\ Pending(req[r]) => /\ Fresh(req[r].password)
                               /\ \A q \in Request \ {r} : req[q].password # req[r].password

\* The row lock lets one request at a time create a super admin, and only when there is none.
Creates(r) == req[r].op = "create admin" /\ req[r].pc = "insert"
AdminIsAlone ==
    /\ \A a, b \in User : ( /\ user[a].row = "live" /\ user[a].role = "admin"
                            /\ user[b].row = "live" /\ user[b].role = "admin" ) => a = b
    /\ \A r \in Request : Creates(r) =>
          /\ \A a \in User : user[a].row = "live" => user[a].role # "admin"
          /\ \A q \in Request : Creates(q) => q = r

Follows(s) ==
    \/ s.missed = TRUE \/ Revoking(s.user)
    \/ user[s.user].row = "live" /\ s.proof \in {0, user[s.user].password}
Confirmed(s) ==
    ( /\ VerificationRequired /\ user[s.user].row = "live"
      /\ s.held = TRUE /\ s.proof # 0 /\ s.proof = user[s.user].password )
        => user[s.user].verified = TRUE \/ user[s.user].mustChange = TRUE
SessionIsSound(s) ==
    /\ user[s.user].row # "none"
    /\ Follows(s) /\ Confirmed(s)
    /\ (s.proof = 0 /\ s.missed = FALSE) => user[s.user].role = "candidate"
SessionsAreSound == \A s \in session : SessionIsSound(s)

IInv ==
    /\ Typed /\ LinksHaveUsers
    /\ RequestsAreSound /\ PasswordsAreFresh /\ AdminIsAlone /\ SessionsAreSound

-----------------------------------------------------------------------------

\* What a step may do to the accounts: delete them or change their password for one that no
\* session proves, if they are among the changed ones, and confirm them.
UsersMove(changed) ==
    \A u \in User : user[u].row # "none" =>
        /\ user'[u].row \in {user[u].row, "deleted"}
        /\ user'[u].role = user[u].role
        /\ user'[u].email \in {user[u].email, NoEmail}
        /\ u \notin changed => user'[u].row = user[u].row /\ user'[u].password = user[u].password
        /\ \/ /\ user'[u].password = user[u].password /\ user'[u].mustChange = user[u].mustChange
              /\ user[u].verified = TRUE => user'[u].verified = TRUE
           \/ \A s \in session : s.proof # user'[u].password

\* No privileged account comes to an address.
NoneAt(e) ==
    \A u \in User : (user[u].row = "none" /\ user'[u].row = "live" /\ user'[u].email = e)
                      => user'[u].role = "candidate"

\* What another request's step may do to a request: mark it.
Marked(m, n) == n = m \/ n = [m EXCEPT !.stale = TRUE]
Others(r, changed) ==
    \A q \in Request \ {r} :
        /\ Marked(req[q], req'[q])
        /\ req[q].users \cap changed # {} => req'[q].stale = TRUE
        /\ (req[q].pc = "upsert" /\ req'[q].stale = FALSE) => NoneAt(req[q].email)

LEMMA Constants ==
  /\ MaxUsers \in Nat /\ MaxLinks \in Nat /\ MaxRequests \in Nat /\ MaxUsers # 0
  /\ NoEmail \notin Email
  BY EmailAssumption, BoundsAssumption

LEMMA MarkedFields ==
  ASSUME NEW m \in Memory, NEW n, Marked(m, n)
  PROVE  /\ n \in Memory
         /\ n.op = m.op /\ n.pc = m.pc /\ n.email = m.email /\ n.users = m.users
         /\ n.link = m.link /\ n.password = m.password
         /\ m.stale = TRUE => n.stale = TRUE
  BY DEF Marked, Memory

\* A sound memory stays sound when others move, marked if they touched what it had read.
LEMMA StaysSound ==
  ASSUME NEW m \in Memory, Sound(m), user \in [User -> UserRow],
         NEW changed \in SUBSET User, UsersMove(changed),
         NEW n \in Memory, Marked(m, n),
         m.users \cap changed # {} => n.stale = TRUE,
         (m.pc = "upsert" /\ n.stale = FALSE) => NoneAt(m.email)
  PROVE  Sound(n)'
  <1>1. /\ n.op = m.op /\ n.pc = m.pc /\ n.email = m.email /\ n.users = m.users
        /\ n.password = m.password
        /\ m.stale = TRUE => n.stale = TRUE
        /\ m.users \subseteq User /\ m.stale \in BOOLEAN
    BY MarkedFields DEF Memory
  <1>2. \A u \in m.users : user'[u].row # "none"
    BY <1>1 DEF Sound, UsersMove
  <1>3. ASSUME n.pc = "mint", n.stale = FALSE, NEW u \in n.users
        PROVE  /\ user'[u].row = "live" /\ n.password \in {0, user'[u].password}
               /\ n.op = "google" => user'[u].role = "candidate"
    <2>1. u \in User /\ u \notin changed /\ user[u].row # "none" /\ m.stale = FALSE
      BY <1>1, <1>3 DEF Sound
    <2>2. /\ user[u].row = "live" /\ m.password \in {0, user[u].password}
          /\ m.op = "google" => user[u].role = "candidate"
      BY <1>1, <1>3, <2>1 DEF Sound
    <2>3. user'[u].row = user[u].row /\ user'[u].password = user[u].password
          /\ user'[u].role = user[u].role
      BY <2>1 DEF UsersMove
    <2> QED
      BY <1>1, <2>2, <2>3
  <1>4. ASSUME n.pc = "upsert", n.stale = FALSE, NEW u \in User,
               user'[u].row = "live", user'[u].email = n.email
        PROVE  user'[u].role = "candidate"
    <2>1. m.stale = FALSE /\ m.email \in Email /\ NoneAt(m.email) /\ m.pc = "upsert"
      BY <1>1, <1>4 DEF Sound
    <2>2. CASE user[u].row = "none"
      BY <1>1, <1>4, <2>1, <2>2 DEF NoneAt
    <2>3. CASE user[u].row # "none"
      <3>1. user[u].row = "live" /\ user[u].email = m.email /\ user'[u].role = user[u].role
        BY <1>1, <1>4, <2>1, <2>3, Constants DEF UsersMove
      <3> QED
        BY <2>1, <3>1 DEF Sound
    <2> QED
      BY <2>2, <2>3
  <1> QED
    BY <1>1, <1>2, <1>3, <1>4 DEF Sound

LEMMA RequestsStay ==
  ASSUME Typed, RequestsAreSound, NEW r \in Request, NEW changed \in SUBSET User,
         UsersMove(changed), Others(r, changed), NEW n \in Memory, req'[r] = n, Sound(n)'
  PROVE  RequestsAreSound'
  <1>1. ASSUME NEW q \in Request, q # r PROVE \E k \in Memory : req'[q] = k /\ Sound(k)'
    <2>1. PICK m \in Memory : req[q] = m /\ Sound(m)
      BY DEF RequestsAreSound
    <2>2. PICK k : k = req'[q]
      OBVIOUS
    <2>3. /\ Marked(m, k) /\ (m.users \cap changed # {} => k.stale = TRUE)
          /\ (m.pc = "upsert" /\ k.stale = FALSE) => NoneAt(m.email)
      BY <1>1, <2>1, <2>2 DEF Others
    <2>4. k \in Memory
      BY <2>3, MarkedFields
    <2>5. Sound(k)'
      BY <2>1, <2>3, <2>4, StaysSound DEF Typed
    <2> QED
      BY <2>2, <2>4, <2>5
  <1> QED
    BY <1>1 DEF RequestsAreSound

\* A session stays sound: whoever changed its account is about to revoke it.
LEMMA SessionStaysSound ==
  ASSUME Typed, NEW s \in session, SessionIsSound(s),
         NEW changed \in SUBSET User, UsersMove(changed),
         \A u \in User : Revoking(u) \/ u \in changed => Revoking(u)'
  PROVE  SessionIsSound(s)'
  <1>1. s.user \in User /\ user[s.user].row # "none" /\ s \in Session
    BY DEF Typed, Session, SessionIsSound
  <1>2. PICK u \in User : u = s.user
    BY <1>1
  <1>3. /\ user[u].row # "none" /\ user'[u].row \in {user[u].row, "deleted"}
        /\ user'[u].role = user[u].role
        /\ u \notin changed => user'[u].row = user[u].row /\ user'[u].password = user[u].password
        /\ \/ /\ user'[u].password = user[u].password /\ user'[u].mustChange = user[u].mustChange
              /\ user[u].verified = TRUE => user'[u].verified = TRUE
           \/ s.proof # user'[u].password
    BY <1>1, <1>2 DEF UsersMove
  <1>4. Follows(s)'
    <2>1. CASE s.missed = TRUE \/ Revoking(u) \/ u \in changed
      BY <1>2, <2>1 DEF Follows
    <2>2. CASE ~(s.missed = TRUE \/ Revoking(u) \/ u \in changed)
      BY <1>2, <1>3, <2>2 DEF SessionIsSound, Follows
    <2> QED
      BY <2>1, <2>2
  <1>5. Confirmed(s)'
    BY <1>2, <1>3 DEF SessionIsSound, Confirmed
  <1> QED
    BY <1>2, <1>3, <1>4, <1>5 DEF SessionIsSound

LEMMA SessionsStay ==
  ASSUME Typed, SessionsAreSound, NEW changed \in SUBSET User, UsersMove(changed),
         \A u \in User : Revoking(u) \/ u \in changed => Revoking(u)',
         \A s \in session' : s \in session \/ SessionIsSound(s)'
  PROVE  SessionsAreSound'
  BY SessionStaysSound DEF SessionsAreSound

LEMMA FreshStays ==
  ASSUME Typed, PasswordsAreFresh, served' \in 0..MaxRequests,
         served' = served \/ served' = served + 1,
         NEW r \in Request, NEW m \in Memory, m = req[r], NEW n \in Memory, n = req'[r],
         \A q \in Request \ {r} : req'[q].password = req[q].password /\ req'[q].pc = req[q].pc,
         \A u \in User : user'[u].password \in {user[u].password, 0, m.password},
         \A s \in session' : s.proof = m.password \/ \E t \in session : s.proof = t.proof,
         \/ n.password \in {0, m.password} /\ ~Pending(n)
         \/ ~Pending(n) /\ \E u \in User : n.password = user[u].password
         \/ /\ n.password = served + 1 /\ served' = served + 1
            /\ UNCHANGED <<user, session>>
  PROVE  PasswordsAreFresh'
  <1>1. served \in Nat /\ MaxRequests \in Nat /\ served' \in Nat /\ served' <= MaxRequests
    BY Constants DEF Typed
  <1>2. PICK k \in Nat : k = served /\ (served' = k \/ served' = k + 1) /\ k <= MaxRequests
    BY <1>1
  <1>3. \A p \in Minted : p \in Minted'
    BY <1>1, <1>2 DEF Minted, First
  <1>4. /\ m.password \in Minted /\ 0 \in Minted
        /\ \A u \in User : user[u].password \in Minted
        /\ \A t \in session : t.proof \in Minted
        /\ \A q \in Request : req[q].password \in Minted
    BY <1>1 DEF PasswordsAreFresh, Minted
  <1>5. /\ \A u \in User : user'[u].password \in Minted
        /\ \A s \in session' : s.proof \in Minted
    BY <1>4
  <1>6. n.password \in Minted'
    <2>1. CASE n.password \in Minted
      BY <1>3, <2>1
    <2>2. CASE n.password = served + 1 /\ served' = served + 1
      BY <1>1, <2>2 DEF Minted
    <2> QED
      BY <1>4, <2>1, <2>2
  <1>7. ASSUME NEW q \in Request, Pending(req'[q])
        PROVE  Fresh(req[q].password)' /\ \A i \in Request \ {q} : req'[i].password # req'[q].password
    <2>1. CASE q # r
      <3>1. PICK p : p = req[q].password
        OBVIOUS
      <3>2. /\ req'[q].password = p /\ req'[q].pc = req[q].pc
        BY <2>1, <3>1
      <3>3. Pending(req[q]) /\ p # 0
        BY <1>7, <3>1, <3>2 DEF Pending
      <3>4. /\ p # First /\ \A u \in User : user[u].password # p
            /\ \A s \in session : s.proof # p
            /\ \A i \in Request \ {q} : req[i].password # p
        BY <3>1, <3>3 DEF PasswordsAreFresh, Fresh
      <3>5. m.password # p
        BY <2>1, <3>4
      <3>6. (\A u \in User : user'[u].password # p) /\ \A s \in session' : s.proof # p
        BY <3>3, <3>4, <3>5
      <3>7. n.password # p
        <4>1. p \in Minted
          BY <1>4, <3>1
        <4>2. p # served + 1
          BY <1>1, <3>4, <4>1 DEF Minted
        <4> QED
          BY <3>3, <3>4, <3>5, <4>2
      <3>8. \A i \in Request \ {q} : req'[i].password # p
        BY <2>1, <3>4, <3>7
      <3> QED
        BY <3>2, <3>4, <3>6, <3>8 DEF Fresh, First
    <2>2. CASE q = r
      <3>1. n.password = served + 1 /\ served' = served + 1 /\ UNCHANGED <<user, session>>
        BY <1>7, <2>2
      <3>2. PICK p \in Nat : p = served + 1 /\ p # First /\ p \notin Minted
        BY <1>1, <3>1 DEF First, Minted
      <3>3. (\A u \in User : user'[u].password # p) /\ \A s \in session' : s.proof # p
        BY <1>4, <3>1, <3>2
      <3>4. \A i \in Request \ {q} : req'[i].password # p
        BY <1>4, <2>2, <3>2
      <3>5. req'[q].password = p
        BY <2>2, <3>1, <3>2
      <3> QED
        BY <3>2, <3>3, <3>4, <3>5 DEF Fresh, First
    <2> QED
      BY <2>1, <2>2
  <1>8. \A q \in Request : req'[q].password \in Minted'
    BY <1>3, <1>4, <1>6
  <1>9. (\A u \in User : user'[u].password \in Minted') /\ \A s \in session' : s.proof \in Minted'
    BY <1>3, <1>5
  <1> QED
    BY <1>7, <1>8, <1>9 DEF PasswordsAreFresh, Pending

-----------------------------------------------------------------------------

\* The fields of what a request remembers.
LEMMA Remembered ==
  ASSUME NEW m \in Memory
  PROVE  /\ m.op \in Op /\ m.pc \in Pc /\ m.email \in Email \cup {NoEmail}
         /\ m.users \in SUBSET User /\ m.link \in 0..MaxLinks /\ m.password \in Password
         /\ m.stale \in BOOLEAN
  BY DEF Memory

LEMMA IdleFits == Idle \in Memory /\ Idle.pc = "idle" /\ Idle.op = "idle" /\ Idle.password = 0
                  /\ Idle.users = {} /\ Sound(Idle)
  <1>1. /\ Idle.pc = "idle" /\ Idle.op = "idle" /\ Idle.password = 0 /\ Idle.users = {}
        /\ Idle.email = NoEmail /\ Idle.link = 0 /\ Idle.stale = FALSE
    BY DEF Idle
  <1>2. 0 \in 0..MaxLinks /\ 0 \in Password
    BY Constants DEF Password, First
  <1>3. Idle \in Memory
    BY <1>2 DEF Idle, Memory, Op, Pc
  <1> QED
    BY <1>1, <1>3 DEF Sound

LEMMA ContinuesMarks ==
  ASSUME Typed, NEW r \in Request, NEW rec \in Memory, NEW changed \in SUBSET User,
         Continues(r, rec, changed)
  PROVE  /\ req' \in [Request -> Memory] /\ req'[r] = rec /\ served' = served
         /\ \A q \in Request \ {r} :
              /\ Marked(req[q], req'[q]) /\ req'[q].pc = req[q].pc /\ req'[q].op = req[q].op
              /\ req'[q].password = req[q].password /\ req'[q].users = req[q].users
              /\ req[q].users \cap changed # {} => req'[q].stale = TRUE
              /\ req[q].users \cap changed = {} => req'[q] = req[q]
  <1>1. /\ req \in [Request -> Memory] /\ served' = served
        /\ req' = [q \in Request |->
                     IF q = r THEN rec
                     ELSE IF req[q].users \cap changed # {} THEN [req[q] EXCEPT !.stale = TRUE]
                     ELSE req[q]]
    BY DEF Typed, Continues
  <1>2. ASSUME NEW q \in Request, q # r
        PROVE  /\ req'[q] \in Memory
               /\ Marked(req[q], req'[q]) /\ req'[q].pc = req[q].pc /\ req'[q].op = req[q].op
               /\ req'[q].password = req[q].password /\ req'[q].users = req[q].users
               /\ req[q].users \cap changed # {} => req'[q].stale = TRUE
               /\ req[q].users \cap changed = {} => req'[q] = req[q]
    <2>1. PICK m \in Memory : m = req[q]
      BY <1>1
    <2>2. PICK n : n = IF m.users \cap changed # {} THEN [m EXCEPT !.stale = TRUE] ELSE m
      OBVIOUS
    <2>3. req'[q] = n
      BY <1>1, <1>2, <2>1, <2>2
    <2>4. Marked(m, n)
      BY <2>2 DEF Marked
    <2>5. m.users \cap changed # {} => n.stale = TRUE
      BY <2>2 DEF Memory
    <2> QED
      BY <2>1, <2>2, <2>3, <2>4, <2>5, MarkedFields
  <1>3. req' \in [Request -> Memory]
    BY <1>1, <1>2
  <1> QED
    BY <1>1, <1>2, <1>3

\* The accounts stay as they are.
LEMMA UsersRest == ASSUME Typed, user' = user PROVE UsersMove({}) /\ \A e : NoneAt(e)
  BY DEF UsersMove, NoneAt, Typed

LEMMA AdminStays ==
  ASSUME AdminIsAlone,
         \A a \in User : (user'[a].row = "live" /\ user'[a].role = "admin")
                           => user[a].row = "live" /\ user[a].role = "admin",
         \A q \in Request : Creates(q)' => Creates(q)
  PROVE  AdminIsAlone'
  BY DEF AdminIsAlone

\* One request moves from m to n, and the accounts stay as they are.
Moves(r, m, n) ==
    /\ user' = user /\ LinksHaveUsers' /\ Typed'
    /\ m = req[r] /\ req' = [req EXCEPT ![r] = n]
    /\ Sound(n)
    /\ m.pc = "revoke" => n.pc = "revoke" /\ n.users = m.users
    /\ \A s \in session' : s \in session \/ SessionIsSound(s)'
    /\ \A s \in session' : s.proof = m.password \/ \E t \in session : s.proof = t.proof
    /\ served' = served \/ served' = served + 1
    /\ \/ n.password \in {0, m.password} /\ ~Pending(n)
       \/ ~Pending(n) /\ \E u \in User : n.password = user[u].password
       \/ n.password = served + 1 /\ served' = served + 1 /\ session' = session
    /\ \/ ~(n.op = "create admin" /\ n.pc = "insert")
       \/ /\ \A a \in User : user[a].row = "live" => user[a].role # "admin"
          /\ \A q \in Request : ~Creates(q)

LEMMA MovesKeeps ==
  ASSUME IInv, NEW r \in Request, NEW m \in Memory, NEW n \in Memory, Moves(r, m, n)
  PROVE  IInv'
  <1>0. /\ user' = user /\ LinksHaveUsers' /\ Typed'
        /\ m = req[r] /\ req' = [req EXCEPT ![r] = n]
        /\ Sound(n)
        /\ m.pc = "revoke" => n.pc = "revoke" /\ n.users = m.users
    BY DEF Moves
  <1>1. /\ Typed /\ req \in [Request -> Memory] /\ req'[r] = n
        /\ \A q \in Request \ {r} : req'[q] = req[q]
    BY <1>0 DEF IInv, Typed
  <1>2. UsersMove({}) /\ \A e : NoneAt(e)
    BY <1>0, <1>1, UsersRest
  <1>3. RequestsAreSound'
    <2>1. Others(r, {})
      BY <1>1, <1>2 DEF Others, Marked
    <2>2. Sound(n)'
      BY <1>0 DEF Sound
    <2> QED
      BY <1>1, <1>2, <2>1, <2>2, RequestsStay DEF IInv
  <1>4. SessionsAreSound'
    <2>1. ASSUME NEW u \in User, Revoking(u) PROVE Revoking(u)'
      <3>1. PICK q \in Request : req[q].pc = "revoke" /\ u \in req[q].users
        BY <2>1 DEF Revoking
      <3>2. req'[q].pc = "revoke" /\ u \in req'[q].users
        BY <1>0, <1>1, <3>1
      <3> QED
        BY <3>2 DEF Revoking
    <2>2. \A s \in session' : s \in session \/ SessionIsSound(s)'
      BY DEF Moves
    <2> QED
      BY <1>1, <1>2, <2>1, <2>2, SessionsStay DEF IInv
  <1>5. PasswordsAreFresh'
    <2>1. served' \in 0..MaxRequests
      BY <1>0 DEF Typed
    <2>2. \A q \in Request \ {r} : req'[q].password = req[q].password /\ req'[q].pc = req[q].pc
      BY <1>1
    <2>3. \A u \in User : user'[u].password \in {user[u].password, 0, m.password}
      BY <1>0
    <2>4. n = req'[r] /\ m = req[r]
      BY <1>0, <1>1
    <2>5. /\ served' = served \/ served' = served + 1
          /\ \A s \in session' : s.proof = m.password \/ \E t \in session : s.proof = t.proof
      BY DEF Moves
    <2>6. \/ n.password \in {0, m.password} /\ ~Pending(n)
          \/ ~Pending(n) /\ \E u \in User : n.password = user[u].password
          \/ /\ n.password = served + 1 /\ served' = served + 1
             /\ UNCHANGED <<user, session>>
      BY <1>0 DEF Moves
    <2> QED
      BY <1>1, <2>1, <2>2, <2>3, <2>4, <2>5, <2>6, FreshStays DEF IInv
  <1>6. AdminIsAlone'
    <2>1. CASE ~(n.op = "create admin" /\ n.pc = "insert")
      <3>1. \A q \in Request : Creates(q)' => Creates(q)
        BY <1>1, <2>1 DEF Creates
      <3> QED
        BY <1>0, <3>1, AdminStays DEF IInv
    <2>2. CASE /\ \A a \in User : user[a].row = "live" => user[a].role # "admin"
               /\ \A q \in Request : ~Creates(q)
      BY <1>0, <1>1, <2>2 DEF AdminIsAlone, Creates
    <2> QED
      BY <2>1, <2>2 DEF Moves
  <1> QED
    BY <1>0, <1>3, <1>4, <1>5, <1>6 DEF IInv

\* A request goes on, and nothing but its own memory and the links move.
LEMMA GoesKeeps ==
  ASSUME IInv, NEW r \in Request, NEW m \in Memory, m = req[r], NEW n \in Memory,
         Continues(r, n, {}), UNCHANGED <<company, user, session>>, oauth' \in BOOLEAN,
         link' \in [Link -> LinkRow], LinksHaveUsers',
         Sound(n), m.pc # "revoke", n.password \in {0, m.password}, ~Pending(n),
         n.pc # "insert"
  PROVE  IInv'
  <1>1. /\ Typed /\ req \in [Request -> Memory] /\ served \in 0..MaxRequests
    BY DEF IInv, Typed
  <1>2. /\ req' \in [Request -> Memory] /\ req'[r] = n /\ served' = served
        /\ \A q \in Request \ {r} : req'[q] = req[q]
    <2>1. \A q \in Request : req[q].users \cap {} = {}
      OBVIOUS
    <2>2. {} \in SUBSET User
      OBVIOUS
    <2> QED
      BY <1>1, <2>1, <2>2, ContinuesMarks
  <1>3. req' = [req EXCEPT ![r] = n]
    BY <1>1, <1>2
  <1>4. Typed'
    BY <1>1, <1>2 DEF Typed
  <1>5. /\ \A s \in session' : s \in session \/ SessionIsSound(s)'
        /\ \A s \in session' : s.proof = m.password \/ \E t \in session : s.proof = t.proof
    OBVIOUS
  <1>6. ~(n.op = "create admin" /\ n.pc = "insert") /\ user' = user
    OBVIOUS
  <1>7. Moves(r, m, n)
    BY <1>2, <1>3, <1>4, <1>5, <1>6 DEF Moves
  <1> QED
    BY <1>7, MovesKeeps

LEMMA Counts ==
  ASSUME NEW k \in 0..MaxRequests, k < MaxRequests
  PROVE  k + 1 \in 0..MaxRequests
  BY Constants

\* A request starts.
LEMMA StartsKeep ==
  ASSUME IInv, NEW r \in Request, NEW n \in Memory, Starts(r, n),
         UNCHANGED <<company, user, link, session, oauth>>, Sound(n),
         \/ ~Pending(n) /\ (n.password = 0 \/ \E u \in User : n.password = user[u].password)
         \/ n.password = served + 1,
         \/ ~(n.op = "create admin" /\ n.pc = "insert")
         \/ /\ \A a \in User : user[a].row = "live" => user[a].role # "admin"
            /\ \A q \in Request : ~Creates(q)
  PROVE  IInv'
  <1>1. /\ req \in [Request -> Memory] /\ served \in 0..MaxRequests
    BY DEF IInv, Typed
  <1>2. /\ req[r] = Idle /\ served < MaxRequests /\ served' = served + 1
        /\ req' = [req EXCEPT ![r] = n]
    BY DEF Starts
  <1>3. served' \in 0..MaxRequests
    BY <1>1, <1>2, Counts
  <1>4. req' \in [Request -> Memory]
    BY <1>1, <1>2
  <1>5. Typed'
    BY <1>3, <1>4 DEF IInv, Typed
  <1>6. LinksHaveUsers'
    BY DEF IInv, LinksHaveUsers
  <1>7. /\ \A s \in session' : s \in session \/ SessionIsSound(s)'
        /\ \A s \in session' : s.proof = Idle.password \/ \E t \in session : s.proof = t.proof
    OBVIOUS
  <1>8. PICK m \in Memory : m = req[r] /\ m.pc = "idle" /\ m.password = 0 /\ m = Idle
    BY <1>2, IdleFits
  <1>9. \/ n.password \in {0, m.password} /\ ~Pending(n)
        \/ ~Pending(n) /\ \E u \in User : n.password = user[u].password
        \/ /\ n.password = served + 1 /\ served' = served + 1
           /\ UNCHANGED session
    BY <1>2, <1>8
  <1>10. user' = user
    OBVIOUS
  <1>11. Moves(r, m, n)
    BY <1>2, <1>5, <1>6, <1>7, <1>8, <1>9, <1>10 DEF Moves
  <1> QED
    BY <1>11, MovesKeeps

LEMMA NewPassword ==
  ASSUME NEW k \in 0..MaxRequests, k < MaxRequests
  PROVE  k + 1 \in Password /\ k + 1 # 0
  BY Constants DEF Password, First

LEMMA LinksFit == \A t \in Link : t \in 0..MaxLinks
  BY Constants DEF Link

LEMMA RegisterReadsKeeps ==
  ASSUME IInv, NEW r \in Request, NEW e \in Email, RegisterReads(r, e)
  PROVE  IInv'
  <1>1. served \in 0..MaxRequests /\ user \in [User -> UserRow] /\ link \in [Link -> LinkRow]
    BY DEF IInv, Typed
  <1>3. PICK n : n = [Idle EXCEPT !.op = "register", !.pc = "insert", !.email = e, !.password = served + 1]
    OBVIOUS
  <1>4. Starts(r, n) /\ UNCHANGED <<company, user, link, session, oauth>> /\ served < MaxRequests
    BY <1>3 DEF RegisterReads, Starts
  <1>5. /\ n.op = "register" /\ n.pc = "insert" /\ n.email = e /\ n.users = {}
        /\ n.password = served + 1 /\ n.stale = FALSE
    BY <1>3 DEF Idle
  <1>6. n \in Memory
    BY <1>1, <1>3, <1>4, NewPassword, IdleFits DEF Memory, Op, Pc
  <1>7. Sound(n)
    BY <1>1, <1>4, <1>5, NewPassword DEF Sound
  <1>8. n.password = served + 1
    BY <1>5 DEF Pending
  <1> QED
    BY <1>4, <1>5, <1>6, <1>7, <1>8, StartsKeep

LEMMA CreateHrReadsKeeps ==
  ASSUME IInv, NEW r \in Request, NEW e \in Email, CreateHrReads(r, e)
  PROVE  IInv'
  <1>1. served \in 0..MaxRequests /\ user \in [User -> UserRow] /\ link \in [Link -> LinkRow]
    BY DEF IInv, Typed
  <1>3. PICK n : n = [Idle EXCEPT !.op = "create hr", !.pc = "insert", !.email = e, !.password = served + 1]
    OBVIOUS
  <1>4. Starts(r, n) /\ UNCHANGED <<company, user, link, session, oauth>> /\ served < MaxRequests
    BY <1>3 DEF CreateHrReads, Starts
  <1>5. /\ n.op = "create hr" /\ n.pc = "insert" /\ n.email = e /\ n.users = {}
        /\ n.password = served + 1 /\ n.stale = FALSE
    BY <1>3 DEF Idle
  <1>6. n \in Memory
    BY <1>1, <1>3, <1>4, NewPassword, IdleFits DEF Memory, Op, Pc
  <1>7. Sound(n)
    BY <1>1, <1>4, <1>5, NewPassword DEF Sound
  <1>8. n.password = served + 1
    BY <1>5 DEF Pending
  <1> QED
    BY <1>4, <1>5, <1>6, <1>7, <1>8, StartsKeep

LEMMA CreateAdminReadsKeeps ==
  ASSUME IInv, NEW r \in Request, NEW e \in Email, CreateAdminReads(r, e)
  PROVE  IInv'
  <1>1. served \in 0..MaxRequests /\ user \in [User -> UserRow] /\ link \in [Link -> LinkRow]
    BY DEF IInv, Typed
  <1>3. PICK n : n = [Idle EXCEPT !.op = "create admin", !.pc = "insert", !.email = e, !.password = served + 1]
    OBVIOUS
  <1>4. Starts(r, n) /\ UNCHANGED <<company, user, link, session, oauth>> /\ served < MaxRequests
    BY <1>3 DEF CreateAdminReads, Starts
  <1>5. /\ n.op = "create admin" /\ n.pc = "insert" /\ n.email = e /\ n.users = {}
        /\ n.password = served + 1 /\ n.stale = FALSE
    BY <1>3 DEF Idle
  <1>6. n \in Memory
    BY <1>1, <1>3, <1>4, NewPassword, IdleFits DEF Memory, Op, Pc
  <1>7. Sound(n)
    BY <1>1, <1>4, <1>5, NewPassword DEF Sound
  <1>8. n.password = served + 1
    BY <1>5 DEF Pending
  <1>9. /\ \A a \in User : user[a].row = "live" => user[a].role # "admin"
        /\ \A q \in Request : ~Creates(q)
    BY DEF CreateAdminReads, Locked, At, Admins, Live, Creates
  <1> QED
    BY <1>4, <1>5, <1>6, <1>7, <1>8, <1>9, StartsKeep

LEMMA LoginReadsKeeps ==
  ASSUME IInv, NEW r \in Request, NEW e \in Email, LoginReads(r, e)
  PROVE  IInv'
  <1>1. served \in 0..MaxRequests /\ user \in [User -> UserRow] /\ link \in [Link -> LinkRow]
    BY DEF IInv, Typed
  <1>2. PICK u \in Holder(e) : /\ user[u].password # 0
                              /\ Starts(r, [Idle EXCEPT !.op = "login", !.pc = "mint", !.users = {u},
                                                       !.password = user[u].password])
                              /\ UNCHANGED <<company, user, link, session, oauth>>
    BY DEF LoginReads
  <1>10. u \in User /\ user[u].row = "live" /\ user[u].password \in Password
    BY <1>1, <1>2 DEF Holder, Live, UserRow
  <1>3. PICK n : n = [Idle EXCEPT !.op = "login", !.pc = "mint", !.users = {u}, !.password = user[u].password]
    OBVIOUS
  <1>4. Starts(r, n) /\ UNCHANGED <<company, user, link, session, oauth>> /\ served < MaxRequests
    BY <1>3, <1>2, <1>10 DEF LoginReads, Starts
  <1>5. /\ n.op = "login" /\ n.pc = "mint" /\ n.email = NoEmail /\ n.users = {u}
        /\ n.password = user[u].password /\ n.stale = FALSE
    BY <1>3 DEF Idle
  <1>6. n \in Memory
    BY <1>1, <1>3, <1>4, <1>2, <1>10, NewPassword, IdleFits DEF Memory, Op, Pc
  <1>7. Sound(n)
    BY <1>1, <1>4, <1>5, <1>2, <1>10, NewPassword DEF Sound
  <1>8. ~Pending(n) /\ (n.password = 0 \/ \E v \in User : n.password = user[v].password)
    BY <1>5, <1>2, <1>10 DEF Pending
  <1> QED
    BY <1>4, <1>5, <1>6, <1>7, <1>8, StartsKeep

LEMMA ResetReadsKeeps ==
  ASSUME IInv, NEW r \in Request, NEW t \in Link, ResetReads(r, t)
  PROVE  IInv'
  <1>1. served \in 0..MaxRequests /\ user \in [User -> UserRow] /\ link \in [Link -> LinkRow]
    BY DEF IInv, Typed
  <1>2. PICK u \in User : u = link[t].user /\ user[u].row # "none"
    BY <1>1 DEF ResetReads, LinkRow, User, IInv, LinksHaveUsers
  <1>3. PICK n : n = [Idle EXCEPT !.op = "reset", !.pc = "commit", !.link = t, !.users = {u},
                         !.password = served + 1]
    OBVIOUS
  <1>4. Starts(r, n) /\ UNCHANGED <<company, user, link, session, oauth>> /\ served < MaxRequests
    BY <1>3, <1>2 DEF ResetReads, Starts
  <1>5. /\ n.op = "reset" /\ n.pc = "commit" /\ n.email = NoEmail /\ n.users = {u}
        /\ n.password = served + 1 /\ n.stale = FALSE
    BY <1>3 DEF Idle
  <1>6. n \in Memory
    BY <1>1, <1>3, <1>4, <1>2, NewPassword, IdleFits, LinksFit DEF Memory, Op, Pc
  <1>7. Sound(n)
    BY <1>1, <1>4, <1>5, <1>2, NewPassword DEF Sound
  <1>8. n.password = served + 1
    BY <1>5, <1>2 DEF Pending
  <1> QED
    BY <1>4, <1>5, <1>6, <1>7, <1>8, StartsKeep

LEMMA ChangeReadsKeeps ==
  ASSUME IInv, NEW r \in Request, NEW u \in User, ChangeReads(r, u)
  PROVE  IInv'
  <1>1. served \in 0..MaxRequests /\ user \in [User -> UserRow] /\ link \in [Link -> LinkRow]
    BY DEF IInv, Typed
  <1>2. user[u].row # "none"
    BY DEF ChangeReads, Live
  <1>3. PICK n : n = [Idle EXCEPT !.op = "change", !.pc = "commit", !.users = {u}, !.password = served + 1]
    OBVIOUS
  <1>4. Starts(r, n) /\ UNCHANGED <<company, user, link, session, oauth>> /\ served < MaxRequests
    BY <1>3, <1>2 DEF ChangeReads, Starts
  <1>5. /\ n.op = "change" /\ n.pc = "commit" /\ n.email = NoEmail /\ n.users = {u}
        /\ n.password = served + 1 /\ n.stale = FALSE
    BY <1>3 DEF Idle
  <1>6. n \in Memory
    BY <1>1, <1>3, <1>4, <1>2, NewPassword, IdleFits DEF Memory, Op, Pc
  <1>7. Sound(n)
    BY <1>1, <1>4, <1>5, <1>2, NewPassword DEF Sound
  <1>8. n.password = served + 1
    BY <1>5, <1>2 DEF Pending
  <1> QED
    BY <1>4, <1>5, <1>6, <1>7, <1>8, StartsKeep

LEMMA RemoveReadsKeeps ==
  ASSUME IInv, NEW r \in Request, NEW u \in User, RemoveReads(r, u)
  PROVE  IInv'
  <1>1. served \in 0..MaxRequests /\ user \in [User -> UserRow] /\ link \in [Link -> LinkRow]
    BY DEF IInv, Typed
  <1>2. user[u].row # "none"
    BY DEF RemoveReads, Members, Live
  <1>3. PICK n : n = [Idle EXCEPT !.op = "remove", !.pc = "commit", !.users = {u}]
    OBVIOUS
  <1>4. Starts(r, n) /\ UNCHANGED <<company, user, link, session, oauth>> /\ served < MaxRequests
    BY <1>3, <1>2 DEF RemoveReads, Starts
  <1>5. /\ n.op = "remove" /\ n.pc = "commit" /\ n.email = NoEmail /\ n.users = {u}
        /\ n.password = 0 /\ n.stale = FALSE
    BY <1>3 DEF Idle
  <1>6. n \in Memory
    BY <1>1, <1>3, <1>4, <1>2, NewPassword, IdleFits DEF Memory, Op, Pc
  <1>7. Sound(n)
    BY <1>1, <1>4, <1>5, <1>2, NewPassword DEF Sound
  <1>8. ~Pending(n) /\ (n.password = 0 \/ \E v \in User : n.password = user[v].password)
    BY <1>5, <1>2 DEF Pending
  <1> QED
    BY <1>4, <1>5, <1>6, <1>7, <1>8, StartsKeep

LEMMA GoogleReadsKeeps ==
  ASSUME IInv, NEW r \in Request, NEW e \in Email, GoogleReads(r, e)
  PROVE  IInv'
  <1>1. served \in 0..MaxRequests /\ user \in [User -> UserRow] /\ link \in [Link -> LinkRow]
    BY DEF IInv, Typed
  <1>3. PICK n : n = [Idle EXCEPT !.op = "google", !.pc = "delete", !.email = e]
    OBVIOUS
  <1>4. Starts(r, n) /\ UNCHANGED <<company, user, link, session, oauth>> /\ served < MaxRequests
    BY <1>3 DEF GoogleReads, Starts
  <1>5. /\ n.op = "google" /\ n.pc = "delete" /\ n.email = e /\ n.users = {}
        /\ n.password = 0 /\ n.stale = FALSE
    BY <1>3 DEF Idle
  <1>6. n \in Memory
    BY <1>1, <1>3, <1>4, NewPassword, IdleFits DEF Memory, Op, Pc
  <1>7. Sound(n)
    BY <1>1, <1>4, <1>5, NewPassword DEF Sound
  <1>8. ~Pending(n) /\ (n.password = 0 \/ \E v \in User : n.password = user[v].password)
    BY <1>5 DEF Pending
  <1> QED
    BY <1>4, <1>5, <1>6, <1>7, <1>8, StartsKeep

-----------------------------------------------------------------------------

LEMMA IsSound ==
  ASSUME IInv, NEW r \in Request
  PROVE  \E m \in Memory : m = req[r] /\ Sound(m)
  BY DEF IInv, RequestsAreSound

LEMMA SubjectIs ==
  ASSUME NEW r \in Request, NEW u \in User, req[r].users = {u}
  PROVE  Subject(r) = u
  BY DEF Subject

\* A link is minted for an account that is there.
LEMMA LinkMinted ==
  ASSUME IInv, NEW u \in User, user[u].row # "none", NEW kind \in {"verify", "reset"},
         MintLink(u, kind), user' = user
  PROVE  link' \in [Link -> LinkRow] /\ LinksHaveUsers'
  <1>1. link \in [Link -> LinkRow]
    BY DEF IInv, Typed
  <1>2. PICK t \in Link : link' = [link EXCEPT ![t] = [user |-> u, kind |-> kind, spent |-> FALSE]]
    BY DEF MintLink
  <1>3. u \in 0..MaxUsers
    BY Constants DEF User
  <1>4. [user |-> u, kind |-> kind, spent |-> FALSE] \in LinkRow
    BY <1>3 DEF LinkRow
  <1>5. link' \in [Link -> LinkRow]
    BY <1>1, <1>2, <1>4
  <1>6. ASSUME NEW i \in Link, link'[i].user # 0 PROVE user'[link'[i].user].row # "none"
    <2>1. CASE i = t
      BY <1>1, <1>2, <2>1
    <2>2. CASE i # t
      BY <1>1, <1>2, <1>6, <2>2 DEF IInv, LinksHaveUsers
    <2> QED
      BY <2>1, <2>2
  <1> QED
    BY <1>5, <1>6 DEF LinksHaveUsers

LEMMA LinksRest ==
  ASSUME IInv, link' = link, user' = user
  PROVE  link' \in [Link -> LinkRow] /\ LinksHaveUsers'
  BY DEF IInv, Typed, LinksHaveUsers

LEMMA EndsKeeps ==
  ASSUME IInv, NEW r \in Request, req[r].pc # "revoke", Ends(r),
         UNCHANGED <<company, user, session>>, oauth' \in BOOLEAN,
         link' \in [Link -> LinkRow], LinksHaveUsers'
  PROVE  IInv'
  <1>1. PICK m \in Memory : m = req[r]
    BY DEF IInv, Typed
  <1>2. Continues(r, Idle, {})
    BY DEF Ends
  <1>3. ~Pending(Idle) /\ Idle.password \in {0, m.password} /\ Idle.pc # "insert"
        /\ Idle \in Memory /\ Sound(Idle) /\ m.pc # "revoke"
    BY <1>1, IdleFits DEF Pending
  <1> QED
    BY <1>1, <1>2, <1>3, GoesKeeps

LEMMA CredentialsMailedKeeps ==
  ASSUME IInv, NEW r \in Request, CredentialsMailed(r)
  PROVE  IInv'
  <1>1. PICK m \in Memory : m = req[r] /\ Sound(m)
    BY IsSound
  <1>2. PICK u \in User : m.users = {u} /\ user[u].row # "none"
    BY <1>1 DEF Sound, CredentialsMailed
  <1>3. Subject(r) = u
    BY <1>1, <1>2, SubjectIs
  <1>4. /\ req[r].pc # "revoke" /\ Ends(r) /\ UNCHANGED <<company, user, session, oauth>>
        /\ MintLink(u, "reset") \/ link' = link
    BY <1>3 DEF CredentialsMailed
  <1>5. link' \in [Link -> LinkRow] /\ LinksHaveUsers'
    BY <1>2, <1>4, LinkMinted, LinksRest
  <1>6. oauth' \in BOOLEAN
    BY <1>4 DEF IInv, Typed
  <1> QED
    BY <1>4, <1>5, <1>6, EndsKeeps

LEMMA GoogleDeletesKeeps ==
  ASSUME IInv, NEW r \in Request, GoogleDeletes(r)
  PROVE  IInv'
  <1>1. PICK m \in Memory : m = req[r] /\ Sound(m)
    BY IsSound
  <1>2. /\ m.op = "google" /\ m.pc = "delete" /\ oauth' = FALSE
        /\ UNCHANGED <<company, user, link, session>>
        /\ Goes(r, "check") \/ Ends(r)
    BY <1>1 DEF GoogleDeletes, At
  <1>3. link' \in [Link -> LinkRow] /\ LinksHaveUsers'
    BY <1>2, LinksRest
  <1>4. CASE Ends(r)
    BY <1>1, <1>2, <1>3, <1>4, EndsKeeps
  <1>5. CASE Goes(r, "check")
    <2>1. PICK n : n = [m EXCEPT !.pc = "check"]
      OBVIOUS
    <2>2. n \in Memory
      BY <2>1 DEF Memory, Pc
    <2>3. /\ n.op = m.op /\ n.pc = "check" /\ n.email = m.email /\ n.users = m.users
          /\ n.password = m.password /\ n.stale = m.stale
      BY <2>1 DEF Memory
    <2>4. Sound(n)
      BY <1>1, <1>2, <2>3 DEF Sound
    <2>5. Continues(r, n, {}) /\ ~Pending(n)
      BY <1>1, <1>5, <2>1, <2>3 DEF Goes, Pending
    <2> QED
      BY <1>1, <1>2, <1>3, <2>2, <2>3, <2>4, <2>5, GoesKeeps
  <1> QED
    BY <1>2, <1>4, <1>5

LEMMA GoogleChecksKeeps ==
  ASSUME IInv, NEW r \in Request, GoogleChecks(r)
  PROVE  IInv'
  <1>1. PICK m \in Memory : m = req[r] /\ Sound(m)
    BY IsSound
  <1>2. /\ m.op = "google" /\ m.pc = "check" /\ UNCHANGED <<company, user, link, session, oauth>>
    BY <1>1 DEF GoogleChecks, At
  <1>3. link' \in [Link -> LinkRow] /\ LinksHaveUsers' /\ oauth' \in BOOLEAN
    BY <1>2, LinksRest DEF IInv, Typed
  <1>4. CASE Privileged(m.email)
    BY <1>1, <1>2, <1>3, <1>4, EndsKeeps DEF GoogleChecks
  <1>5. CASE ~Privileged(m.email)
    <2>1. PICK n : n = [m EXCEPT !.pc = "upsert"]
      OBVIOUS
    <2>2. n \in Memory
      BY <2>1 DEF Memory, Pc
    <2>3. /\ n.op = m.op /\ n.pc = "upsert" /\ n.email = m.email /\ n.users = m.users
          /\ n.password = m.password /\ n.stale = m.stale
      BY <2>1 DEF Memory
    <2>4. \A u \in User : (user[u].row = "live" /\ user[u].email = m.email)
                            => user[u].role = "candidate"
      BY <1>5 DEF Privileged, Holder, Live
    <2>5. Sound(n)
      BY <1>1, <1>2, <2>3, <2>4 DEF Sound
    <2>6. Continues(r, n, {}) /\ ~Pending(n)
      BY <1>1, <1>5, <2>1, <2>3 DEF Goes, Pending, GoogleChecks
    <2> QED
      BY <1>1, <1>2, <1>3, <2>2, <2>3, <2>5, <2>6, GoesKeeps
  <1> QED
    BY <1>4, <1>5

-----------------------------------------------------------------------------

LEMMA SameRevoking ==
  ASSUME NEW r \in Request, req[r].pc # "revoke",
         \A q \in Request \ {r} : req'[q].pc = req[q].pc /\ req'[q].users = req[q].users,
         NEW u \in User, Revoking(u)
  PROVE  Revoking(u)'
  <1>1. PICK q \in Request : req[q].pc = "revoke" /\ u \in req[q].users
    BY DEF Revoking
  <1>2. req'[q].pc = "revoke" /\ u \in req'[q].users
    BY <1>1
  <1> QED
    BY <1>2 DEF Revoking

\* What a step of r does to the memories of the others.
Marks(r, changed) ==
    /\ req' \in [Request -> Memory]
    /\ \A q \in Request \ {r} :
         /\ Marked(req[q], req'[q]) /\ req'[q].pc = req[q].pc /\ req'[q].op = req[q].op
         /\ req'[q].password = req[q].password /\ req'[q].users = req[q].users
         /\ req[q].users \cap changed # {} => req'[q].stale = TRUE

\* A new account, inserted by r as it goes from m to n.
Inserts(r, m, n, u, row) ==
    /\ m = req[r] /\ req'[r] = n /\ Marks(r, {})
    /\ user[u].row = "none" /\ user' = [user EXCEPT ![u] = row]
    /\ row.row = "live" /\ row.password \in {0, m.password}
    /\ row.role = "admin" => Creates(r)
    /\ UNCHANGED <<company, link, session, oauth, served>>
    /\ m.pc # "revoke" /\ ~Pending(n) /\ n.pc # "insert" /\ n.password \in {0, m.password}
    /\ \A q \in Request \ {r} :
         (req[q].pc = "upsert" /\ req[q].email = row.email /\ row.role # "candidate")
           => req'[q].stale = TRUE

LEMMA InsertsKeep ==
  ASSUME IInv, NEW r \in Request, NEW m \in Memory, NEW n \in Memory,
         NEW u \in User, NEW row \in UserRow, Inserts(r, m, n, u, row), Sound(n)'
  PROVE  IInv'
  <1>1. /\ m = req[r] /\ req'[r] = n /\ Marks(r, {})
        /\ user[u].row = "none" /\ user' = [user EXCEPT ![u] = row]
        /\ row.row = "live" /\ row.password \in {0, m.password}
        /\ UNCHANGED <<company, link, session, oauth, served>>
        /\ m.pc # "revoke" /\ ~Pending(n) /\ n.pc # "insert" /\ n.password \in {0, m.password}
    BY DEF Inserts
  <1>2. Typed /\ user \in [User -> UserRow] /\ served \in 0..MaxRequests
    BY DEF IInv, Typed
  <1>3. /\ user' \in [User -> UserRow] /\ user'[u] = row
        /\ \A v \in User \ {u} : user'[v] = user[v]
    BY <1>1, <1>2
  <1>4. UsersMove({})
    BY <1>1, <1>3 DEF UsersMove
  <1>5. Typed'
    BY <1>1, <1>2, <1>3 DEF Typed, Marks
  <1>6. LinksHaveUsers'
    <2>1. ASSUME NEW t \in Link, link[t].user # 0 PROVE user'[link[t].user].row # "none"
      <3>1. user[link[t].user].row # "none" /\ link[t].user \in User
        BY <1>2, <2>1, Constants DEF IInv, LinksHaveUsers, Typed, LinkRow, User
      <3> QED
        BY <1>1, <1>3, <3>1
    <2> QED
      BY <1>1, <2>1 DEF LinksHaveUsers
  <1>7. RequestsAreSound'
    <2>1. ASSUME NEW q \in Request \ {r}, req[q].pc = "upsert", req'[q].stale = FALSE
          PROVE  NoneAt(req[q].email)
      <3>1. ~(req[q].email = row.email /\ row.role # "candidate")
        BY <2>1 DEF Inserts
      <3> QED
        BY <1>3, <3>1 DEF NoneAt
    <2>2. Others(r, {})
      BY <1>1, <2>1 DEF Others, Marks
    <2> QED
      BY <1>1, <1>2, <1>4, <2>2, RequestsStay DEF IInv
  <1>8. SessionsAreSound'
    <2>1. \A v \in User : Revoking(v) => Revoking(v)'
      BY <1>1, SameRevoking DEF Marks
    <2>2. \A s \in session' : s \in session \/ SessionIsSound(s)'
      BY <1>1
    <2>3. {} \in SUBSET User /\ \A v \in User : Revoking(v) \/ v \in {} => Revoking(v)'
      BY <2>1
    <2> QED
      BY <1>2, <1>4, <2>2, <2>3, SessionsStay DEF IInv
  <1>9. PasswordsAreFresh'
    <2>1. \A q \in Request \ {r} : req'[q].password = req[q].password /\ req'[q].pc = req[q].pc
      BY <1>1 DEF Marks
    <2>2. \A v \in User : user'[v].password \in {user[v].password, 0, m.password}
      BY <1>1, <1>3
    <2>3. /\ \A s \in session' : s.proof = m.password \/ \E t \in session : s.proof = t.proof
          /\ served' = served /\ served' \in 0..MaxRequests
      BY <1>1, <1>2
    <2>4. m = req[r] /\ n = req'[r] /\ n.password \in {0, m.password} /\ ~Pending(n)
      BY <1>1
    <2> QED
      BY <1>2, <2>1, <2>2, <2>3, <2>4, FreshStays DEF IInv
  <1>10. AdminIsAlone'
    <2>1. \A q \in Request : Creates(q)' => Creates(q) /\ q # r
      BY <1>1 DEF Creates, Marks
    <2>2. CASE row.role = "admin"
      <3>1. /\ \A a \in User : user[a].row = "live" => user[a].role # "admin"
            /\ \A q \in Request : Creates(q) => q = r
        BY <2>2 DEF Inserts, IInv, AdminIsAlone
      <3> QED
        BY <1>3, <2>1, <3>1 DEF AdminIsAlone
    <2>3. CASE row.role # "admin"
      <3>1. \A a \in User : (user'[a].row = "live" /\ user'[a].role = "admin")
                              => user[a].row = "live" /\ user[a].role = "admin"
        BY <1>3, <2>3
      <3> QED
        BY <2>1, <3>1, AdminStays DEF IInv
    <2> QED
      BY <2>2, <2>3
  <1> QED
    BY <1>5, <1>6, <1>7, <1>8, <1>9, <1>10 DEF IInv

LEMMA NoUserFits ==
  /\ NoUser \in UserRow /\ NoUser.password = 0 /\ NoUser.role = "candidate"
  /\ NoUser.email = NoEmail
  <1>1. 0 \in Password
    BY Constants DEF Password, First
  <1> QED
    BY <1>1 DEF NoUser, UserRow, Role

LEMMA NothingChanged == \A q \in Request : req[q].users \cap {} = {}
  OBVIOUS

LEMMA RegisterInsertsKeeps ==
  ASSUME IInv, NEW r \in Request, RegisterInserts(r)
  PROVE  IInv'
  <1>1. PICK m \in Memory : m = req[r] /\ Sound(m)
    BY IsSound
  <1>2. /\ m.op = "register" /\ m.pc = "insert" /\ UNCHANGED <<company, link, session, oauth>>
        /\ m.email \in Email /\ m.password # 0 /\ m.password \in Password
    BY <1>1, Remembered DEF RegisterInserts, At, Sound
  <1>3. CASE Ends(r) /\ user' = user
    <2>1. link' \in [Link -> LinkRow] /\ LinksHaveUsers' /\ oauth' \in BOOLEAN
      BY <1>2, <1>3, LinksRest DEF IInv, Typed
    <2> QED
      BY <1>1, <1>2, <1>3, <2>1, EndsKeeps
  <1>4. ASSUME NEW u \in User, NextUser(u),
               user' = [user EXCEPT ![u] = [NoUser EXCEPT !.row = "live",
                             !.email = req[r].email, !.password = req[r].password]],
               Continues(r, [req[r] EXCEPT !.pc = "mint", !.users = {u}], {})
        PROVE  IInv'
    <2>1. PICK row : row = [NoUser EXCEPT !.row = "live", !.email = m.email,
                                          !.password = m.password]
      OBVIOUS
    <2>2. /\ row \in UserRow /\ row.row = "live" /\ row.password = m.password
          /\ row.role = "candidate"
      BY <1>2, <2>1, NoUserFits DEF UserRow
    <2>3. PICK n : n = [m EXCEPT !.pc = "mint", !.users = {u}]
      OBVIOUS
    <2>4. n \in Memory
      BY <2>3 DEF Memory, Pc
    <2>5. /\ n.op = "register" /\ n.pc = "mint" /\ n.users = {u} /\ n.password = m.password
      BY <1>2, <2>3 DEF Memory
    <2>6. Continues(r, n, {}) /\ user' = [user EXCEPT ![u] = row] /\ user[u].row = "none"
      BY <1>1, <1>4, <2>1, <2>3 DEF NextUser
    <2>7. req'[r] = n /\ Marks(r, {}) /\ served' = served
      <3>1. Typed /\ {} \in SUBSET User
        BY DEF IInv
      <3> QED
        BY <2>4, <2>6, <3>1, ContinuesMarks DEF Marks
    <2>8. user'[u] = row
      BY <2>6 DEF IInv, Typed
    <2>9. Sound(n)'
      BY <1>2, <2>2, <2>5, <2>8 DEF Sound
    <2>10. Inserts(r, m, n, u, row)
      BY <1>1, <1>2, <2>2, <2>5, <2>6, <2>7 DEF Inserts, Pending
    <2> QED
      BY <2>2, <2>4, <2>9, <2>10, InsertsKeep
  <1> QED
    BY <1>3, <1>4 DEF RegisterInserts

LEMMA MemberInsertsKeeps ==
  ASSUME IInv, NEW r \in Request, MemberInserts(r)
  PROVE  IInv'
  <1>1. PICK m \in Memory : m = req[r] /\ Sound(m)
    BY IsSound
  <1>2. /\ m.op \in {"create admin", "create hr"} /\ m.pc = "insert"
        /\ UNCHANGED <<company, link, session, oauth>>
        /\ m.email \in Email /\ m.password # 0 /\ m.password \in Password
    BY <1>1, Remembered DEF MemberInserts, Sound
  <1>3. CASE Ends(r) /\ user' = user
    <2>1. link' \in [Link -> LinkRow] /\ LinksHaveUsers' /\ oauth' \in BOOLEAN
      BY <1>2, <1>3, LinksRest DEF IInv, Typed
    <2> QED
      BY <1>1, <1>2, <1>3, <2>1, EndsKeeps
  <1>4. ASSUME NEW u \in User, NextUser(u),
               user' = [user EXCEPT ![u] = [row |-> "live", email |-> m.email,
                       role |-> RoleOf(m.op), password |-> m.password,
                       mustChange |-> TRUE, verified |-> FALSE]],
               req' = [LooksPast(m.email) EXCEPT ![r] = [m EXCEPT !.pc = "mail", !.users = {u}]],
               UNCHANGED served
        PROVE  IInv'
    <2>1. PICK row : row = [row |-> "live", email |-> m.email, role |-> RoleOf(m.op),
                            password |-> m.password, mustChange |-> TRUE, verified |-> FALSE]
      OBVIOUS
    <2>2. /\ row \in UserRow /\ row.row = "live" /\ row.password = m.password
          /\ row.email = m.email /\ (row.role = "admin" => m.op = "create admin")
      BY <1>2, <2>1 DEF UserRow, RoleOf, Role
    <2>3. PICK n : n = [m EXCEPT !.pc = "mail", !.users = {u}]
      OBVIOUS
    <2>4. n \in Memory
      BY <2>3 DEF Memory, Pc
    <2>5. /\ n.op = m.op /\ n.pc = "mail" /\ n.users = {u} /\ n.password = m.password
      BY <1>2, <2>3 DEF Memory
    <2>6. user' = [user EXCEPT ![u] = row] /\ user[u].row = "none"
      BY <1>4, <2>1 DEF NextUser
    <2>7. req \in [Request -> Memory]
      BY DEF IInv, Typed
    <2>8. ASSUME NEW q \in Request, q # r
          PROVE  /\ req'[q] \in Memory
                 /\ Marked(req[q], req'[q]) /\ req'[q].pc = req[q].pc /\ req'[q].op = req[q].op
                 /\ req'[q].password = req[q].password /\ req'[q].users = req[q].users
                 /\ (req[q].pc = "upsert" /\ req[q].email = m.email) => req'[q].stale = TRUE
      <3>1. PICK k \in Memory : k = req[q] /\ Sound(k)
        BY IsSound
      <3>2. PICK i : i = IF k.op = "google" /\ k.pc = "upsert" /\ k.email = m.email
                         THEN [k EXCEPT !.stale = TRUE] ELSE k
        OBVIOUS
      <3>3. req'[q] = i
        BY <1>4, <2>7, <2>8, <3>1, <3>2 DEF LooksPast
      <3>4. Marked(k, i)
        BY <3>2 DEF Marked
      <3>5. (k.pc = "upsert" /\ k.email = m.email) => i.stale = TRUE
        BY <3>1, <3>2 DEF Sound, Memory
      <3> QED
        BY <3>1, <3>3, <3>4, <3>5, MarkedFields
    <2>9. req'[r] = n
      BY <1>4, <2>3, <2>7 DEF LooksPast
    <2>10. req' \in [Request -> Memory]
      BY <1>4, <2>4, <2>8, <2>9 DEF LooksPast
    <2>11. Marks(r, {})
      BY <2>8, <2>10, NothingChanged DEF Marks
    <2>12. user'[u] = row
      BY <2>6 DEF IInv, Typed
    <2>13. Sound(n)'
      BY <1>1, <1>2, <2>2, <2>5, <2>12 DEF Sound
    <2>14. Creates(r) \/ row.role # "admin"
      BY <1>1, <1>2, <2>2 DEF Creates
    <2>15. Inserts(r, m, n, u, row)
      <3>1. /\ m = req[r] /\ m.pc # "revoke"
            /\ row.role = "admin" => Creates(r)
            /\ UNCHANGED <<company, link, session, oauth, served>>
        BY <1>1, <1>2, <1>4, <2>14
      <3>2. ~Pending(n) /\ n.pc # "insert" /\ n.password \in {0, m.password}
        BY <2>5 DEF Pending
      <3>3. \A q \in Request \ {r} :
              (req[q].pc = "upsert" /\ req[q].email = row.email /\ row.role # "candidate")
                => req'[q].stale = TRUE
        BY <2>2, <2>8
      <3>4. row.row = "live" /\ row.password \in {0, m.password}
        BY <2>2
      <3> QED
        BY <2>6, <2>9, <2>11, <3>1, <3>2, <3>3, <3>4 DEF Inserts
    <2> QED
      BY <2>2, <2>4, <2>13, <2>15, InsertsKeep
  <1> QED
    BY <1>1, <1>3, <1>4 DEF MemberInserts

LEMMA GoogleUpsertsKeeps ==
  ASSUME IInv, NEW r \in Request, GoogleUpserts(r)
  PROVE  IInv'
  <1>1. PICK m \in Memory : m = req[r] /\ Sound(m)
    BY IsSound
  <1>2. /\ m.op = "google" /\ m.pc = "upsert" /\ UNCHANGED <<company, link, session, oauth>>
        /\ m.email \in Email /\ m.password = 0
    BY <1>1 DEF GoogleUpserts, At, Sound
  <1>3. ASSUME NEW u \in User
        PROVE  \E n \in Memory : /\ n = [m EXCEPT !.pc = "mint", !.users = {u}]
                                 /\ n.op = "google" /\ n.pc = "mint" /\ n.users = {u}
                                 /\ n.password = 0 /\ n.stale = m.stale /\ ~Pending(n)
    <2>1. PICK n : n = [m EXCEPT !.pc = "mint", !.users = {u}]
      OBVIOUS
    <2>2. n \in Memory
      BY <2>1 DEF Memory, Pc
    <2>3. /\ n.op = "google" /\ n.pc = "mint" /\ n.users = {u} /\ n.password = 0
          /\ n.stale = m.stale
      BY <1>2, <2>1 DEF Memory
    <2> QED
      BY <2>1, <2>2, <2>3 DEF Pending
  <1>4. ASSUME NEW u \in Holder(m.email), UNCHANGED user,
               Continues(r, [m EXCEPT !.pc = "mint", !.users = {u}], {})
        PROVE  IInv'
    <2>1. u \in User /\ user[u].row = "live" /\ user[u].email = m.email
      BY DEF Holder, Live
    <2>2. PICK n \in Memory : /\ n = [m EXCEPT !.pc = "mint", !.users = {u}]
                              /\ n.op = "google" /\ n.pc = "mint" /\ n.users = {u}
                              /\ n.password = 0 /\ n.stale = m.stale /\ ~Pending(n)
      BY <1>3, <2>1
    <2>3. Sound(n)
      BY <1>1, <1>2, <2>1, <2>2 DEF Sound
    <2>4. link' \in [Link -> LinkRow] /\ LinksHaveUsers' /\ oauth' \in BOOLEAN
      BY <1>2, <1>4, LinksRest DEF IInv, Typed
    <2>5. Continues(r, n, {})
      BY <1>4, <2>2
    <2> QED
      BY <1>1, <1>2, <1>4, <2>2, <2>3, <2>4, <2>5, GoesKeeps
  <1>5. ASSUME NEW u \in User, NextUser(u),
               user' = [user EXCEPT ![u] = [NoUser EXCEPT !.row = "live", !.email = m.email]],
               Continues(r, [m EXCEPT !.pc = "mint", !.users = {u}], {})
        PROVE  IInv'
    <2>1. PICK row : row = [NoUser EXCEPT !.row = "live", !.email = m.email]
      OBVIOUS
    <2>2. /\ row \in UserRow /\ row.row = "live" /\ row.password = 0 /\ row.role = "candidate"
      BY <1>2, <2>1, NoUserFits DEF UserRow
    <2>3. PICK n \in Memory : /\ n = [m EXCEPT !.pc = "mint", !.users = {u}]
                              /\ n.op = "google" /\ n.pc = "mint" /\ n.users = {u}
                              /\ n.password = 0 /\ n.stale = m.stale /\ ~Pending(n)
      BY <1>3
    <2>4. Continues(r, n, {}) /\ user' = [user EXCEPT ![u] = row] /\ user[u].row = "none"
      BY <1>5, <2>1, <2>3 DEF NextUser
    <2>5. req'[r] = n /\ Marks(r, {}) /\ served' = served
      <3>1. Typed /\ {} \in SUBSET User
        BY DEF IInv
      <3> QED
        BY <2>4, <3>1, ContinuesMarks DEF Marks
    <2>6. user'[u] = row
      BY <2>4 DEF IInv, Typed
    <2>7. Sound(n)'
      BY <1>2, <2>2, <2>3, <2>6 DEF Sound
    <2>8. Inserts(r, m, n, u, row)
      BY <1>1, <1>2, <2>2, <2>3, <2>4, <2>5 DEF Inserts
    <2> QED
      BY <2>2, <2>7, <2>8, InsertsKeep
  <1> QED
    BY <1>1, <1>4, <1>5 DEF GoogleUpserts

-----------------------------------------------------------------------------

LEMMA EndsMoves ==
  ASSUME Typed, NEW r \in Request, Ends(r)
  PROVE  /\ req' \in [Request -> Memory] /\ req'[r] = Idle /\ served' = served
         /\ \A q \in Request \ {r} : req'[q] = req[q]
  <1>1. PICK i \in Memory : i = Idle
    BY IdleFits
  <1>2. Continues(r, i, {}) /\ {} \in SUBSET User
    BY <1>1 DEF Ends
  <1>3. /\ req' \in [Request -> Memory] /\ req'[r] = i /\ served' = served
        /\ \A q \in Request \ {r} : req'[q] = req[q]
    BY <1>2, NothingChanged, ContinuesMarks
  <1> QED
    BY <1>1, <1>3

\* A session is minted, for what its request has proved.
LEMMA MintsKeep ==
  ASSUME IInv, NEW r \in Request, NEW m \in Memory, m = req[r], Sound(m), m.pc = "mint",
         NEW u \in User, m.users = {u}, NEW h \in BOOLEAN, MintSession(r, u, h), Ends(r),
         UNCHANGED <<company, user, oauth>>, link' \in [Link -> LinkRow], LinksHaveUsers',
         (VerificationRequired /\ user[u].row = "live" /\ h = TRUE /\ user[u].password # 0
            /\ m.password = user[u].password)
           => user[u].verified = TRUE \/ user[u].mustChange = TRUE
  PROVE  IInv'
  <1>1. PICK new : new = [user |-> u, proof |-> m.password, held |-> h, missed |-> m.stale]
    OBVIOUS
  <1>2. /\ session' = session \cup {new} /\ new \in Session
        /\ new.user = u /\ new.proof = m.password /\ new.held = h /\ new.missed = m.stale
    BY <1>1, Remembered DEF MintSession, Session
  <1>3. Typed /\ {} \in SUBSET User /\ req \in [Request -> Memory]
    BY DEF IInv, Typed
  <1>4. /\ req' \in [Request -> Memory] /\ req'[r] = Idle /\ served' = served
        /\ \A q \in Request \ {r} : req'[q] = req[q]
    BY <1>3, EndsMoves
  <1>5. req' = [req EXCEPT ![r] = Idle]
    BY <1>3, <1>4
  <1>6. Typed'
    BY <1>2, <1>3, <1>4 DEF Typed
  <1>7. SessionIsSound(new)'
    <2>1. user[u].row # "none" /\ m.stale \in BOOLEAN
      BY Remembered DEF Sound
    <2>2. m.stale = FALSE =>
            /\ user[u].row = "live" /\ m.password \in {0, user[u].password}
            /\ m.op = "google" => user[u].role = "candidate"
      BY DEF Sound
    <2>3. m.op = "google" <=> m.password = 0
      BY DEF Sound
    <2>4. Follows(new)'
      BY <1>2, <2>1, <2>2 DEF Follows
    <2>5. Confirmed(new)'
      BY <1>2 DEF Confirmed
    <2> QED
      BY <1>2, <2>1, <2>2, <2>3, <2>4, <2>5 DEF SessionIsSound
  <1>8. /\ \A s \in session' : s \in session \/ SessionIsSound(s)'
        /\ \A s \in session' : s.proof = m.password \/ \E t \in session : s.proof = t.proof
    BY <1>2, <1>7
  <1>9. Moves(r, m, Idle)
    BY <1>4, <1>5, <1>6, <1>8, IdleFits DEF Moves, Pending
  <1> QED
    BY <1>9, IdleFits, MovesKeeps

LEMMA RegisterMintsKeeps ==
  ASSUME IInv, NEW r \in Request, RegisterMints(r)
  PROVE  IInv'
  <1>1. PICK m \in Memory : m = req[r] /\ Sound(m)
    BY IsSound
  <1>2. m.pc = "mint"
    BY <1>1 DEF RegisterMints, At
  <1>3. PICK u \in User : m.users = {u} /\ user[u].row # "none"
    BY <1>1, <1>2 DEF Sound
  <1>4. Subject(r) = u
    BY <1>1, <1>3, SubjectIs
  <1>5. PICK h \in BOOLEAN : h = ~VerificationRequired
    OBVIOUS
  <1>6. /\ MintSession(r, u, h) /\ Ends(r) /\ UNCHANGED <<company, user, oauth>>
        /\ MintLink(u, "verify") \/ link' = link
    BY <1>4, <1>5 DEF RegisterMints
  <1>7. link' \in [Link -> LinkRow] /\ LinksHaveUsers'
    BY <1>3, <1>6, LinkMinted, LinksRest
  <1>8. ~(VerificationRequired /\ h = TRUE)
    BY <1>5, VerificationAssumption
  <1> QED
    BY <1>1, <1>2, <1>3, <1>6, <1>7, <1>8, MintsKeep

LEMMA LoginMintsKeeps ==
  ASSUME IInv, NEW r \in Request, LoginMints(r)
  PROVE  IInv'
  <1>1. PICK m \in Memory : m = req[r] /\ Sound(m)
    BY IsSound
  <1>2. m.pc = "mint"
    BY <1>1 DEF LoginMints, At
  <1>3. PICK u \in User : m.users = {u} /\ user[u].row # "none"
    BY <1>1, <1>2 DEF Sound
  <1>4. Subject(r) = u
    BY <1>1, <1>3, SubjectIs
  <1>5. PICK h \in BOOLEAN : h = ~Blocked(u)
    OBVIOUS
  <1>6. /\ MintSession(r, u, h) /\ Ends(r) /\ UNCHANGED <<company, user, oauth>>
        /\ MintLink(u, "verify") \/ link' = link
    BY <1>4, <1>5 DEF LoginMints
  <1>7. link' \in [Link -> LinkRow] /\ LinksHaveUsers'
    BY <1>3, <1>6, LinkMinted, LinksRest
  <1>8. (VerificationRequired /\ user[u].row = "live" /\ h = TRUE /\ user[u].password # 0)
          => user[u].verified = TRUE \/ user[u].mustChange = TRUE
    <2>1. user[u].verified \in BOOLEAN /\ user[u].mustChange \in BOOLEAN
      BY DEF IInv, Typed, UserRow
    <2> QED
      BY <1>5, <2>1 DEF Blocked
  <1> QED
    BY <1>1, <1>2, <1>3, <1>6, <1>7, <1>8, MintsKeep

LEMMA GoogleMintsKeeps ==
  ASSUME IInv, NEW r \in Request, GoogleMints(r)
  PROVE  IInv'
  <1>1. PICK m \in Memory : m = req[r] /\ Sound(m)
    BY IsSound
  <1>2. m.pc = "mint" /\ m.op = "google" /\ m.password = 0
    BY <1>1 DEF GoogleMints, At, Sound
  <1>3. PICK u \in User : m.users = {u} /\ user[u].row # "none"
    BY <1>1, <1>2 DEF Sound
  <1>4. Subject(r) = u
    BY <1>1, <1>3, SubjectIs
  <1>5. /\ MintSession(r, u, TRUE) /\ Ends(r) /\ UNCHANGED <<company, user, oauth>>
        /\ link' = link
    BY <1>4 DEF GoogleMints
  <1>6. link' \in [Link -> LinkRow] /\ LinksHaveUsers'
    BY <1>5, LinksRest
  <1>7. TRUE \in BOOLEAN /\ ~(user[u].password # 0 /\ m.password = user[u].password)
    BY <1>2
  <1> QED
    BY <1>1, <1>2, <1>3, <1>5, <1>6, <1>7, MintsKeep

-----------------------------------------------------------------------------

\* r changes the accounts `changed` as it goes from m to n, and has yet to revoke them.
Touches(r, m, n, changed) ==
    /\ m = req[r] /\ req'[r] = n /\ Marks(r, changed) /\ UsersMove(changed)
    /\ \A u \in User : user[u].row = "none" => user'[u].row # "live"
    /\ \A u \in User : user'[u].password \in {user[u].password, 0, m.password}
    /\ \A u \in changed : n.pc = "revoke" /\ u \in n.users
    /\ m.pc # "revoke" /\ ~Pending(n) /\ n.password \in {0, m.password} /\ n.pc # "insert"
    /\ session' = session
    /\ served' = served \/ served' = served + 1

LEMMA ContinuingMarks ==
  ASSUME Typed, NEW r \in Request, NEW n \in Memory, NEW changed \in SUBSET User,
         Continues(r, n, changed)
  PROVE  req'[r] = n /\ Marks(r, changed) /\ served' = served
  BY ContinuesMarks DEF Marks

LEMMA TouchesKeep ==
  ASSUME IInv, NEW r \in Request, NEW m \in Memory, NEW n \in Memory,
         NEW changed \in SUBSET User, Touches(r, m, n, changed), Sound(n)', Typed', LinksHaveUsers'
  PROVE  IInv'
  <1>1. /\ m = req[r] /\ req'[r] = n /\ Marks(r, changed) /\ UsersMove(changed)
        /\ \A u \in User : user[u].row = "none" => user'[u].row # "live"
        /\ \A u \in changed : n.pc = "revoke" /\ u \in n.users
        /\ m.pc # "revoke" /\ ~Pending(n) /\ n.password \in {0, m.password} /\ n.pc # "insert"
        /\ session' = session
    BY DEF Touches
  <1>2. Typed
    BY DEF IInv
  <1>3. RequestsAreSound'
    <2>1. \A e : NoneAt(e)
      BY <1>1 DEF NoneAt
    <2>2. Others(r, changed)
      BY <1>1, <2>1 DEF Others, Marks
    <2> QED
      BY <1>1, <1>2, <2>2, RequestsStay DEF IInv
  <1>4. SessionsAreSound'
    <2>1. \A u \in User : Revoking(u) => Revoking(u)'
      BY <1>1, SameRevoking DEF Marks
    <2>2. \A u \in changed : Revoking(u)'
      BY <1>1 DEF Revoking
    <2>3. \A s \in session' : s \in session \/ SessionIsSound(s)'
      BY <1>1
    <2>4. \A u \in User : Revoking(u) \/ u \in changed => Revoking(u)'
      BY <2>1, <2>2
    <2> QED
      BY <1>1, <1>2, <2>3, <2>4, SessionsStay DEF IInv
  <1>5. PasswordsAreFresh'
    <2>1. \A q \in Request \ {r} : req'[q].password = req[q].password /\ req'[q].pc = req[q].pc
      BY <1>1 DEF Marks
    <2>2. \A u \in User : user'[u].password \in {user[u].password, 0, m.password}
      BY DEF Touches
    <2>3. /\ \A s \in session' : s.proof = m.password \/ \E t \in session : s.proof = t.proof
          /\ served' \in 0..MaxRequests
      BY <1>1 DEF Typed
    <2>4. /\ m = req[r] /\ n = req'[r] /\ n.password \in {0, m.password} /\ ~Pending(n)
          /\ served' = served \/ served' = served + 1
      BY <1>1 DEF Touches
    <2> QED
      BY <1>2, <2>1, <2>2, <2>3, <2>4, FreshStays DEF IInv
  <1>6. AdminIsAlone'
    <2>1. \A q \in Request : Creates(q)' => Creates(q)
      BY <1>1 DEF Creates, Marks
    <2>2. \A a \in User : (user'[a].row = "live" /\ user'[a].role = "admin")
                             => user[a].row = "live" /\ user[a].role = "admin"
      BY <1>1 DEF UsersMove
    <2> QED
      BY <2>1, <2>2, AdminStays DEF IInv
  <1> QED
    BY <1>3, <1>4, <1>5, <1>6 DEF IInv

\* A password is committed, and its account's other sessions are to be revoked.
LEMMA PasswordKeeps ==
  ASSUME IInv, NEW r \in Request, NEW m \in Memory, m = req[r], Sound(m),
         m.pc = "commit", m.op \in {"reset", "change"}, NEW u \in User, m.users = {u},
         NEW row \in UserRow, user' = [user EXCEPT ![u] = row], row.row = user[u].row,
         row.role = user[u].role, row.email = user[u].email, row.password = m.password,
         Continues(r, [m EXCEPT !.pc = "revoke"], {u}),
         UNCHANGED <<company, session, oauth>>, link' \in [Link -> LinkRow],
         \A t \in Link : link'[t].user = link[t].user
  PROVE  IInv'
  <1>1. Typed /\ user \in [User -> UserRow] /\ link \in [Link -> LinkRow]
    BY DEF IInv, Typed
  <1>2. PICK n : n = [m EXCEPT !.pc = "revoke"]
    OBVIOUS
  <1>3. n \in Memory
    BY <1>2 DEF Memory, Pc
  <1>4. n.op = m.op /\ n.pc = "revoke" /\ n.users = {u} /\ n.password = m.password
    BY <1>2 DEF Memory
  <1>5. req'[r] = n /\ Marks(r, {u}) /\ served' = served
    <2>1. Continues(r, n, {u}) /\ {u} \in SUBSET User
      BY <1>2
    <2> QED
      BY <1>1, <1>3, <2>1, ContinuingMarks
  <1>6. /\ user' \in [User -> UserRow] /\ user'[u] = row
        /\ \A v \in User \ {u} : user'[v] = user[v]
    BY <1>1
  <1>7. \A s \in session : s.proof # row.password
    BY DEF Sound, Pending, IInv, PasswordsAreFresh, Fresh
  <1>8. UsersMove({u})
    BY <1>6, <1>7 DEF UsersMove
  <1>9. \A v \in User : user[v].row # "none" => user'[v].row # "none"
    BY <1>6
  <1>10. LinksHaveUsers'
    <2>1. ASSUME NEW t \in Link, link'[t].user # 0 PROVE user'[link'[t].user].row # "none"
      <3>1. PICK v \in User : v = link[t].user
        BY <1>1, <2>1, Constants DEF LinkRow, User
      <3>2. user[v].row # "none"
        BY <2>1, <3>1 DEF IInv, LinksHaveUsers
      <3> QED
        BY <1>9, <3>1, <3>2
    <2> QED
      BY <2>1 DEF LinksHaveUsers
  <1>11. Typed'
    BY <1>1, <1>5, <1>6 DEF Typed, Marks
  <1>12. Sound(n)'
    <2>1. user'[u].row # "none"
      BY <1>9 DEF Sound
    <2> QED
      BY <1>4, <2>1 DEF Sound
  <1>13. Touches(r, m, n, {u})
    BY <1>4, <1>5, <1>6, <1>8 DEF Touches, Pending
  <1> QED
    BY <1>3, <1>10, <1>11, <1>12, <1>13, TouchesKeep

LEMMA ResetCommitsKeeps ==
  ASSUME IInv, NEW r \in Request, ResetCommits(r)
  PROVE  IInv'
  <1>1. PICK m \in Memory : m = req[r] /\ Sound(m)
    BY IsSound
  <1>2. m.pc = "commit" /\ m.op = "reset"
    BY <1>1 DEF ResetCommits, At
  <1>3. PICK u \in User : m.users = {u}
    BY <1>1, <1>2 DEF Sound
  <1>4. Subject(r) = u
    BY <1>1, <1>3, SubjectIs
  <1>5. PICK row : row = [user[u] EXCEPT !.password = m.password, !.mustChange = FALSE,
                                         !.verified = TRUE]
    OBVIOUS
  <1>6. user \in [User -> UserRow] /\ link \in [Link -> LinkRow] /\ user[u] \in UserRow
    BY DEF IInv, Typed
  <1>7. /\ row \in UserRow /\ row.row = user[u].row /\ row.role = user[u].role
        /\ row.email = user[u].email /\ row.password = m.password
    BY <1>5, <1>6, Remembered DEF UserRow
  <1>8. /\ link' = [link EXCEPT ![m.link].spent = TRUE]
        /\ user' = [user EXCEPT ![u] = row]
        /\ Continues(r, [m EXCEPT !.pc = "revoke"], {u})
        /\ UNCHANGED <<company, session, oauth>>
    BY <1>1, <1>4, <1>5 DEF ResetCommits
  <1>9. link' \in [Link -> LinkRow] /\ \A t \in Link : link'[t].user = link[t].user
    BY <1>6, <1>8 DEF LinkRow
  <1> QED
    BY <1>1, <1>2, <1>3, <1>7, <1>8, <1>9, PasswordKeeps

LEMMA ChangeCommitsKeeps ==
  ASSUME IInv, NEW r \in Request, ChangeCommits(r)
  PROVE  IInv'
  <1>1. PICK m \in Memory : m = req[r] /\ Sound(m)
    BY IsSound
  <1>2. m.pc = "commit" /\ m.op = "change"
    BY <1>1 DEF ChangeCommits, At
  <1>3. PICK u \in User : m.users = {u}
    BY <1>1, <1>2 DEF Sound
  <1>4. Subject(r) = u
    BY <1>1, <1>3, SubjectIs
  <1>5. PICK row : row = [user[u] EXCEPT !.password = m.password, !.mustChange = FALSE]
    OBVIOUS
  <1>6. user \in [User -> UserRow] /\ link \in [Link -> LinkRow] /\ user[u] \in UserRow
    BY DEF IInv, Typed
  <1>7. /\ row \in UserRow /\ row.row = user[u].row /\ row.role = user[u].role
        /\ row.email = user[u].email /\ row.password = m.password
    BY <1>5, <1>6, Remembered DEF UserRow
  <1>8. /\ link' = link
        /\ user' = [user EXCEPT ![u] = row]
        /\ Continues(r, [m EXCEPT !.pc = "revoke"], {u})
        /\ UNCHANGED <<company, session, oauth>>
    BY <1>1, <1>4, <1>5 DEF ChangeCommits, AfterChange
  <1>9. link' \in [Link -> LinkRow] /\ \A t \in Link : link'[t].user = link[t].user
    BY <1>6, <1>8
  <1> QED
    BY <1>1, <1>2, <1>3, <1>7, <1>8, <1>9, PasswordKeeps

\* Accounts are deleted.
LEMMA DeletedRows ==
  ASSUME IInv, NEW gone \in SUBSET User, \A u \in gone : user[u].row # "none", user' = Deleted(gone)
  PROVE  /\ user' \in [User -> UserRow] /\ UsersMove(gone)
         /\ \A u \in User : user[u].row = "none" => user'[u].row # "live"
         /\ \A u \in User : user[u].row # "none" => user'[u].row # "none"
         /\ \A u \in User : user'[u].password = user[u].password
  <1>1. user \in [User -> UserRow]
    BY DEF IInv, Typed
  <1>2. ASSUME NEW u \in User
        PROVE  /\ user'[u] \in UserRow /\ user'[u].role = user[u].role
               /\ user'[u].password = user[u].password /\ user'[u].mustChange = user[u].mustChange
               /\ user'[u].verified = user[u].verified
               /\ user'[u].row = IF u \in gone THEN "deleted" ELSE user[u].row
               /\ user'[u].email \in {user[u].email, NoEmail}
    <2>1. PICK old \in UserRow : old = user[u]
      BY <1>1
    <2>2. CASE u \in gone
      <3>1. user'[u] = [old EXCEPT !.row = "deleted", !.email = NoEmail]
        BY <2>1, <2>2 DEF Deleted
      <3> QED
        BY <2>1, <2>2, <3>1 DEF UserRow
    <2>3. CASE u \notin gone
      <3>1. user'[u] = old
        BY <2>1, <2>3 DEF Deleted
      <3> QED
        BY <2>1, <2>3, <3>1
    <2> QED
      BY <2>2, <2>3
  <1>3. user' = [u \in User |-> user'[u]]
    BY DEF Deleted
  <1>4. user' \in [User -> UserRow]
    BY <1>2, <1>3
  <1> QED
    BY <1>2, <1>4 DEF UsersMove

LEMMA LinksKeepUsers ==
  ASSUME IInv, link' = link, \A u \in User : user[u].row # "none" => user'[u].row # "none"
  PROVE  LinksHaveUsers'
  <1>1. ASSUME NEW t \in Link, link[t].user # 0 PROVE user'[link[t].user].row # "none"
    <2>1. PICK v \in User : v = link[t].user
      BY <1>1, Constants DEF IInv, Typed, LinkRow, User
    <2>2. user[v].row # "none"
      BY <1>1, <2>1 DEF IInv, LinksHaveUsers
    <2> QED
      BY <2>1, <2>2
  <1> QED
    BY <1>1 DEF LinksHaveUsers

LEMMA RemoveCommitsKeeps ==
  ASSUME IInv, NEW r \in Request, RemoveCommits(r)
  PROVE  IInv'
  <1>1. PICK m \in Memory : m = req[r] /\ Sound(m)
    BY IsSound
  <1>2. /\ m.pc = "commit" /\ user' = Deleted(m.users)
        /\ Continues(r, [m EXCEPT !.pc = "revoke"], m.users)
        /\ UNCHANGED <<company, link, session, oauth>>
    BY <1>1 DEF RemoveCommits, At
  <1>3. m.users \in SUBSET User /\ \A u \in m.users : user[u].row # "none"
    BY <1>1, Remembered DEF Sound
  <1>4. /\ user' \in [User -> UserRow] /\ UsersMove(m.users)
        /\ \A u \in User : user[u].row = "none" => user'[u].row # "live"
        /\ \A u \in User : user[u].row # "none" => user'[u].row # "none"
        /\ \A u \in User : user'[u].password = user[u].password
    BY <1>2, <1>3, DeletedRows
  <1>5. PICK n : n = [m EXCEPT !.pc = "revoke"]
    OBVIOUS
  <1>6. n \in Memory
    BY <1>5 DEF Memory, Pc
  <1>7. n.op = m.op /\ n.pc = "revoke" /\ n.users = m.users /\ n.password = m.password
    BY <1>5 DEF Memory
  <1>8. Typed
    BY DEF IInv
  <1>9. req'[r] = n /\ Marks(r, m.users) /\ served' = served
    <2>1. Continues(r, n, m.users)
      BY <1>2, <1>5
    <2> QED
      BY <1>3, <1>6, <1>8, <2>1, ContinuingMarks
  <1>10. Typed' /\ LinksHaveUsers'
    BY <1>2, <1>4, <1>8, <1>9, LinksKeepUsers DEF Typed, Marks
  <1>11. Sound(n)'
    <2>1. \A u \in m.users : user'[u].row # "none"
      BY <1>3, <1>4
    <2> QED
      BY <1>1, <1>7, <2>1 DEF Sound
  <1>12. Touches(r, m, n, m.users)
    BY <1>1, <1>2, <1>4, <1>7, <1>9 DEF Touches, Pending
  <1> QED
    BY <1>3, <1>6, <1>10, <1>11, <1>12, TouchesKeep

LEMMA DeleteCompanyKeeps ==
  ASSUME IInv, NEW r \in Request, DeleteCompany(r)
  PROVE  IInv'
  <1>1. /\ req[r] = Idle /\ served < MaxRequests /\ served' = served + 1
        /\ company' = "deleted" /\ user' = Deleted(Members)
        /\ UNCHANGED <<link, session, oauth>>
    BY DEF DeleteCompany
  <1>2. Typed /\ req \in [Request -> Memory] /\ served \in 0..MaxRequests
    BY DEF IInv, Typed
  <1>3. PICK gone \in SUBSET User : gone = Members /\ \A u \in gone : user[u].row # "none"
    <2>1. Members \in SUBSET User
      BY DEF Members, Live
    <2>2. \A u \in Members : user[u].row # "none"
      BY DEF Members, Live
    <2> QED
      BY <2>1, <2>2
  <1>4. /\ user' \in [User -> UserRow] /\ UsersMove(gone)
        /\ \A u \in User : user[u].row = "none" => user'[u].row # "live"
        /\ \A u \in User : user[u].row # "none" => user'[u].row # "none"
        /\ \A u \in User : user'[u].password = user[u].password
    BY <1>1, <1>3, DeletedRows
  <1>5. PICK n : n = IF gone = {} THEN Idle
                     ELSE [Idle EXCEPT !.op = "delete company", !.pc = "revoke", !.users = gone]
    OBVIOUS
  <1>6. n \in Memory
    BY <1>5, IdleFits DEF Memory, Op, Pc
  <1>7. /\ n.password = 0 /\ n.op # "google" /\ n.users = gone
        /\ n.pc = IF gone = {} THEN "idle" ELSE "revoke"
    BY <1>5, IdleFits DEF Memory
  <1>8. req' = [q \in Request |->
                  IF q = r THEN n
                  ELSE IF req[q].users \cap gone # {} THEN [req[q] EXCEPT !.stale = TRUE]
                  ELSE req[q]]
    BY <1>3, <1>5 DEF DeleteCompany
  <1>9. ASSUME NEW q \in Request, q # r
        PROVE  /\ req'[q] \in Memory
               /\ Marked(req[q], req'[q]) /\ req'[q].pc = req[q].pc /\ req'[q].op = req[q].op
               /\ req'[q].password = req[q].password /\ req'[q].users = req[q].users
               /\ req[q].users \cap gone # {} => req'[q].stale = TRUE
    <2>1. PICK k \in Memory : k = req[q]
      BY <1>2
    <2>2. PICK i : i = IF k.users \cap gone # {} THEN [k EXCEPT !.stale = TRUE] ELSE k
      OBVIOUS
    <2>3. req'[q] = i
      BY <1>8, <1>9, <2>1, <2>2
    <2>4. Marked(k, i)
      BY <2>2 DEF Marked
    <2>5. k.users \cap gone # {} => i.stale = TRUE
      BY <2>2 DEF Memory
    <2> QED
      BY <2>1, <2>3, <2>4, <2>5, MarkedFields
  <1>10. req'[r] = n /\ req' \in [Request -> Memory]
    BY <1>6, <1>8, <1>9
  <1>11. Marks(r, gone)
    BY <1>9, <1>10 DEF Marks
  <1>12. served' \in 0..MaxRequests
    BY <1>1, <1>2, Counts
  <1>13. Typed' /\ LinksHaveUsers'
    BY <1>1, <1>2, <1>4, <1>10, <1>12, LinksKeepUsers DEF Typed
  <1>14. Sound(n)'
    <2>1. \A u \in gone : user'[u].row # "none"
      BY <1>3, <1>4
    <2> QED
      BY <1>7, <2>1 DEF Sound
  <1>15. PICK m \in Memory : m = req[r] /\ m.pc = "idle" /\ m.password = 0
    BY <1>1, IdleFits
  <1>16. Touches(r, m, n, gone)
    BY <1>1, <1>4, <1>7, <1>10, <1>11, <1>15 DEF Touches, Pending
  <1> QED
    BY <1>6, <1>13, <1>14, <1>15, <1>16, TouchesKeep

-----------------------------------------------------------------------------

\* The sessions of one account are revoked, or marked as missed.
Follow(s, t, u) ==
    /\ s.user = t.user /\ s.proof = t.proof /\ s.held = t.held
    /\ (t.missed = TRUE \/ s.user = u) => s.missed = TRUE
    /\ s.missed = FALSE => t.missed = FALSE

LEMMA FollowerStays ==
  ASSUME Typed, NEW u \in User, NEW s, NEW t \in session, Follow(s, t, u), SessionIsSound(t),
         user' = user, \A v \in User \ {u} : Revoking(v) => Revoking(v)'
  PROVE  SessionIsSound(s)'
  <1>1. PICK v \in User : v = t.user
    BY DEF Typed, Session
  <1>2. s.user = v /\ s.proof = t.proof /\ s.held = t.held
    BY <1>1 DEF Follow
  <1>3. /\ user[v].row # "none"
        /\ (s.proof = 0 /\ s.missed = FALSE) => user[v].role = "candidate"
    BY <1>1, <1>2 DEF SessionIsSound, Follow
  <1>4. Confirmed(s)'
    BY <1>1, <1>2 DEF SessionIsSound, Confirmed
  <1>5. Follows(s)'
    <2>1. CASE t.missed = TRUE \/ v = u
      BY <1>2, <2>1 DEF Follow, Follows
    <2>2. CASE ~(t.missed = TRUE \/ v = u)
      BY <1>1, <1>2, <2>2 DEF SessionIsSound, Follows
    <2> QED
      BY <2>1, <2>2
  <1> QED
    BY <1>1, <1>2, <1>3, <1>4, <1>5 DEF SessionIsSound

LEMMA RevocationSessions ==
  ASSUME Typed, NEW u \in User,
         \/ session' = {s \in session : s.user # u}
         \/ session' = {[s EXCEPT !.missed = @ \/ s.user = u] : s \in session}
  PROVE  session' \in SUBSET Session /\ \A s \in session' : \E t \in session : Follow(s, t, u)
  <1>1. ASSUME NEW s \in session' PROVE s \in Session /\ \E t \in session : Follow(s, t, u)
    <2>1. CASE session' = {i \in session : i.user # u}
      BY <2>1 DEF Typed, Session, Follow
    <2>2. CASE session' = {[i EXCEPT !.missed = @ \/ i.user = u] : i \in session}
      <3>1. PICK t \in session : s = [t EXCEPT !.missed = @ \/ t.user = u]
        BY <2>2
      <3>2. /\ t \in Session /\ t.missed \in BOOLEAN
        BY DEF Typed, Session
      <3>3. CASE t.missed = TRUE \/ t.user = u
        <4>1. s = [t EXCEPT !.missed = TRUE]
          BY <3>1, <3>2, <3>3
        <4> QED
          BY <3>2, <4>1 DEF Session, Follow
      <3>4. CASE ~(t.missed = TRUE \/ t.user = u)
        <4>1. s = [t EXCEPT !.missed = FALSE] /\ t.missed = FALSE
          BY <3>1, <3>2, <3>4
        <4> QED
          BY <3>2, <3>4, <4>1 DEF Session, Follow
      <3> QED
        BY <3>3, <3>4
    <2> QED
      BY <2>1, <2>2
  <1> QED
    BY <1>1

LEMMA RevokesKeeps ==
  ASSUME IInv, NEW r \in Request, Revokes(r)
  PROVE  IInv'
  <1>1. PICK m \in Memory : m = req[r] /\ Sound(m)
    BY IsSound
  <1>2. Typed /\ req \in [Request -> Memory] /\ m.users \in SUBSET User
    BY Remembered DEF IInv, Typed
  <1>3. m.pc = "revoke" /\ UNCHANGED <<company, user, link, oauth>>
    BY <1>1 DEF Revokes
  <1>4. PICK u \in User :
           /\ u \in m.users
           /\ \/ session' = {s \in session : s.user # u}
              \/ session' = {[s EXCEPT !.missed = @ \/ s.user = u] : s \in session}
           /\ IF m.users = {u} THEN Ends(r)
              ELSE Continues(r, [m EXCEPT !.users = @ \ {u}], {})
    BY <1>1, <1>2 DEF Revokes
  <1>5. PICK n \in Memory :
           /\ Continues(r, n, {}) /\ n.pc \in {"revoke", "idle"} /\ n.password \in {0, m.password}
           /\ n.users \subseteq m.users /\ (n.pc = "revoke" => n.op = m.op)
           /\ n.op = "google" => m.op = "google"
           /\ \A v \in m.users \ {u} : v \in n.users /\ n.pc = "revoke"
    <2>1. CASE m.users = {u}
      <3>1. Continues(r, Idle, {})
        BY <1>4, <2>1 DEF Ends
      <3> QED
        BY <2>1, <3>1, IdleFits
    <2>2. CASE m.users # {u}
      <3>1. PICK n : n = [m EXCEPT !.users = m.users \ {u}]
        OBVIOUS
      <3>2. n \in Memory
        BY <1>2, <3>1 DEF Memory
      <3>3. n.pc = m.pc /\ n.op = m.op /\ n.password = m.password /\ n.users = m.users \ {u}
        BY <3>1 DEF Memory
      <3>4. Continues(r, n, {})
        <4>1. Continues(r, [m EXCEPT !.users = m.users \ {u}], {})
          BY <1>4, <2>2
        <4> QED
          BY <3>1, <4>1
      <3> QED
        BY <1>3, <3>2, <3>3, <3>4
    <2> QED
      BY <2>1, <2>2
  <1>6. /\ req' \in [Request -> Memory] /\ req'[r] = n /\ served' = served
        /\ \A q \in Request \ {r} : req'[q] = req[q]
    <2>1. Continues(r, n, {}) /\ {} \in SUBSET User
      BY <1>5
    <2> QED
      BY <1>2, <2>1, NothingChanged, ContinuesMarks
  <1>7. Sound(n)
    BY <1>1, <1>5 DEF Sound
  <1>8. UsersMove({}) /\ \A e : NoneAt(e)
    BY <1>2, <1>3, UsersRest
  <1>9. session' \in SUBSET Session /\ \A s \in session' : \E t \in session : Follow(s, t, u)
    BY <1>2, <1>4, RevocationSessions
  <1>10. Typed' /\ LinksHaveUsers'
    BY <1>3, <1>6, <1>9 DEF IInv, Typed, LinksHaveUsers
  <1>11. RequestsAreSound'
    <2>1. Others(r, {}) /\ Sound(n)'
      BY <1>3, <1>6, <1>7, <1>8 DEF Others, Marked, Sound
    <2> QED
      BY <1>2, <1>6, <1>8, <2>1, RequestsStay DEF IInv
  <1>12. SessionsAreSound'
    <2>1. ASSUME NEW v \in User \ {u}, Revoking(v) PROVE Revoking(v)'
      <3>1. PICK q \in Request : req[q].pc = "revoke" /\ v \in req[q].users
        BY <2>1 DEF Revoking
      <3>2. req'[q].pc = "revoke" /\ v \in req'[q].users
        BY <1>1, <1>5, <1>6, <2>1, <3>1
      <3> QED
        BY <3>2 DEF Revoking
    <2>2. ASSUME NEW s \in session' PROVE SessionIsSound(s)'
      <3>1. PICK t \in session : Follow(s, t, u)
        BY <1>9
      <3>2. SessionIsSound(t)
        BY DEF IInv, SessionsAreSound
      <3> QED
        BY <1>2, <1>3, <2>1, <3>1, <3>2, FollowerStays
    <2> QED
      BY <2>2 DEF SessionsAreSound
  <1>13. PasswordsAreFresh'
    <2>1. \A q \in Request \ {r} : req'[q].password = req[q].password /\ req'[q].pc = req[q].pc
      BY <1>6
    <2>2. \A v \in User : user'[v].password \in {user[v].password, 0, m.password}
      BY <1>3
    <2>3. \A s \in session' : s.proof = m.password \/ \E t \in session : s.proof = t.proof
      BY <1>9 DEF Follow
    <2>4. /\ m = req[r] /\ n = req'[r] /\ n.password \in {0, m.password} /\ ~Pending(n)
          /\ served' = served /\ served' \in 0..MaxRequests
      BY <1>1, <1>5, <1>6, <1>10 DEF Pending, Typed
    <2> QED
      BY <1>2, <2>1, <2>2, <2>3, <2>4, FreshStays DEF IInv
  <1>14. AdminIsAlone'
    <2>1. \A q \in Request : Creates(q)' => Creates(q)
      BY <1>5, <1>6 DEF Creates
    <2> QED
      BY <1>3, <2>1, AdminStays DEF IInv
  <1> QED
    BY <1>10, <1>11, <1>12, <1>13, <1>14 DEF IInv

\* No request moves, and no account changes but to be confirmed.
Rests ==
    /\ req' = req /\ session' \subseteq session
    /\ UsersMove({}) /\ \A u \in User : user[u].row = "none" => user'[u].row = "none"
    /\ \A u \in User : user'[u].password = user[u].password
    /\ served' = served \/ served' = served + 1

LEMMA RestsKeeps ==
  ASSUME IInv, Rests, Typed', LinksHaveUsers'
  PROVE  IInv'
  <1>1. Typed /\ {} \in SUBSET User
    BY DEF IInv
  <1>2. /\ req' = req /\ session' \subseteq session /\ UsersMove({})
        /\ \A u \in User : user'[u].password = user[u].password
    BY DEF Rests
  <1>3. RequestsAreSound'
    <2>1. \A e : NoneAt(e)
      BY DEF Rests, NoneAt
    <2>2. ASSUME NEW q \in Request PROVE \E k \in Memory : req'[q] = k /\ Sound(k)'
      <3>1. PICK m \in Memory : m = req[q] /\ Sound(m)
        BY IsSound
      <3>2. Sound(m)'
        BY <1>1, <1>2, <2>1, <3>1, StaysSound DEF Typed, Marked
      <3> QED
        BY <1>2, <3>1, <3>2
    <2> QED
      BY <2>2 DEF RequestsAreSound
  <1>4. SessionsAreSound'
    <2>1. \A u \in User : Revoking(u) => Revoking(u)'
      BY <1>2 DEF Revoking
    <2> QED
      BY <1>1, <1>2, <2>1, SessionsStay DEF IInv
  <1>5. PasswordsAreFresh'
    <2>1. \A p \in Minted : p \in Minted'
      <3>1. PICK k \in Nat : k = served /\ (served' = k \/ served' = k + 1)
        BY <1>1, Constants DEF Typed, Rests
      <3> QED
        BY <3>1 DEF Minted, First
    <2>2. \A p : Fresh(p) => Fresh(p)'
      BY <1>2 DEF Fresh, First
    <2> QED
      BY <1>2, <2>1, <2>2 DEF IInv, PasswordsAreFresh
  <1>6. AdminIsAlone'
    <2>1. \A q \in Request : Creates(q)' => Creates(q)
      BY <1>2 DEF Creates
    <2>2. \A a \in User : (user'[a].row = "live" /\ user'[a].role = "admin")
                             => user[a].row = "live" /\ user[a].role = "admin"
      BY DEF Rests, UsersMove
    <2> QED
      BY <2>1, <2>2, AdminStays DEF IInv
  <1> QED
    BY <1>3, <1>4, <1>5, <1>6 DEF IInv

LEMMA VerifyEmailKeeps ==
  ASSUME IInv, NEW t \in Link, VerifyEmail(t)
  PROVE  IInv'
  <1>1. Typed /\ user \in [User -> UserRow] /\ link \in [Link -> LinkRow]
    BY DEF IInv, Typed
  <1>2. PICK u \in User : u = link[t].user /\ user[u].row # "none"
    <2>1. link[t].user # 0 /\ link[t].user \in 0..MaxUsers
      BY <1>1 DEF VerifyEmail, LinkRow
    <2> QED
      BY <2>1, Constants DEF User, IInv, LinksHaveUsers
  <1>3. PICK row : row = [user[u] EXCEPT !.verified = TRUE]
    OBVIOUS
  <1>4. /\ row \in UserRow /\ row.row = user[u].row /\ row.role = user[u].role
        /\ row.email = user[u].email /\ row.password = user[u].password
        /\ row.mustChange = user[u].mustChange /\ row.verified = TRUE
    <2>1. user[u] \in UserRow
      BY <1>1
    <2> QED
      BY <1>3, <2>1 DEF UserRow
  <1>5. /\ link' = [link EXCEPT ![t].spent = TRUE] /\ user' = [user EXCEPT ![u] = row]
        /\ UNCHANGED <<company, session, oauth, req, served>>
    BY <1>2, <1>3 DEF VerifyEmail
  <1>6. link' \in [Link -> LinkRow] /\ \A i \in Link : link'[i].user = link[i].user
    BY <1>1, <1>5 DEF LinkRow
  <1>7. /\ user' \in [User -> UserRow] /\ user'[u] = row
        /\ \A v \in User \ {u} : user'[v] = user[v]
    BY <1>1, <1>4, <1>5
  <1>8. Typed'
    BY <1>1, <1>5, <1>6, <1>7 DEF Typed
  <1>9. \A v \in User : user'[v].row = user[v].row /\ user'[v].password = user[v].password
    BY <1>4, <1>7
  <1>10. LinksHaveUsers'
    <2>1. ASSUME NEW i \in Link, link'[i].user # 0 PROVE user'[link'[i].user].row # "none"
      <3>1. PICK v \in User : v = link[i].user
        BY <1>1, <1>6, <2>1, Constants DEF LinkRow, User
      <3> QED
        BY <1>6, <1>9, <2>1, <3>1 DEF IInv, LinksHaveUsers
    <2> QED
      BY <2>1 DEF LinksHaveUsers
  <1>11. UsersMove({})
    BY <1>4, <1>7 DEF UsersMove
  <1>12. Rests
    BY <1>5, <1>9, <1>11 DEF Rests
  <1> QED
    BY <1>8, <1>10, <1>12, RestsKeeps

\* The other steps of nobody's request touch neither the accounts nor a request.
LEMMA AccountsRest ==
  ASSUME IInv, UNCHANGED <<user, req>>, company' = company, oauth' \in BOOLEAN,
         session' \subseteq session, served' = served \/ (served < MaxRequests /\ served' = served + 1),
         link' \in [Link -> LinkRow], LinksHaveUsers'
  PROVE  IInv'
  <1>1. Typed
    BY DEF IInv
  <1>2. served' \in 0..MaxRequests
    <2>1. PICK k \in 0..MaxRequests : k = served
      BY <1>1 DEF Typed
    <2> QED
      BY <2>1, Counts
  <1>3. Typed'
    BY <1>1, <1>2 DEF Typed
  <1>4. Rests
    BY <1>1, UsersRest DEF Rests
  <1> QED
    BY <1>3, <1>4, RestsKeeps

LEMMA LinkMailed ==
  ASSUME IInv, NEW u \in User, user[u].row = "live", NEW kind \in {"verify", "reset"},
         MintLink(u, kind), served < MaxRequests, served' = served + 1,
         UNCHANGED <<company, user, session, oauth, req>>
  PROVE  IInv'
  <1>1. link' \in [Link -> LinkRow] /\ LinksHaveUsers'
    BY LinkMinted
  <1>2. oauth' \in BOOLEAN
    BY DEF IInv, Typed
  <1> QED
    BY <1>1, <1>2, AccountsRest

LEMMA OtherStepsKeep ==
  ASSUME IInv,
         \/ \E s \in session : Logout(s)
         \/ \E u \in User : ResendVerification(u)
         \/ \E t \in Link : VerifyEmail(t)
         \/ \E e \in Email : ForgotPassword(e)
         \/ GoogleInitiates
         \/ UNCHANGED vars
  PROVE  IInv'
  <1>1. ASSUME NEW s \in session, Logout(s) PROVE IInv'
    <2>1. UNCHANGED <<company, user, link, oauth, req, served>> /\ session' \subseteq session
      BY <1>1 DEF Logout
    <2>2. link' \in [Link -> LinkRow] /\ LinksHaveUsers' /\ oauth' \in BOOLEAN
      BY <2>1, LinksRest DEF IInv, Typed
    <2> QED
      BY <2>1, <2>2, AccountsRest
  <1>2. ASSUME NEW u \in User, ResendVerification(u) PROVE IInv'
    <2>1. /\ served < MaxRequests /\ served' = served + 1 /\ user[u].row = "live"
          /\ MintLink(u, "verify") /\ UNCHANGED <<company, user, session, oauth, req>>
      BY <1>2 DEF ResendVerification, Live
    <2> QED
      BY <2>1, LinkMailed
  <1>3. ASSUME NEW e \in Email, ForgotPassword(e) PROVE IInv'
    <2>1. PICK u \in User : user[u].row = "live" /\ MintLink(u, "reset")
      BY <1>3 DEF ForgotPassword, Holder, Live
    <2>2. /\ served < MaxRequests /\ served' = served + 1
          /\ UNCHANGED <<company, user, session, oauth, req>>
      BY <1>3 DEF ForgotPassword
    <2> QED
      BY <2>1, <2>2, LinkMailed
  <1>4. ASSUME GoogleInitiates \/ UNCHANGED vars PROVE IInv'
    <2>1. UNCHANGED <<company, user, link, session, req, served>> /\ oauth' \in BOOLEAN
      BY <1>4 DEF GoogleInitiates, vars, IInv, Typed
    <2>2. link' \in [Link -> LinkRow] /\ LinksHaveUsers'
      BY <2>1, LinksRest
    <2> QED
      BY <2>1, <2>2, AccountsRest
  <1> QED
    BY <1>1, <1>2, <1>3, <1>4, VerifyEmailKeeps

-----------------------------------------------------------------------------

LEMMA AdminFits ==
  ASSUME NEW e \in Email
  PROVE  /\ Admin(e) \in UserRow /\ Admin(e).row = "live" /\ Admin(e).role = "admin"
         /\ Admin(e).password = First /\ Admin(e).verified = TRUE
  <1>1. First \in Password
    BY Constants DEF First, Password
  <1> QED
    BY <1>1 DEF Admin, UserRow, Role

LEMMA InitIInv ==
  ASSUME Init
  PROVE  IInv
  <1>1. /\ company = "live" /\ oauth = FALSE /\ req = [r \in Request |-> Idle] /\ served = 0
        /\ link = [t \in Link |-> [user |-> 0, kind |-> "verify", spent |-> FALSE]]
    BY DEF Init
  <1>2. 1 \in User /\ First \in Password /\ First # 0
    BY Constants DEF User, First, Password
  <1>3. /\ user \in [User -> UserRow] /\ session \in SUBSET Session
        /\ \A u \in User : user[u].password \in {0, First}
        /\ \A u \in User \ {1} : user[u].row = "none"
        /\ \A s \in session : /\ s.user = 1 /\ s.proof = First /\ user[1].row = "live"
                              /\ user[1].password = First /\ user[1].verified = TRUE
    <2>1. CASE user = [u \in User |-> NoUser] /\ session = {}
      BY <2>1, NoUserFits DEF NoUser
    <2>2. CASE /\ \E e \in Email : user = [u \in User |-> IF u = 1 THEN Admin(e) ELSE NoUser]
               /\ session = {[user |-> 1, proof |-> First, held |-> TRUE, missed |-> FALSE]}
      <3>1. PICK e \in Email : user = [u \in User |-> IF u = 1 THEN Admin(e) ELSE NoUser]
        BY <2>2
      <3>2. NoUser.row = "none"
        BY DEF NoUser
      <3>3. session \in SUBSET Session /\ \A s \in session : s.user = 1 /\ s.proof = First
        BY <1>2, <2>2 DEF Session
      <3> QED
        BY <1>2, <3>1, <3>2, <3>3, NoUserFits, AdminFits
    <2> QED
      BY <2>1, <2>2 DEF Init
  <1>4. req \in [Request -> Memory] /\ \A r \in Request : req[r] = Idle
    BY <1>1, IdleFits
  <1>5. Typed
    <2>1. link \in [Link -> LinkRow]
      BY <1>1, Constants DEF LinkRow
    <2>2. served \in 0..MaxRequests
      BY <1>1, Constants
    <2> QED
      BY <1>1, <1>3, <1>4, <2>1, <2>2 DEF Typed
  <1>6. LinksHaveUsers
    BY <1>1 DEF LinksHaveUsers
  <1>7. RequestsAreSound
    BY <1>4, IdleFits DEF RequestsAreSound
  <1>8. PasswordsAreFresh
    <2>1. 0 \in Minted /\ First \in Minted
      BY <1>1 DEF Minted
    <2> QED
      BY <1>3, <1>4, <2>1, IdleFits DEF PasswordsAreFresh, Pending
  <1>9. AdminIsAlone
    BY <1>3, <1>4, IdleFits DEF AdminIsAlone, Creates
  <1>10. SessionsAreSound
    BY <1>2, <1>3 DEF SessionsAreSound, SessionIsSound, Follows, Confirmed
  <1> QED
    BY <1>5, <1>6, <1>7, <1>8, <1>9, <1>10 DEF IInv

LEMMA StepIInv ==
  ASSUME IInv, [Next]_vars
  PROVE  IInv'
  <1>1. ASSUME NEW r \in Request, SelfService(r) PROVE IInv'
    BY <1>1, RegisterReadsKeeps, LoginReadsKeeps, RegisterInsertsKeeps, RegisterMintsKeeps,
       LoginMintsKeeps DEF SelfService
  <1>2. ASSUME NEW r \in Request, Passwords(r) PROVE IInv'
    BY <1>2, ResetReadsKeeps, ChangeReadsKeeps, ResetCommitsKeeps, ChangeCommitsKeeps,
       RevokesKeeps DEF Passwords
  <1>3. ASSUME NEW r \in Request, Administration(r) PROVE IInv'
    BY <1>3, CreateAdminReadsKeeps, CreateHrReadsKeeps, RemoveReadsKeeps, MemberInsertsKeeps,
       CredentialsMailedKeeps, RemoveCommitsKeeps, DeleteCompanyKeeps DEF Administration
  <1>4. ASSUME NEW r \in Request, Google(r) PROVE IInv'
    BY <1>4, GoogleReadsKeeps, GoogleDeletesKeeps, GoogleChecksKeeps, GoogleUpsertsKeeps,
       GoogleMintsKeeps DEF Google
  <1> QED
    BY <1>1, <1>2, <1>3, <1>4, OtherStepsKeep DEF Next

\* The invariant of the accounts, for any number of requests, addresses, accounts and links.
THEOREM SpecIInv == Spec => []IInv
  <1>1. Init => IInv
    BY InitIInv
  <1>2. IInv /\ [Next]_vars => IInv'
    BY StepIInv
  <1> QED
    BY <1>1, <1>2, PTL DEF Spec

\* Every variable keeps its type.
THEOREM AccountsTypeOKHolds == Spec => []TypeOK
  <1>1. IInv => TypeOK
    <2> SUFFICES ASSUME IInv PROVE TypeOK
      OBVIOUS
    <2>1. ASSUME NEW r \in Request
          PROVE  DOMAIN req[r] = DOMAIN Idle /\ req[r].users \subseteq User
      <3>1. PICK m \in Memory : m = req[r]
        BY DEF IInv, Typed
      <3> QED
        BY <3>1 DEF Memory, Idle
    <2> QED
      BY <2>1 DEF IInv, Typed, TypeOK
  <1> QED
    BY <1>1, SpecIInv, PTL

\* A password change, a reset, the removal of an account or of its company, interleaved in any
\* way with sign-ins and with one another, leaves no session of the old account or password
\* that its revocation could have found.
THEOREM SessionsFollowAccountHolds == Spec => []SessionsFollowAccount
  <1>1. IInv => SessionsFollowAccount
    <2> SUFFICES ASSUME IInv, NEW s \in session
                 PROVE  \/ s.missed \/ Revoking(s.user)
                        \/ s.user \in Live /\ s.proof \in {0, user[s.user].password}
      BY DEF SessionsFollowAccount
    <2>1. Follows(s) /\ s.user \in User
      BY DEF IInv, Typed, SessionsAreSound, SessionIsSound, Session
    <2> QED
      BY <2>1 DEF Follows, Live
  <1> QED
    BY <1>1, SpecIInv, PTL

\* No way to set a password or to sign in leads past the confirmation of the address.
THEOREM UnverifiedHoldNothingHolds == Spec => []UnverifiedHoldNothing
  <1>1. IInv => UnverifiedHoldNothing
    <2> SUFFICES ASSUME IInv, NEW s \in session, VerificationRequired, s.user \in Live,
                        s.held, s.proof # 0, s.proof = user[s.user].password
                 PROVE  user[s.user].verified \/ user[s.user].mustChange
      BY DEF UnverifiedHoldNothing
    <2>1. Confirmed(s) /\ user[s.user].row = "live" /\ s.held \in BOOLEAN
      BY DEF IInv, Typed, SessionsAreSound, SessionIsSound, Session, Live
    <2>2. s.held = TRUE
      BY <2>1
    <2> QED
      BY <2>1, <2>2 DEF Confirmed
  <1> QED
    BY <1>1, SpecIInv, PTL

\* The row lock of the company keeps it at one super admin.
THEOREM OneAdminPerCompanyHolds == Spec => []OneAdminPerCompany
  <1>1. IInv => OneAdminPerCompany
    <2> SUFFICES ASSUME IInv PROVE Cardinality(Admins) <= 1
      BY DEF OneAdminPerCompany
    <2>1. \A a, b \in Admins : a = b
      BY DEF IInv, AdminIsAlone, Admins, Live
    <2>2. CASE Admins = {}
      BY <2>2, FS_EmptySet
    <2>3. CASE Admins # {}
      <3>1. PICK a : Admins = {a}
        BY <2>1, <2>3
      <3> QED
        BY <3>1, FS_Singleton
    <2> QED
      BY <2>2, <2>3
  <1> QED
    BY <1>1, SpecIInv, PTL

\* A Google sign-in never leaves a session of an account that was privileged when it looked.
THEOREM GoogleIsForCandidatesHolds == Spec => []GoogleIsForCandidates
  <1>1. IInv => GoogleIsForCandidates
    <2> SUFFICES ASSUME IInv, NEW s \in session, s.proof = 0, ~s.missed
                 PROVE  user[s.user].role = "candidate"
      BY DEF GoogleIsForCandidates
    <2>1. s.missed = FALSE
      BY DEF IInv, Typed, Session
    <2> QED
      BY <2>1 DEF IInv, SessionsAreSound, SessionIsSound
  <1> QED
    BY <1>1, SpecIInv, PTL

-----------------------------------------------------------------------------
(* Naipunyam.                                                               *)
(* Machine-checked proofs about Naipunyam, for every number of concurrent    *)
(* callbacks and every threshold.                                           *)

NaipunyamIInv == NaipunyamTypeOK /\ CountersAgree /\ SignedInHasRow

LEMMA NaipunyamInitIInv == ASSUME Positive PROVE NaipunyamInit => NaipunyamIInv
  BY DEF Positive, NaipunyamInit, NaipunyamIInv, NaipunyamTypeOK, CountersAgree, SignedInHasRow, State, Stage

LEMMA BreakerStep ==
  ASSUME Positive, NaipunyamIInv, OnSuccess \/ OnFailure
  PROVE  /\ state' \in State /\ failures' \in Nat /\ successes' \in Nat /\ timer' \in {"running", "elapsed"}
         /\ CountersAgree'
         /\ state = "open" => state' = "open"
         /\ state = "closed" => state' # "half_open"
         /\ (state = "half_open" /\ state' = "closed") => successes = HalfOpenMaxCalls - 1
  <1> USE DEF Positive, NaipunyamIInv, NaipunyamTypeOK, CountersAgree, State, breaker
  <1>1. CASE OnSuccess
    BY <1>1 DEF OnSuccess
  <1>2. CASE OnFailure
    BY <1>2 DEF OnFailure
  <1> QED
    BY <1>1, <1>2

\* What a callback does besides: it only moves, and enters the call only if the breaker lets it.
LEMMA NaipunyamStepIInv == ASSUME Positive PROVE NaipunyamIInv /\ [NaipunyamNext]_naipunyamVars => NaipunyamIInv'
  <1> SUFFICES ASSUME NaipunyamIInv, [NaipunyamNext]_naipunyamVars PROVE NaipunyamIInv'
    OBVIOUS
  <1>1. CASE RecoveryElapses
    BY <1>1 DEF RecoveryElapses, NaipunyamIInv, NaipunyamTypeOK, CountersAgree, SignedInHasRow
  <1>2. ASSUME NEW r \in Callback, Admitted(r) PROVE NaipunyamIInv'
    BY <1>2 DEF Admitted, Due, CallbackGoes, breaker, Positive, NaipunyamIInv, NaipunyamTypeOK, CountersAgree, SignedInHasRow,
               State, Stage
  <1>3. ASSUME NEW r \in Callback, ProfileAnswered(r) PROVE NaipunyamIInv'
    <2>1. /\ state' \in State /\ failures' \in Nat /\ successes' \in Nat /\ timer' \in {"running", "elapsed"}
          /\ CountersAgree'
      BY <1>3, BreakerStep DEF ProfileAnswered
    <2> QED
      BY <1>3, <2>1 DEF ProfileAnswered, CallbackGoes, NaipunyamIInv, NaipunyamTypeOK, SignedInHasRow, Stage
  <1>4. ASSUME NEW r \in Callback, ProfileRaises(r) PROVE NaipunyamIInv'
    <2>1. /\ state' \in State /\ failures' \in Nat /\ successes' \in Nat /\ timer' \in {"running", "elapsed"}
          /\ CountersAgree'
      BY <1>4, BreakerStep DEF ProfileRaises
    <2> QED
      BY <1>4, <2>1 DEF ProfileRaises, CallbackGoes, NaipunyamIInv, NaipunyamTypeOK, SignedInHasRow, Stage
  <1>5. ASSUME NEW r \in Callback, NEW u \in Uid, CodeExchanged(r, u) PROVE NaipunyamIInv'
    BY <1>5 DEF CodeExchanged, CallbackGoes, breaker, NaipunyamIInv, NaipunyamTypeOK, CountersAgree, SignedInHasRow, Stage
  <1>6. ASSUME NEW r \in Callback,
               Rejected(r) \/ CodeRefused(r) \/ TokenRefused(r) \/ EmailTaken(r)
        PROVE  NaipunyamIInv'
    BY <1>6 DEF Rejected, CodeRefused, TokenRefused, EmailTaken, CallbackGoes, breaker, NaipunyamIInv, NaipunyamTypeOK,
               CountersAgree, SignedInHasRow, Stage
  <1>7. ASSUME NEW r \in Callback, TokenObtained(r) PROVE NaipunyamIInv'
    BY <1>7 DEF TokenObtained, CallbackGoes, breaker, NaipunyamIInv, NaipunyamTypeOK, CountersAgree, SignedInHasRow, Stage
  <1>8. ASSUME NEW r \in Callback, Upserts(r) PROVE NaipunyamIInv'
    <2>1. who[r] \in Uid
      BY <1>8 DEF Upserts, CallbackGoes, NaipunyamIInv, NaipunyamTypeOK, SignedInHasRow
    <2>2. NaipunyamTypeOK'
      BY <1>8, <2>1 DEF Upserts, CallbackGoes, breaker, NaipunyamIInv, NaipunyamTypeOK, Stage
    <2>3. CountersAgree'
      BY <1>8 DEF Upserts, breaker, NaipunyamIInv, CountersAgree
    <2>4. SignedInHasRow'
      BY <1>8 DEF Upserts, CallbackGoes, NaipunyamIInv, NaipunyamTypeOK, SignedInHasRow
    <2> QED
      BY <2>2, <2>3, <2>4 DEF NaipunyamIInv
  <1>8a. ASSUME NEW r \in Callback, SessionMinted(r) PROVE NaipunyamIInv'
    BY <1>8a DEF SessionMinted, CallbackGoes, breaker, NaipunyamIInv, NaipunyamTypeOK, CountersAgree, SignedInHasRow, Stage
  <1>9. CASE UNCHANGED naipunyamVars
    BY <1>9 DEF naipunyamVars, NaipunyamIInv, NaipunyamTypeOK, CountersAgree, SignedInHasRow
  <1> QED
    BY <1>1, <1>2, <1>3, <1>4, <1>5, <1>6, <1>7, <1>8, <1>8a, <1>9
    DEF NaipunyamNext

LEMMA NaipunyamSpecIInv == ASSUME Positive PROVE NaipunyamSpec => []NaipunyamIInv
  <1>1. NaipunyamInit => NaipunyamIInv
    BY NaipunyamInitIInv
  <1>2. NaipunyamIInv /\ [NaipunyamNext]_naipunyamVars => NaipunyamIInv'
    BY NaipunyamStepIInv
  <1> QED
    BY <1>1, <1>2, PTL DEF NaipunyamSpec

\* The state of the breaker always agrees with its counters.
THEOREM CountersAgreeHolds == ASSUME Positive PROVE NaipunyamSpec => []CountersAgree
  <1>1. NaipunyamIInv => CountersAgree
    BY DEF NaipunyamIInv
  <1> QED
    BY <1>1, NaipunyamSpecIInv, PTL

\* A session is minted only for an account whose row is there.
THEOREM SignedInHasRowHolds == ASSUME Positive PROVE NaipunyamSpec => []SignedInHasRow
  <1>1. NaipunyamIInv => SignedInHasRow
    BY DEF NaipunyamIInv
  <1> QED
    BY <1>1, NaipunyamSpecIInv, PTL

\* The breaker moves only as its header draws it.
THEOREM FollowsDiagramHolds == ASSUME Positive PROVE NaipunyamSpec => FollowsDiagram
  <1> DEFINE Drawn == /\ state = "open" => state' # "closed"
                      /\ state = "closed" => state' # "half_open"
                      /\ (state = "half_open" /\ state' = "closed") =>
                            successes = HalfOpenMaxCalls - 1
  <1>1. NaipunyamIInv /\ [NaipunyamNext]_naipunyamVars => [Drawn]_naipunyamVars
    <2> SUFFICES ASSUME NaipunyamIInv, NaipunyamNext PROVE Drawn
      OBVIOUS
    <2>1. CASE OnSuccess \/ OnFailure
      BY <2>1, BreakerStep
    <2>2. CASE UNCHANGED state
      BY <2>2 DEF NaipunyamIInv, NaipunyamTypeOK, State
    <2>3. ASSUME NEW r \in Callback, Admitted(r) PROVE Drawn
      BY <2>3 DEF Admitted, Due, breaker
    <2> QED
      BY <2>1, <2>2, <2>3
      DEF NaipunyamNext, RecoveryElapses, Rejected, ProfileAnswered, ProfileRaises, CodeExchanged,
          CodeRefused, TokenObtained, TokenRefused, Upserts, EmailTaken, SessionMinted, breaker
  <1> QED
    BY <1>1, NaipunyamSpecIInv, PTL DEF NaipunyamSpec, FollowsDiagram

\* An open breaker keeps new calls from the service.
THEOREM ShieldsTheServiceHolds == NaipunyamSpec => ShieldsTheService
  <1> DEFINE Shielded == state = "open" /\ timer = "running" => Flying' \subseteq Flying
             Staged == pc \in [Callback -> Stage]
  <1>1. NaipunyamInit => Staged
    BY DEF NaipunyamInit, Stage
  <1>2. Staged /\ [NaipunyamNext]_naipunyamVars => Staged'
    BY DEF NaipunyamNext, RecoveryElapses, Rejected, Admitted, ProfileAnswered, ProfileRaises, CodeExchanged,
           CodeRefused, TokenObtained, TokenRefused, Upserts, EmailTaken, SessionMinted, CallbackGoes, Stage,
           naipunyamVars
  <1>3. Staged /\ [NaipunyamNext]_naipunyamVars => [Shielded]_naipunyamVars
    <2> SUFFICES ASSUME Staged, NaipunyamNext, state = "open", timer = "running"
                 PROVE  Flying' \subseteq Flying
      OBVIOUS
    <2> SUFFICES ASSUME NEW q \in Callback, pc'[q] = "flying"
                 PROVE  pc[q] = "flying"
      BY DEF Flying
    <2>1. ASSUME NEW r \in Callback, Admitted(r) PROVE FALSE
      BY <2>1 DEF Admitted, Due
    <2>2. ASSUME NEW r \in Callback, NEW from \in Stage, NEW to \in Stage \ {"flying"},
                 CallbackGoes(r, from, to)
          PROVE  pc[q] = "flying"
      BY <2>2 DEF CallbackGoes
    <2> QED
      BY <2>1, <2>2
      DEF NaipunyamNext, RecoveryElapses, Rejected, ProfileAnswered, ProfileRaises, CodeExchanged,
          CodeRefused, TokenObtained, TokenRefused, Upserts, EmailTaken, SessionMinted, Stage
  <1> QED
    BY <1>1, <1>2, <1>3, PTL DEF NaipunyamSpec, ShieldsTheService
=============================================================================
