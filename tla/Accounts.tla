------------------------------- MODULE Accounts -------------------------------
(***************************************************************************)
(* The accounts of one company and of the candidates: data_gateway         *)
(* routers/auth.py (register, login, verification, passwords), admin_hr.py  *)
(* (the company, its super admin and its HR managers) and sso_google.py.    *)
(*                                                                         *)
(* Postgres holds users and one-time links (auth_tokens), Redis the refresh *)
(* sessions.  A request hashes and checks passwords, calls Google and talks *)
(* to Redis between its statements, and only create_company_admin and       *)
(* delete_company lock a row, so a request is several steps.  The sessions  *)
(* themselves (keys, epoch, rotation) are modelled in AuthSessions; here a  *)
(* session is its user and the password that was proved to obtain it.       *)
(*                                                                         *)
(* A password is the number of the request that set it.  Profiles, names    *)
(* and mails are left out, but not the links the mails carry.               *)
(***************************************************************************)
EXTENDS Integers, FiniteSets

CONSTANTS
    Request,                \* HTTP requests that may be in flight at the same time
    Email,                  \* addresses accounts are asked for
    NoEmail,                \* the tombstone of a deleted account
    VerificationRequired,   \* settings.email_verification_required
    MaxUsers,               \* bound: rows ever inserted into users
    MaxLinks,               \* bound: rows ever inserted into auth_tokens
    MaxRequests             \* bound: requests ever made

ASSUME EmailAssumption == NoEmail \notin Email
ASSUME VerificationAssumption == VerificationRequired \in BOOLEAN
ASSUME BoundsAssumption == /\ MaxUsers \in Nat \ {0}
                           /\ MaxLinks \in Nat \ {0}
                           /\ MaxRequests \in Nat \ {0}

VARIABLES
    company,    \* "live" or "deleted"
    user,       \* users and user_roles, by order of insertion
    link,       \* auth_tokens, by order of insertion
    session,    \* refresh sessions in Redis
    oauth,      \* a state nonce of /initiate is stored
    req,        \* what each request remembers
    served      \* requests made so far

vars == <<company, user, link, session, oauth, req, served>>

User == 1..MaxUsers
Link == 1..MaxLinks
First == MaxRequests + 1         \* the password an admin has at the start
Password == 0..First             \* 0: the account has none, or none was proved
Role == {"candidate", "hr", "admin"}

UserRow == [row : {"none", "live", "deleted"}, email : Email \cup {NoEmail}, role : Role,
            password : Password, mustChange : BOOLEAN, verified : BOOLEAN]
NoUser == [row |-> "none", email |-> NoEmail, role |-> "candidate",
           password |-> 0, mustChange |-> FALSE, verified |-> FALSE]

LinkRow == [user : 0..MaxUsers, kind : {"verify", "reset"}, spent : BOOLEAN]

\* held: the client got the cookie.  missed: no revocation can be expected to find it,
\* because logout_all failed, or ran before a login that had read the account earlier.
Session == [user : User, proof : Password, held : BOOLEAN, missed : BOOLEAN]

\* stale: the account changed after this request read it.
Idle == [op |-> "idle", pc |-> "idle", email |-> NoEmail, users |-> {}, link |-> 0,
         password |-> 0, stale |-> FALSE]

TypeOK ==
    /\ company \in {"live", "deleted"}
    /\ user \in [User -> UserRow]
    /\ link \in [Link -> LinkRow]
    /\ session \subseteq Session
    /\ oauth \in BOOLEAN
    /\ \A r \in Request : DOMAIN req[r] = DOMAIN Idle /\ req[r].users \subseteq User
    /\ served \in 0..MaxRequests

Admin(e) == [row |-> "live", email |-> e, role |-> "admin", password |-> First,
             mustChange |-> FALSE, verified |-> TRUE]

\* A company without a super admin, or with one who is signed in.
Init ==
    /\ company = "live"
    /\ \/ /\ user = [u \in User |-> NoUser]
          /\ session = {}
       \/ /\ \E e \in Email : user = [u \in User |-> IF u = 1 THEN Admin(e) ELSE NoUser]
          /\ session = {[user |-> 1, proof |-> First, held |-> TRUE, missed |-> FALSE]}
    /\ link = [t \in Link |-> [user |-> 0, kind |-> "verify", spent |-> FALSE]]
    /\ oauth = FALSE
    /\ req = [r \in Request |-> Idle]
    /\ served = 0

-----------------------------------------------------------------------------

Live == {u \in User : user[u].row = "live"}
Members == {u \in Live : user[u].role # "candidate"}
Admins == {u \in Live : user[u].role = "admin"}
Holder(e) == {u \in Live : user[u].email = e}
InHand(u) == \E s \in session : s.user = u /\ s.held

Starts(r, rec) ==
    /\ req[r] = Idle /\ served < MaxRequests
    /\ served' = served + 1
    /\ req' = [req EXCEPT ![r] = rec]

At(r, op, pc) == req[r].op = op /\ req[r].pc = pc
Subject(r) == CHOOSE u \in User : req[r].users = {u}

\* r goes on or ends; the requests that had read one of the users have a stale copy.
Continues(r, rec, users) ==
    /\ req' = [q \in Request |->
                 IF q = r THEN rec
                 ELSE IF req[q].users \cap users # {} THEN [req[q] EXCEPT !.stale = TRUE]
                 ELSE req[q]]
    /\ UNCHANGED served
Goes(r, pc) == Continues(r, [req[r] EXCEPT !.pc = pc], {})
Ends(r) == Continues(r, Idle, {})

NextUser(u) == user[u].row = "none" /\ \A v \in User : v < u => user[v].row # "none"
NextLink(t) == link[t].user = 0 /\ \A s \in Link : s < t => link[s].user # 0

MintLink(u, kind) ==
    \E t \in Link : /\ NextLink(t)
                    /\ link' = [link EXCEPT ![t] = [user |-> u, kind |-> kind, spent |-> FALSE]]

\* mint_refresh_session
MintSession(r, u, held) ==
    session' = session \cup {[user |-> u, proof |-> req[r].password, held |-> held,
                              missed |-> req[r].stale]}

-----------------------------------------------------------------------------
(* Self-service: register, login, confirmation.                             *)

RegisterReads(r, e) ==
    /\ Starts(r, [Idle EXCEPT !.op = "register", !.pc = "insert", !.email = e,
                              !.password = served + 1])
    /\ UNCHANGED <<company, user, link, session, oauth>>

\* users.email is unique; a deleted account has given its address back.
Insertable(e) == Holder(e) = {}

RegisterInserts(r) ==
    /\ At(r, "register", "insert")
    /\ \/ /\ Insertable(req[r].email)
          /\ \E u \in User :
               /\ NextUser(u)
               /\ user' = [user EXCEPT ![u] = [NoUser EXCEPT !.row = "live",
                             !.email = req[r].email, !.password = req[r].password]]
               /\ Continues(r, [req[r] EXCEPT !.pc = "mint", !.users = {u}], {})
       \/ ~Insertable(req[r].email) /\ Ends(r) /\ UNCHANGED user
    /\ UNCHANGED <<company, link, session, oauth>>

\* The session is minted in any case; the cookie only when no confirmation is asked for.
\* The welcome mail with its link is best effort.
RegisterMints(r) ==
    /\ At(r, "register", "mint")
    /\ MintSession(r, Subject(r), ~VerificationRequired)
    /\ MintLink(Subject(r), "verify") \/ UNCHANGED link
    /\ Ends(r)
    /\ UNCHANGED <<company, user, oauth>>

LoginReads(r, e) ==
    \E u \in Holder(e) :
        /\ user[u].password # 0
        /\ Starts(r, [Idle EXCEPT !.op = "login", !.pc = "mint", !.users = {u},
                                  !.password = user[u].password])
        /\ UNCHANGED <<company, user, link, session, oauth>>

\* Mutant: the confirmation is not enforced.
BlockedNever(u) == FALSE

\* _enforce_email_verified
Blocked(u) == /\ VerificationRequired /\ user[u].row = "live"
              /\ user[u].password # 0 /\ ~user[u].mustChange /\ ~user[u].verified

\* A blocked login leaves its session behind, without a cookie, and sends a new link.
LoginMints(r) ==
    /\ At(r, "login", "mint")
    /\ MintSession(r, Subject(r), ~Blocked(Subject(r)))
    /\ \/ Blocked(Subject(r)) /\ MintLink(Subject(r), "verify")
       \/ UNCHANGED link
    /\ Ends(r)
    /\ UNCHANGED <<company, user, oauth>>

Logout(s) ==
    /\ s.held
    /\ session' = session \ {s}
    /\ UNCHANGED <<company, user, link, oauth, req, served>>

\* resend_verification and verify_email read and write without waiting for anything.
ResendVerification(u) ==
    /\ served < MaxRequests /\ served' = served + 1
    /\ u \in Live /\ InHand(u) /\ ~user[u].verified
    /\ MintLink(u, "verify")
    /\ UNCHANGED <<company, user, session, oauth, req>>

VerifyEmail(t) ==
    /\ link[t].user # 0 /\ link[t].kind = "verify" /\ ~link[t].spent
    /\ link' = [link EXCEPT ![t].spent = TRUE]
    /\ user' = [user EXCEPT ![link[t].user].verified = TRUE]
    /\ UNCHANGED <<company, session, oauth, req, served>>

-----------------------------------------------------------------------------
(* Passwords.                                                               *)

ForgotPassword(e) ==
    /\ served < MaxRequests /\ served' = served + 1
    /\ \E u \in Holder(e) : user[u].password # 0 /\ MintLink(u, "reset")
    /\ UNCHANGED <<company, user, session, oauth, req>>

ResetReads(r, t) ==
    /\ link[t].user # 0 /\ link[t].kind = "reset" /\ ~link[t].spent
    /\ Starts(r, [Idle EXCEPT !.op = "reset", !.pc = "commit", !.link = t,
                              !.users = {link[t].user}, !.password = served + 1])
    /\ UNCHANGED <<company, user, link, session, oauth>>

ResetCommits(r) ==
    LET u == Subject(r)
    IN /\ At(r, "reset", "commit")
       /\ link' = [link EXCEPT ![req[r].link].spent = TRUE]
       /\ user' = [user EXCEPT ![u] = [@ EXCEPT !.password = req[r].password,
                                                !.mustChange = FALSE, !.verified = TRUE]]
       /\ Continues(r, [req[r] EXCEPT !.pc = "revoke"], {u})
       /\ UNCHANGED <<company, session, oauth>>

\* The current password is asked for except while the bootstrap password stands.
ChangeReads(r, u) ==
    /\ InHand(u) /\ u \in Live
    /\ user[u].mustChange \/ user[u].password # 0
    /\ Starts(r, [Idle EXCEPT !.op = "change", !.pc = "commit", !.users = {u},
                              !.password = served + 1])
    /\ UNCHANGED <<company, user, link, session, oauth>>

\* Mutant: the other sessions are left alone.
AfterChangeNothing == "done"

AfterChange == "revoke"

ChangeCommits(r) ==
    LET u == Subject(r)
    IN /\ At(r, "change", "commit")
       /\ user' = [user EXCEPT ![u] = [@ EXCEPT !.password = req[r].password,
                                                !.mustChange = FALSE]]
       /\ Continues(r, IF AfterChange = "revoke" THEN [req[r] EXCEPT !.pc = "revoke"] ELSE Idle,
                    {u})
       /\ UNCHANGED <<company, link, session, oauth>>

\* logout_all for one of the accounts the request still has to log out.  A failure is
\* answered with 500 by a reset and logged by the others.
Revokes(r) ==
    /\ req[r].pc = "revoke"
    /\ \E u \in req[r].users :
         /\ \/ session' = {s \in session : s.user # u}
            \/ session' = {[s EXCEPT !.missed = @ \/ s.user = u] : s \in session}
         /\ IF req[r].users = {u} THEN Ends(r)
            ELSE Continues(r, [req[r] EXCEPT !.users = @ \ {u}], {})
    /\ UNCHANGED <<company, user, link, oauth>>

-----------------------------------------------------------------------------
(* The company: its super admin and its HR managers.                        *)

\* Mutant: the company row is read without FOR UPDATE.
LockedNever(c) == FALSE

\* create_company_admin holds the row lock until it commits.
Locked(c) == \E r \in Request : At(r, "create admin", "insert")

CreateAdminReads(r, e) ==
    /\ company = "live" /\ ~Locked(company) /\ Admins = {}
    /\ Starts(r, [Idle EXCEPT !.op = "create admin", !.pc = "insert", !.email = e,
                              !.password = served + 1])
    /\ UNCHANGED <<company, user, link, session, oauth>>

CreateHrReads(r, e) ==
    /\ company = "live" /\ \E a \in Admins : InHand(a)
    /\ Starts(r, [Idle EXCEPT !.op = "create hr", !.pc = "insert", !.email = e,
                              !.password = served + 1])
    /\ UNCHANGED <<company, user, link, session, oauth>>

RoleOf(op) == IF op = "create admin" THEN "admin" ELSE "hr"

\* A Google sign-in that has already looked for a privileged account is late.
LooksPast(e) == [q \in Request |->
                   IF req[q].op = "google" /\ req[q].pc = "upsert" /\ req[q].email = e
                   THEN [req[q] EXCEPT !.stale = TRUE] ELSE req[q]]

\* The foreign key of the insert waits for the lock of the company row; a company that is
\* soft-deleted meanwhile does not stop it.
MemberInserts(r) ==
    LET e == req[r].email
    IN /\ req[r].op \in {"create admin", "create hr"} /\ req[r].pc = "insert"
       /\ req[r].op = "create hr" => ~Locked(company)
       /\ \/ /\ Insertable(e)
             /\ \E u \in User :
                  /\ NextUser(u)
                  /\ user' = [user EXCEPT ![u] = [row |-> "live", email |-> e,
                       role |-> RoleOf(req[r].op), password |-> req[r].password,
                       mustChange |-> TRUE, verified |-> FALSE]]
                  /\ req' = [LooksPast(e) EXCEPT
                               ![r] = [req[r] EXCEPT !.pc = "mail", !.users = {u}]]
                  /\ UNCHANGED served
          \/ ~Insertable(e) /\ Ends(r) /\ UNCHANGED user
       /\ UNCHANGED <<company, link, session, oauth>>

\* The mail with the "set your password" link is best effort.
CredentialsMailed(r) ==
    /\ req[r].pc = "mail"
    /\ MintLink(Subject(r), "reset") \/ UNCHANGED link
    /\ Ends(r)
    /\ UNCHANGED <<company, user, session, oauth>>

\* The platform owner removes the admin, an admin removes an HR manager.
RemoveReads(r, u) ==
    /\ company = "live" /\ u \in Members
    /\ user[u].role = "hr" => \E a \in Admins : InHand(a)
    /\ Starts(r, [Idle EXCEPT !.op = "remove", !.pc = "commit", !.users = {u}])
    /\ UNCHANGED <<company, user, link, session, oauth>>

\* _soft_delete_user: the address is given back.
Deleted(users) == [u \in User |-> IF u \in users
                                  THEN [user[u] EXCEPT !.row = "deleted", !.email = NoEmail]
                                  ELSE user[u]]

RemoveCommits(r) ==
    /\ At(r, "remove", "commit")
    /\ user' = Deleted(req[r].users)
    /\ Continues(r, [req[r] EXCEPT !.pc = "revoke"], req[r].users)
    /\ UNCHANGED <<company, link, session, oauth>>

\* Everything up to the commit happens under the lock of the company row.
DeleteCompany(r) ==
    /\ company = "live" /\ ~Locked(company)
    /\ req[r] = Idle /\ served < MaxRequests
    /\ served' = served + 1
    /\ company' = "deleted"
    /\ user' = Deleted(Members)
    /\ req' = [q \in Request |->
         IF q = r
         THEN IF Members = {} THEN Idle
              ELSE [Idle EXCEPT !.op = "delete company", !.pc = "revoke", !.users = Members]
         ELSE IF req[q].users \cap Members # {} THEN [req[q] EXCEPT !.stale = TRUE]
         ELSE req[q]]
    /\ UNCHANGED <<link, session, oauth>>

-----------------------------------------------------------------------------
(* Google sign-in.                                                          *)

GoogleInitiates ==
    /\ ~oauth /\ oauth' = TRUE
    /\ UNCHANGED <<company, user, link, session, req, served>>

\* The state is read, then deleted; the code is exchanged and the address comes back.
GoogleReads(r, e) ==
    /\ oauth
    /\ Starts(r, [Idle EXCEPT !.op = "google", !.pc = "delete", !.email = e])
    /\ UNCHANGED <<company, user, link, session, oauth>>

GoogleDeletes(r) ==
    /\ At(r, "google", "delete")
    /\ oauth' = FALSE
    /\ Goes(r, "check") \/ Ends(r)
    /\ UNCHANGED <<company, user, link, session>>

\* Mutant: the candidate-only gate is missing.
PrivilegedNever(e) == FALSE

Privileged(e) == \E u \in Holder(e) : user[u].role # "candidate"

GoogleChecks(r) ==
    /\ At(r, "google", "check")
    /\ IF Privileged(req[r].email) THEN Ends(r) ELSE Goes(r, "upsert")
    /\ UNCHANGED <<company, user, link, session, oauth>>

\* INSERT ... ON CONFLICT (email) DO UPDATE: whoever holds the address now is signed in.
GoogleUpserts(r) ==
    LET e == req[r].email
    IN /\ At(r, "google", "upsert")
       /\ \/ \E u \in Holder(e) : /\ Continues(r, [req[r] EXCEPT !.pc = "mint", !.users = {u}], {})
                                  /\ UNCHANGED user
          \/ /\ Insertable(e)
             /\ \E u \in User :
                  /\ NextUser(u)
                  /\ user' = [user EXCEPT ![u] = [NoUser EXCEPT !.row = "live", !.email = e]]
                  /\ Continues(r, [req[r] EXCEPT !.pc = "mint", !.users = {u}], {})
       /\ UNCHANGED <<company, link, session, oauth>>

GoogleMints(r) ==
    /\ At(r, "google", "mint")
    /\ MintSession(r, Subject(r), TRUE)
    /\ Ends(r)
    /\ UNCHANGED <<company, user, link, oauth>>

-----------------------------------------------------------------------------

SelfService(r) ==
    \/ \E e \in Email : RegisterReads(r, e) \/ LoginReads(r, e)
    \/ RegisterInserts(r) \/ RegisterMints(r) \/ LoginMints(r)

Passwords(r) ==
    \/ \E t \in Link : ResetReads(r, t)
    \/ \E u \in User : ChangeReads(r, u)
    \/ ResetCommits(r) \/ ChangeCommits(r) \/ Revokes(r)

Administration(r) ==
    \/ \E e \in Email : CreateAdminReads(r, e) \/ CreateHrReads(r, e)
    \/ \E u \in User : RemoveReads(r, u)
    \/ MemberInserts(r) \/ CredentialsMailed(r) \/ RemoveCommits(r) \/ DeleteCompany(r)

Google(r) ==
    \/ \E e \in Email : GoogleReads(r, e)
    \/ GoogleDeletes(r) \/ GoogleChecks(r) \/ GoogleUpserts(r) \/ GoogleMints(r)

Next ==
    \/ \E r \in Request : SelfService(r) \/ Passwords(r) \/ Administration(r) \/ Google(r)
    \/ \E s \in session : Logout(s)
    \/ \E u \in User : ResendVerification(u)
    \/ \E t \in Link : VerifyEmail(t)
    \/ \E e \in Email : ForgotPassword(e)
    \/ GoogleInitiates

Spec == Init /\ [][Next]_vars

-----------------------------------------------------------------------------

Revoking(u) == \E r \in Request : req[r].pc = "revoke" /\ u \in req[r].users

(* A refresh session outlives neither its account nor the password it was    *)
(* obtained with, once the request that changed them has revoked; the        *)
(* exceptions are a revocation that failed and a sign-in that had read the   *)
(* account before the change.                                               *)
SessionsFollowAccount ==
    \A s \in session :
        \/ s.missed \/ Revoking(s.user)
        \/ s.user \in Live /\ s.proof \in {0, user[s.user].password}

(* While confirmation is required, nobody holds a session of a live account  *)
(* for a password that is neither a bootstrap password nor of a confirmed    *)
(* address, whichever way the password was set.  (A login whose account is   *)
(* deleted before _enforce_email_verified finds no row, and passes.)         *)
UnverifiedHoldNothing ==
    \A s \in session :
        (/\ VerificationRequired /\ s.user \in Live
         /\ s.held /\ s.proof # 0 /\ s.proof = user[s.user].password)
            => user[s.user].verified \/ user[s.user].mustChange

(* Two requests that create the super admin at once, for two addresses, and   *)
(* removals in between never leave the company with two.                     *)
OneAdminPerCompany == Cardinality(Admins) <= 1

(* Google signs in candidates only: a session it minted is never of a        *)
(* privileged account, unless that account was created after the check.      *)
GoogleIsForCandidates ==
    \A s \in session : s.proof = 0 /\ ~s.missed => user[s.user].role = "candidate"

(* "every login into it are gone" (admin_hr.py:421): a deleted company has    *)
(* no live member.                                                          *)
DeletedCompanyIsEmpty == company = "deleted" => Members = {}

(* "they verify when they set their password" (auth.py:488): a provisioned    *)
(* account that has its own password is verified.                           *)
OwnPasswordIsVerified == \A u \in Members : user[u].mustChange \/ user[u].verified

(* "Set on first successful use (single-use)" (models.py:1087): a link sets   *)
(* the password at most once.                                               *)
LinkSetsPasswordOnce ==
    [][\A r \in Request : (At(r, "reset", "commit") /\ req'[r].pc = "revoke")
                             => ~link[req[r].link].spent]_vars
=============================================================================
