------------------------------ MODULE MailPromise ------------------------------
(***************************************************************************)
(* What the e-mail outbox of data_gateway promises of every mail, whatever  *)
(* workers, claims and transactions stand behind it: how often the relay is *)
(* asked, when a mail may be called sent, and when it may be given up.      *)
(***************************************************************************)
EXTENDS Integers

CONSTANTS
    Email,          \* the mails
    MaxAttempts     \* email_max_attempts

VARIABLE mail

\* Of each mail: where it stands, how often it has been tried, and how many copies the
\* relay has accepted, with their body and empty.
Stage == {"none", "open", "sent", "failed", "purged"}

\* No more copies than tries is what the steps below come to.
TypeOK ==
    /\ mail \in [Email -> [stage : Stage, tries : 0..MaxAttempts, full : Nat, empty : Nat]]
    /\ \A e \in Email : mail[e].full + mail[e].empty <= mail[e].tries

Moved(e, stage) == mail' = [mail EXCEPT ![e].stage = stage]

Here(e) == mail[e].stage \in {"open", "sent", "failed"}

Init == mail = [e \in Email |-> [stage |-> "none", tries |-> 0, full |-> 0, empty |-> 0]]

Accept(e) == mail[e].stage = "none" /\ Moved(e, "open")

\* Only mails that are neither sent nor given up are tried, and not more than
\* MaxAttempts times.
Try(some) ==
    /\ \A e \in some : mail[e].stage = "open" /\ mail[e].tries < MaxAttempts
    /\ mail' = [e \in Email |-> IF e \in some THEN [mail[e] EXCEPT !.tries = @ + 1] ELSE mail[e]]

\* At most one copy per try, and no empty one before one with its body.
HandOut(e) ==
    /\ mail[e].full + mail[e].empty < mail[e].tries
    /\ \/ mail' = [mail EXCEPT ![e].full = @ + 1]
       \/ mail[e].full > 0 /\ mail' = [mail EXCEPT ![e].empty = @ + 1]

Confirm(e) == Here(e) /\ mail[e].full > 0 /\ Moved(e, "sent")

GiveUp(e) == Here(e) /\ mail[e].tries = MaxAttempts /\ Moved(e, "failed")

\* The refusal of an earlier try is heard late: neither sent nor failed is final.
Reopen(e) == Here(e) /\ Moved(e, "open")

\* What is purged was delivered, or had all its tries.
Purge(e) == mail[e].stage \in {"sent", "failed"} /\ Moved(e, "purged")

Next ==
    \/ \E some \in SUBSET Email : Try(some)
    \/ \E e \in Email : \/ Accept(e) \/ HandOut(e) \/ Confirm(e)
                        \/ GiveUp(e) \/ Reopen(e) \/ Purge(e)

Spec == Init /\ [][Next]_mail
================================================================================
