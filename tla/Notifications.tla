---------------------------- MODULE Notifications ----------------------------
(***************************************************************************)
(* services/notifications.py: notify_created and notify_cancelled hold     *)
(* _email_lock during the simulated mail and, still holding it,            *)
(* _audit_lock during the audit entry.  Every creation and cancellation of *)
(* the server ends here, so a deadlock here stops all writes.              *)
(***************************************************************************)
EXTENDS ServiceCalls, Naturals, Sequences, SequencesExt

Notifiers == Creates \cup Cancels

VARIABLES holder,  \* who holds each lock
          emails,  \* the mails in the order they were sent
          audit,   \* the audit entries in the order they were written
          notePc

noteVars == <<holder, emails, audit, notePc>>
Locks == {"email", "audit"}

NotesTypeOK ==
    /\ holder \in [Locks -> Notifiers \cup {None}]
    /\ emails \in Seq(Notifiers) /\ audit \in Seq(Notifiers)
    /\ notePc \in [Notifiers -> {"call", "mailed", "audited", "returned"}]

NotesInit ==
    /\ holder = [k \in Locks |-> None]
    /\ emails = <<>> /\ audit = <<>>
    /\ notePc = [c \in Notifiers |-> "call"]

\* BUGS.md #17: a cancellation takes the two locks the other way round.
OrderBeforeFix(c) == IF c \in Creates THEN <<"email", "audit">> ELSE <<"audit", "email">>

\* The order in which both functions take the locks.
Order(c) == <<"email", "audit">>

\* Takes a free lock and does the work it guards.
Work(c, lock) ==
    /\ holder[lock] = None
    /\ holder' = [holder EXCEPT ![lock] = c]
    /\ emails' = IF lock = "email" THEN Append(emails, c) ELSE emails
    /\ audit' = IF lock = "audit" THEN Append(audit, c) ELSE audit

TakeOuter(c) ==
    /\ notePc[c] = "call"
    /\ Work(c, Order(c)[1])
    /\ notePc' = [notePc EXCEPT ![c] = "mailed"]

\* A plausible mistake: the mail lock is released before the audit entry.
TakeInnerAlone(c) ==
    /\ notePc[c] = "mailed"
    /\ IF holder["email"] = c
       THEN /\ holder' = [holder EXCEPT !["email"] = None]
            /\ UNCHANGED <<emails, audit, notePc>>
       ELSE /\ Work(c, "audit")
            /\ notePc' = [notePc EXCEPT ![c] = "audited"]

TakeInner(c) ==
    /\ notePc[c] = "mailed"
    /\ Work(c, Order(c)[2])
    /\ notePc' = [notePc EXCEPT ![c] = "audited"]

\* Leaves both with blocks, the inner one first; nobody can use the moment
\* between, because whoever wants the inner lock must hold the outer one.
LeaveBoth(c) ==
    /\ notePc[c] = "audited"
    /\ holder' = [k \in Locks |-> None]
    /\ notePc' = [notePc EXCEPT ![c] = "returned"]
    /\ UNCHANGED <<emails, audit>>

NoteStep(c) == TakeOuter(c) \/ TakeInner(c) \/ LeaveBoth(c)

NotesNext == \E c \in Notifiers : NoteStep(c)

NotesSpec == NotesInit /\ [][NotesNext]_noteVars

-----------------------------------------------------------------------------
\* The audit log is the mails in the order they were sent, at most one behind.
AuditFollowsMail == IsPrefix(audit, emails) /\ Len(emails) <= Len(audit) + 1
=============================================================================
