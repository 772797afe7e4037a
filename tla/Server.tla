------------------------------- MODULE Server -------------------------------
(***************************************************************************)
(* Requests on the threads and database connections of the server: how     *)
(* FastAPI runs get_current_user and the endpoint, how the session of      *)
(* get_db takes and returns a connection, and which locked services the    *)
(* endpoint calls in between.                                              *)
(*                                                                         *)
(* The guard and the endpoint each run in a worker thread of their own.    *)
(* The session takes a connection at its first query and keeps it until it *)
(* commits or closes; so a request holds one while it waits for its second *)
(* thread, and asks for another one after its commit.  Who waits for a     *)
(* connection keeps his thread, and gives up after pool_timeout.           *)
(***************************************************************************)
EXTENDS ReferenceCodes, RoomStats, Notifications

CONSTANTS THREADS,  \* worker threads for guards and endpoints
          POOL      \* connections of the engine, overflow included

ASSUME ServerAssumption ==
    /\ IsFiniteSet(Calls)
    /\ THREADS \in Nat \ {0} /\ POOL \in Nat \ {0}

VARIABLES
    stage,    \* how far each request is
    threads,  \* the requests that occupy a worker thread
    pooled,   \* the requests whose session holds a connection
    database, \* the creations and cancellations whose commit succeeded
    reply     \* what each is answered

serverVars == <<stage, threads, pooled, database, reply>>
vars == <<codeVars, statsVars, noteVars, serverVars>>

Stages == {"arrived",    \* waits for a thread to run get_current_user
           "guarding",   \* runs it, and waits for a connection
           "guarded",    \* waits for a thread to run the endpoint
           "handling",   \* runs it, up to the commit
           "stored",     \* has committed, and waits for a connection again
           "reporting",  \* records, notifies, composes the answer
           "closing",    \* leaves get_db
           "closed"}

Replies == {"none", "done", "refused", "failed"}

ServerTypeOK ==
    /\ stage \in [Calls -> Stages]
    /\ threads \subseteq Calls /\ pooled \subseteq Calls
    /\ database \subseteq Notifiers
    /\ reply \in [Calls -> Replies]

Init ==
    /\ CodesInit /\ StatsInit /\ NotesInit
    /\ stage = [c \in Calls |-> "arrived"]
    /\ threads = {} /\ pooled = {} /\ database = {}
    /\ reply = [c \in Calls |-> "none"]

-----------------------------------------------------------------------------
ThreadFree == Cardinality(threads) < THREADS
ConnectionFree == Cardinality(pooled) < POOL

Move(c, from, to) == stage[c] = from /\ stage' = [stage EXCEPT ![c] = to]

Leave(c, answer) ==
    /\ stage' = [stage EXCEPT ![c] = "closing"]
    /\ threads' = threads \ {c}
    /\ reply' = [reply EXCEPT ![c] = answer]

services == <<codeVars, statsVars, noteVars>>

\* A worker thread takes up the guard or the endpoint.
TakeThread(c) ==
    /\ Move(c, "arrived", "guarding") \/ Move(c, "guarded", "handling")
    /\ ThreadFree
    /\ threads' = threads \cup {c}
    /\ UNCHANGED <<services, pooled, database, reply>>

\* The query of get_current_user.  Its thread is free again, its connection
\* stays with the session.
Guard(c) ==
    /\ Move(c, "guarding", "guarded")
    /\ ConnectionFree
    /\ pooled' = pooled \cup {c}
    /\ threads' = threads \ {c}
    /\ UNCHANGED <<services, database, reply>>

\* The user is gone: 401.
GuardRefuses(c) ==
    /\ stage[c] = "guarding" /\ ConnectionFree
    /\ pooled' = pooled \cup {c}
    /\ Leave(c, "refused")
    /\ UNCHANGED <<services, database>>

\* The endpoint answers 4xx before it has changed anything.
Refuse(c) ==
    /\ stage[c] = "handling"
    /\ c \in Creates => codePc[c] = "call"
    /\ c \in Gets => statsPc[c] = "call"
    /\ Leave(c, "refused")
    /\ UNCHANGED <<services, pooled, database>>

IssueCode(c) ==
    /\ c \in Creates /\ stage[c] = "handling"
    /\ EnterCounter(c) \/ LeaveCounter(c)
    /\ UNCHANGED <<statsVars, noteVars, serverVars>>

AtCommit(c) ==
    /\ c \in Notifiers /\ stage[c] = "handling"
    /\ c \in Creates => codePc[c] = "returned"

\* db.commit of a creation or a cancellation, which ends the transaction and
\* gives the connection back.
Commit(c) ==
    /\ AtCommit(c)
    /\ Move(c, "handling", "stored")
    /\ database' = database \cup {c}
    /\ pooled' = pooled \ {c}
    /\ UNCHANGED <<services, threads, reply>>

\* sqlite stays locked past its timeout, or the row is refused: nothing is
\* stored, 500.  A failed flush is rolled back and gives the connection back; a
\* failed COMMIT leaves that to db.close.
CommitFails(c) ==
    /\ AtCommit(c)
    /\ Leave(c, "failed")
    /\ pooled' \in {pooled, pooled \ {c}}
    /\ UNCHANGED <<services, database>>

\* db.refresh of a creation; the first use of an expired row by a cancellation.
Reload(c) ==
    /\ Move(c, "stored", "reporting")
    /\ ConnectionFree
    /\ pooled' = pooled \cup {c}
    /\ UNCHANGED <<services, threads, database, reply>>

\* No connection within pool_timeout: TimeoutError, answered with a 500.
TimeOut(c) ==
    /\ stage[c] \in {"guarding", "stored"} /\ ~ConnectionFree
    /\ Leave(c, "failed")
    /\ UNCHANGED <<services, pooled, database>>

\* A plausible mistake: the statistics are updated before the commit.
RecordBeforeCommit(c) ==
    /\ stage[c] = "handling"
    /\ c \in Creates => codePc[c] = "returned"
    /\ EnterStats(c) \/ LeaveStats(c)
    /\ UNCHANGED <<codeVars, noteVars, serverVars>>

\* stats.record_create, record_cancel, get.
Record(c) ==
    /\ stage[c] = IF c \in Gets THEN "handling" ELSE "reporting"
    /\ EnterStats(c) \/ LeaveStats(c)
    /\ UNCHANGED <<codeVars, noteVars, serverVars>>

\* cache.invalidate_report, between the statistics and the notification, finds
\* its dictionary changing: RuntimeError, 500 for a request already recorded.
InvalidationFails(c) ==
    /\ c \in Notifiers /\ stage[c] = "reporting"
    /\ statsPc[c] = "returned" /\ notePc[c] = "call"
    /\ Leave(c, "failed")
    /\ UNCHANGED <<services, pooled, database>>

\* A plausible mistake: the notification is sent right after the commit, and
\* the expired row is loaded again under its locks.
NotifyBeforeReload(c) ==
    /\ c \in Notifiers /\ stage[c] \in {"stored", "reporting"}
    /\ NoteStep(c)
    /\ UNCHANGED <<codeVars, statsVars, serverVars>>

Notify(c) ==
    /\ c \in Notifiers /\ stage[c] = "reporting" /\ statsPc[c] = "returned"
    /\ NoteStep(c)
    /\ UNCHANGED <<codeVars, statsVars, serverVars>>

Answer(c) ==
    /\ \/ c \in Gets /\ stage[c] = "handling" /\ statsPc[c] = "returned"
       \/ c \in Notifiers /\ stage[c] = "reporting" /\ notePc[c] = "returned"
    /\ Leave(c, "done")
    /\ UNCHANGED <<services, pooled, database>>

\* A plausible mistake: get_db does not close the session after an exception.
CloseUnlessFailed(c) ==
    /\ Move(c, "closing", "closed")
    /\ pooled' = IF reply[c] = "done" THEN pooled \ {c} ELSE pooled
    /\ UNCHANGED <<services, threads, database, reply>>

\* db.close of get_db, in a thread that is not one of the workers.
Close(c) ==
    /\ Move(c, "closing", "closed")
    /\ pooled' = pooled \ {c}
    /\ UNCHANGED <<services, threads, database, reply>>

Step(c) ==
    \/ TakeThread(c) \/ Guard(c) \/ GuardRefuses(c) \/ Refuse(c) \/ IssueCode(c)
    \/ Commit(c) \/ CommitFails(c) \/ Reload(c) \/ TimeOut(c) \/ Record(c)
    \/ InvalidationFails(c) \/ Notify(c) \/ Answer(c) \/ Close(c)

Next == \E c \in Calls : Step(c)

Spec == Init /\ [][Next]_vars

\* Threads are scheduled, each sleep ends, and so does each wait for a
\* connection, one way or the other.
FairSpec == Spec /\ WF_vars(Next)

-----------------------------------------------------------------------------
InProgress == {c \in Calls : stage[c] # "closed"}

Starved(c) ==
    \/ stage[c] \in {"arrived", "guarded"} /\ ~ThreadFree
    \/ stage[c] \in {"guarding", "stored"} /\ ~ConnectionFree

HoldsLock(c) == counterLock = c \/ statsLock = c \/ \E k \in Locks : holder[k] = c

\* Every request is answered: the locks are taken in an order that cannot stop
\* their callers for ever, and the timeout ends what the two pools could.
EveryRequestAnswered == \A c \in Calls : <>(stage[c] = "closed" /\ reply[c] # "none")

\* Nothing is lost to a request that is over, however it ended: it occupies no
\* thread, no connection and no lock.
NothingLeaks ==
    \A c \in Calls :
        /\ stage[c] \in {"closing", "closed"} => c \notin threads /\ ~HoldsLock(c)
        /\ stage[c] = "closed" => c \notin pooled

\* Nobody waits for a thread or a connection while he holds a lock, so that
\* other requests would wait out his timeout with him.
LocksAreNotHeldUp ==
    \A c \in Calls : stage[c] \in {"arrived", "guarding", "guarded", "stored"} => ~HoldsLock(c)

\* The pools can only block one another, each request waiting for what another
\* one keeps while it waits, when as many requests are in progress as there
\* are threads and connections together.
JamNeedsThreadsAndPool ==
    InProgress # {} /\ (\A c \in InProgress : Starved(c))
        => Cardinality(InProgress) >= THREADS + POOL

\* The statistics of a room add up to the price of a set of creations less
\* cancellations that has all those answered as done and none that the database
\* refused: a 500 may have been counted (its invalidation failed) or not (its
\* row could not be read again), a success always has been, and what is not
\* stored never is.
StatsCoverWhatWasDone ==
    \A m \in Rooms : \E counted \in SUBSET {c \in database : room[c] = m} :
        /\ {c \in Notifiers : room[c] = m /\ reply[c] = "done"} \subseteq counted
        /\ stats[m].revenue = Price * (Cardinality(counted \cap Creates)
                                       - Cardinality(counted \cap Cancels))
=============================================================================
