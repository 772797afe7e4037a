--------------------------- MODULE ReferenceCodes ---------------------------
(***************************************************************************)
(* next_reference_code: a counter read, a pause, and the counter written   *)
(* back, all under _counter_lock.  It justifies IssueCode of Bookings,     *)
(* which takes a code in one step.                                         *)
(***************************************************************************)
EXTENDS ServiceCalls, Integers

CONSTANT FIRST_CODE  \* the counter of a new process

ASSUME CodesAssumption == FIRST_CODE \in Nat

VARIABLES counterLock,  \* the holder of _counter_lock, or None
          counter,      \* _counter["value"]
          current,      \* the local variable of each call
          codePc

codeVars == <<counterLock, counter, current, codePc>>

CodesTypeOK ==
    /\ counterLock \in Creates \cup {None}
    /\ counter \in Nat
    /\ current \in [Creates -> Nat]
    /\ codePc \in [Creates -> {"call", "pause", "returned"}]

CodesInit ==
    /\ counterLock = None
    /\ counter = FIRST_CODE
    /\ current = [t \in Creates |-> 0]
    /\ codePc = [t \in Creates |-> "call"]

\* BUGS.md #19: the counter is read without the lock.
EnterCounterUnlocked(t) ==
    /\ codePc[t] = "call"
    /\ counterLock' = t
    /\ current' = [current EXCEPT ![t] = counter]
    /\ codePc' = [codePc EXCEPT ![t] = "pause"]
    /\ UNCHANGED counter

\* Acquires the lock and reads the counter.
EnterCounter(t) ==
    /\ codePc[t] = "call" /\ counterLock = None
    /\ counterLock' = t
    /\ current' = [current EXCEPT ![t] = counter]
    /\ codePc' = [codePc EXCEPT ![t] = "pause"]
    /\ UNCHANGED counter

\* Writes the counter back, releases the lock and returns current.
LeaveCounter(t) ==
    /\ codePc[t] = "pause"
    /\ counter' = current[t] + 1
    /\ counterLock' = None
    /\ codePc' = [codePc EXCEPT ![t] = "returned"]
    /\ UNCHANGED current

CodesNext == \E t \in Creates : EnterCounter(t) \/ LeaveCounter(t)

CodesSpec == CodesInit /\ [][CodesNext]_codeVars

-----------------------------------------------------------------------------
\* No two calls return the same code (README, business rule 8).
ReturnedCodesDiffer ==
    \A t, u \in Creates :
        codePc[t] = "returned" /\ codePc[u] = "returned" /\ current[t] = current[u] => t = u

\* A call takes effect in one step, when it leaves: it returns the counter as
\* it stands then and moves it up by one, whatever happened during its pause.
IssuesAtomically ==
    [][\A t \in Creates : LeaveCounter(t) => current[t] = counter /\ counter' = counter + 1]_codeVars

=============================================================================
