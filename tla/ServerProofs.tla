---------------------------- MODULE ServerProofs ----------------------------
(***************************************************************************)
(* The locked services for any number of calls (codes differ and are       *)
(* issued in one step, reads of the statistics are current, no update is   *)
(* lost); and the server for any number of requests, threads, connections: *)
(* its requests use the services as their modules say, nothing leaks,      *)
(* locks are not held up, what a jam of the two pools takes, and that some *)
(* request can always move, none for ever.                                 *)
(***************************************************************************)
EXTENDS Server, FiniteSetTheorems, TLAPS

-----------------------------------------------------------------------------
(***************************************************************************)
(* The lock's holder is the one call in its pause, and the counter cannot  *)
(* move under it; codes that were returned lie below the counter.          *)
(***************************************************************************)
CounterLockInv ==
    /\ CodesTypeOK
    /\ \A t \in Creates : codePc[t] = "pause" => counterLock = t /\ current[t] = counter
    /\ \A t \in Creates : codePc[t] = "returned" => current[t] < counter
    /\ ReturnedCodesDiffer

\* Taking and leaving the lock keep the invariant of the lock.
LEMMA CounterLockInvStep == CounterLockInv /\ [CodesNext]_codeVars => CounterLockInv'
<1> SUFFICES ASSUME CounterLockInv, [CodesNext]_codeVars PROVE CounterLockInv'
  OBVIOUS
<1> USE CodesAssumption, CallsAssumption DEF CounterLockInv, CodesTypeOK, ReturnedCodesDiffer
<1>1. ASSUME NEW t \in Creates, EnterCounter(t) PROVE CounterLockInv'
  BY <1>1 DEF EnterCounter
<1>2. ASSUME NEW t \in Creates, LeaveCounter(t) PROVE CounterLockInv'
  BY <1>2 DEF LeaveCounter
<1>3. CASE UNCHANGED codeVars
  BY <1>3 DEF codeVars
<1> QED BY <1>1, <1>2, <1>3 DEF CodesNext

\* The counter never moves under the call that holds _counter_lock.
THEOREM CounterLockInvAlways == CodesSpec => []CounterLockInv
<1>1. CodesInit => CounterLockInv
  BY CodesAssumption, CallsAssumption DEF CodesInit, CounterLockInv, CodesTypeOK, ReturnedCodesDiffer
<1> QED BY <1>1, CounterLockInvStep, PTL DEF CodesSpec

(***************************************************************************)
(* For any number of calls: no two calls return the same code.             *)
(***************************************************************************)
THEOREM CodesDiffer == CodesSpec => []ReturnedCodesDiffer
BY CounterLockInvAlways, PTL DEF CounterLockInv

(***************************************************************************)
(* For any number of calls: a call is atomic, its effect that of reading   *)
(* and incrementing the counter at the instant it leaves.                  *)
(***************************************************************************)
THEOREM IssueIsAtomic == CodesSpec => IssuesAtomically
<1>1. CounterLockInv => \A t \in Creates : LeaveCounter(t) => current[t] = counter /\ counter' = counter + 1
  BY DEF CounterLockInv, LeaveCounter
<1> QED BY <1>1, CounterLockInvAlways, PTL DEF IssuesAtomically
-----------------------------------------------------------------------------
(***************************************************************************)
(* The lock's holder is the one call in its pause, and what it read is     *)
(* still what is stored.                                                   *)
(***************************************************************************)
StatsLockInv ==
    /\ StatsTypeOK
    /\ \A c \in Calls : statsPc[c] = "pause" => statsLock = c /\ read[c] = stats[room[c]]

\* What an update computes from figures are figures.
LEMMA UpdatedType ==
    ASSUME NEW c, NEW f \in Figures PROVE Updated(c, f) \in Figures
BY StatsAssumption DEF Updated, Figures

\* Taking and leaving the lock keep the invariant of the lock.
LEMMA StatsLockInvStep == StatsLockInv /\ [StatsNext]_statsVars => StatsLockInv'
<1> SUFFICES ASSUME StatsLockInv, [StatsNext]_statsVars PROVE StatsLockInv'
  OBVIOUS
<1> USE StatsAssumption, CallsAssumption DEF StatsLockInv, StatsTypeOK
<1>1. ASSUME NEW c \in Calls, EnterStats(c) PROVE StatsLockInv'
  <2>1. read' = [read EXCEPT ![c] = stats[room[c]]] /\ stats[room[c]] \in Figures
    BY <1>1 DEF EnterStats
  <2>2. StatsTypeOK'
    BY <1>1, <2>1 DEF EnterStats
  <2>3. \A d \in Calls : statsPc[d] # "pause"
    BY <1>1, None \notin Calls DEF EnterStats, Calls
  <2>4. \A d \in Calls : statsPc'[d] = "pause" => d = c
    BY <1>1, <2>3 DEF EnterStats
  <2>5. statsLock' = c /\ read'[c] = stats'[room'[c]]
    BY <1>1, <2>1 DEF EnterStats
  <2> QED BY <2>2, <2>4, <2>5
<1>2. ASSUME NEW c \in Calls, LeaveStats(c) PROVE StatsLockInv'
  <2>1. Updated(c, read[c]) \in Figures
    BY UpdatedType
  <2>2. stats' \in [Rooms -> Figures]
    BY <1>2, <2>1 DEF LeaveStats
  <2>3. StatsTypeOK'
    BY <1>2, <2>2 DEF LeaveStats
  <2>4. \A d \in Calls : d # c => statsPc[d] # "pause"
    BY <1>2 DEF LeaveStats
  <2>5. \A d \in Calls : statsPc'[d] # "pause"
    BY <1>2, <2>4 DEF LeaveStats
  <2> QED BY <2>3, <2>5
<1>3. CASE UNCHANGED statsVars
  BY <1>3 DEF statsVars
<1> QED BY <1>1, <1>2, <1>3 DEF StatsNext

\* Figures never change under the call that holds _stats_lock.
THEOREM StatsLockInvAlways == StatsSpec => []StatsLockInv
<1>1. StatsInit => StatsLockInv
  BY DEF StatsInit, StatsLockInv, StatsTypeOK, NoFigures, Figures
<1> QED BY <1>1, StatsLockInvStep, PTL DEF StatsSpec

(***************************************************************************)
(* For any number of calls: a get returns figures that are still current.  *)
(***************************************************************************)
THEOREM GetReturnsCurrent == StatsSpec => GetsAreCurrent
<1>1. StatsLockInv => \A c \in Gets : LeaveStats(c) => read[c] = stats[room[c]]
  BY DEF StatsLockInv, LeaveStats, Calls
<1> QED BY <1>1, StatsLockInvAlways, PTL DEF GetsAreCurrent

-----------------------------------------------------------------------------
Counted(m) ==
    /\ IsFiniteSet(Recorded(Creates, m)) /\ IsFiniteSet(Recorded(Cancels, m))
    /\ stats[m].revenue = Price * (Cardinality(Recorded(Creates, m))
                                   - Cardinality(Recorded(Cancels, m)))

\* Every step keeps the revenue equal to what the returned calls add up to.
LEMMA CountedStep ==
    ASSUME StatsLockInv, NEW m \in Rooms, Counted(m), [StatsNext]_statsVars
    PROVE  Counted(m)'
<1> USE StatsAssumption, CallsAssumption DEF StatsLockInv, StatsTypeOK
<1>1. ASSUME Recorded(Creates, m)' = Recorded(Creates, m),
             Recorded(Cancels, m)' = Recorded(Cancels, m),
             stats'[m] = stats[m]
      PROVE  Counted(m)'
  BY <1>1 DEF Counted
<1>2. ASSUME NEW c \in Calls, EnterStats(c) PROVE Counted(m)'
  BY <1>1, <1>2 DEF EnterStats, Recorded
<1>3. ASSUME NEW c \in Calls, LeaveStats(c) PROVE Counted(m)'
  <2>1. CASE c \in Gets \/ room[c] # m
    <3>1. stats'[m] = stats[m]
      BY <1>3, <2>1 DEF LeaveStats
    <3>2. Recorded(Creates, m)' = Recorded(Creates, m)
      BY <1>3, <2>1 DEF LeaveStats, Recorded, Calls
    <3>3. Recorded(Cancels, m)' = Recorded(Cancels, m)
      BY <1>3, <2>1 DEF LeaveStats, Recorded, Calls
    <3> QED BY <1>1, <3>1, <3>2, <3>3
  <2>2. CASE c \in Creates /\ room[c] = m
    <3>1. /\ Recorded(Creates, m)' = Recorded(Creates, m) \cup {c}
          /\ c \notin Recorded(Creates, m)
          /\ Recorded(Cancels, m)' = Recorded(Cancels, m)
      BY <1>3, <2>2 DEF LeaveStats, Recorded, Calls
    <3>2. stats'[m].revenue = stats[m].revenue + Price
      BY <1>3, <2>2 DEF LeaveStats, Calls, Updated
    <3>3. /\ Cardinality(Recorded(Creates, m)) \in Int
          /\ Cardinality(Recorded(Cancels, m)) \in Int
      BY FS_CardinalityType DEF Counted
    <3>4. /\ IsFiniteSet(Recorded(Creates, m)')
          /\ Cardinality(Recorded(Creates, m)') = Cardinality(Recorded(Creates, m)) + 1
      BY <3>1, FS_AddElement DEF Counted
    <3> QED BY <3>1, <3>2, <3>3, <3>4 DEF Counted
  <2>3. CASE c \in Cancels /\ room[c] = m
    <3>1. /\ Recorded(Cancels, m)' = Recorded(Cancels, m) \cup {c}
          /\ c \notin Recorded(Cancels, m)
          /\ Recorded(Creates, m)' = Recorded(Creates, m)
      BY <1>3, <2>3 DEF LeaveStats, Recorded, Calls
    <3>2. stats'[m].revenue = stats[m].revenue - Price
      BY <1>3, <2>3 DEF LeaveStats, Calls, Updated
    <3>3. /\ Cardinality(Recorded(Creates, m)) \in Int
          /\ Cardinality(Recorded(Cancels, m)) \in Int
      BY FS_CardinalityType DEF Counted
    <3>4. /\ IsFiniteSet(Recorded(Cancels, m)')
          /\ Cardinality(Recorded(Cancels, m)') = Cardinality(Recorded(Cancels, m)) + 1
      BY <3>1, FS_AddElement DEF Counted
    <3> QED BY <3>1, <3>2, <3>3, <3>4 DEF Counted
  <2> QED BY <2>1, <2>2, <2>3 DEF Calls
<1>4. CASE UNCHANGED statsVars
  BY <1>1, <1>4 DEF statsVars, Recorded
<1> QED BY <1>2, <1>3, <1>4 DEF StatsNext

(***************************************************************************)
(* For any number of calls no update of the revenue is lost.               *)
(***************************************************************************)
THEOREM RevenueLosesNothing == StatsSpec => []NoLostUpdate
<1>1. StatsInit => \A m \in Rooms : Counted(m)
  <2> SUFFICES ASSUME StatsInit, NEW m \in Rooms PROVE Counted(m)
    OBVIOUS
  <2>1. Recorded(Creates, m) = {} /\ Recorded(Cancels, m) = {}
    BY DEF StatsInit, Recorded, Calls
  <2> QED
    BY <2>1, FS_EmptySet, StatsAssumption DEF StatsInit, Counted, NoFigures
<1>2. StatsLockInv /\ (\A m \in Rooms : Counted(m)) /\ [StatsNext]_statsVars
      => (\A m \in Rooms : Counted(m))'
  BY CountedStep
<1>3. (\A m \in Rooms : Counted(m)) => NoLostUpdate
  BY DEF Counted, NoLostUpdate
<1> QED BY <1>1, <1>2, <1>3, StatsLockInvAlways, PTL DEF StatsSpec

(***************************************************************************)
(* The same of the count, which a cancellation lowers unless it found it   *)
(* at zero.                                                                *)
(***************************************************************************)
Lowering(m) == {c \in Recorded(Cancels, m) : read[c].count > 0}

CountKept(m) ==
    /\ IsFiniteSet(Recorded(Creates, m)) /\ IsFiniteSet(Lowering(m))
    /\ stats[m].count = Cardinality(Recorded(Creates, m)) - Cardinality(Lowering(m))

\* Every step keeps the count equal to what the returned calls add up to.
LEMMA CountKeptStep ==
    ASSUME StatsLockInv, NEW m \in Rooms, CountKept(m), [StatsNext]_statsVars
    PROVE  CountKept(m)'
<1> USE StatsAssumption, CallsAssumption DEF StatsLockInv, StatsTypeOK
<1>1. ASSUME Recorded(Creates, m)' = Recorded(Creates, m), Lowering(m)' = Lowering(m),
             stats'[m].count = stats[m].count
      PROVE  CountKept(m)'
  BY <1>1 DEF CountKept
<1>2. ASSUME NEW c \in Calls, EnterStats(c) PROVE CountKept(m)'
  <2>1. \A d \in Calls : statsPc'[d] = "returned" <=> statsPc[d] = "returned"
    BY <1>2 DEF EnterStats
  <2>2. \A d \in Calls : statsPc[d] = "returned" => read'[d] = read[d]
    BY <1>2 DEF EnterStats
  <2> QED BY <1>1, <1>2, <2>1, <2>2 DEF EnterStats, Recorded, Lowering, Calls
<1>3. ASSUME NEW c \in Calls, LeaveStats(c) PROVE CountKept(m)'
  <2>0. /\ read' = read /\ room' = room /\ statsPc[c] = "pause" /\ read[c] = stats[room[c]]
        /\ statsPc' = [statsPc EXCEPT ![c] = "returned"]
    BY <1>3 DEF LeaveStats
  <2>1. CASE c \in Gets \/ room[c] # m
    <3>1. stats'[m] = stats[m]
      BY <1>3, <2>1 DEF LeaveStats
    <3>2. Recorded(Creates, m)' = Recorded(Creates, m) /\ Lowering(m)' = Lowering(m)
      BY <2>0, <2>1 DEF Recorded, Lowering, Calls
    <3> QED BY <1>1, <3>1, <3>2
  <2>2. CASE c \in Creates /\ room[c] = m
    <3>1. /\ Recorded(Creates, m)' = Recorded(Creates, m) \cup {c}
          /\ c \notin Recorded(Creates, m) /\ Lowering(m)' = Lowering(m)
      BY <2>0, <2>2 DEF Recorded, Lowering, Calls
    <3>2. stats'[m].count = stats[m].count + 1
      BY <1>3, <2>0, <2>2 DEF LeaveStats, Calls, Updated
    <3>3. /\ Cardinality(Recorded(Creates, m)) \in Int /\ Cardinality(Lowering(m)) \in Int
          /\ IsFiniteSet(Recorded(Creates, m)')
          /\ Cardinality(Recorded(Creates, m)') = Cardinality(Recorded(Creates, m)) + 1
      BY <3>1, FS_CardinalityType, FS_AddElement DEF CountKept
    <3> QED BY <3>1, <3>2, <3>3 DEF CountKept
  <2>3. CASE c \in Cancels /\ room[c] = m
    <3>1. /\ Recorded(Creates, m)' = Recorded(Creates, m) /\ c \notin Lowering(m)
          /\ Lowering(m)' = IF read[c].count > 0 THEN Lowering(m) \cup {c} ELSE Lowering(m)
      BY <2>0, <2>3 DEF Recorded, Lowering, Calls
    <3>2. /\ read[c] = stats[m] /\ stats[m].count \in Nat
          /\ stats'[m].count = IF read[c].count = 0 THEN 0 ELSE stats[m].count - 1
      BY <1>3, <2>0, <2>3 DEF LeaveStats, Calls, Updated, Figures
    <3>3. /\ Cardinality(Recorded(Creates, m)) \in Int /\ Cardinality(Lowering(m)) \in Int
          /\ IsFiniteSet(Lowering(m) \cup {c})
          /\ Cardinality(Lowering(m) \cup {c}) = Cardinality(Lowering(m)) + 1
      BY <3>1, FS_CardinalityType, FS_AddElement DEF CountKept
    <3>4. CASE read[c].count = 0
      BY <1>1, <3>1, <3>2, <3>4
    <3>5. CASE read[c].count > 0
      BY <3>1, <3>2, <3>3, <3>5 DEF CountKept
    <3> QED BY <3>2, <3>4, <3>5
  <2> QED BY <2>1, <2>2, <2>3 DEF Calls
<1>4. CASE UNCHANGED statsVars
  BY <1>1, <1>4 DEF statsVars, Recorded, Lowering
<1> QED BY <1>2, <1>3, <1>4 DEF StatsNext

(***************************************************************************)
(* For any number of calls the count loses only what was cancelled early.  *)
(***************************************************************************)
THEOREM CountLosesLittle == StatsSpec => []CountLosesOnlyEarlyCancels
<1>1. StatsInit => \A m \in Rooms : CountKept(m)
  <2> SUFFICES ASSUME StatsInit, NEW m \in Rooms PROVE CountKept(m)
    OBVIOUS
  <2>1. Recorded(Creates, m) = {} /\ Lowering(m) = {}
    BY DEF StatsInit, Recorded, Lowering, Calls
  <2> QED BY <2>1, FS_EmptySet DEF StatsInit, CountKept, NoFigures
<1>2. StatsLockInv /\ (\A m \in Rooms : CountKept(m)) /\ [StatsNext]_statsVars
      => (\A m \in Rooms : CountKept(m))'
  BY CountKeptStep
<1>3. (\A m \in Rooms : CountKept(m)) => CountLosesOnlyEarlyCancels
  BY DEF CountKept, CountLosesOnlyEarlyCancels, Lowering
<1> QED BY <1>1, <1>2, <1>3, StatsLockInvAlways, PTL DEF StatsSpec

-----------------------------------------------------------------------------
(***************************************************************************)
(* A handler that calls one service after the other uses each of them as   *)
(* its module says, so the theorems of the modules hold of the whole.      *)
(***************************************************************************)
THEOREM ServerUsesCodes == Spec => CodesSpec
<1>1. Init => CodesInit
  BY DEF Init
<1>2. [Next]_vars => [CodesNext]_codeVars
  BY DEF Next, Step, TakeThread, Guard, GuardRefuses, Refuse, IssueCode, Commit, CommitFails,
         Reload, TimeOut, Record, InvalidationFails, Notify, Answer, Close, CodesNext, vars,
         services
<1> QED BY <1>1, <1>2, PTL DEF Spec, CodesSpec

\* The same of the statistics: their figures only ever change under the lock.
THEOREM ServerUsesStats == Spec => StatsSpec
<1>1. Init => StatsInit
  BY DEF Init
<1>2. [Next]_vars => [StatsNext]_statsVars
  BY DEF Next, Step, TakeThread, Guard, GuardRefuses, Refuse, IssueCode, Commit, CommitFails,
         Reload, TimeOut, Record, InvalidationFails, Notify, Answer, Close, StatsNext, vars,
         services
<1> QED BY <1>1, <1>2, PTL DEF Spec, StatsSpec

(***************************************************************************)
(* For any number of requests: no two creations get the same code, no      *)
(* update of a room's revenue is lost, and of its count only cancellations *)
(* that came first.                                                        *)
(***************************************************************************)
THEOREM ServerLosesNothing ==
    Spec => [](ReturnedCodesDiffer /\ NoLostUpdate /\ CountLosesOnlyEarlyCancels)
BY ServerUsesCodes, ServerUsesStats, CodesDiffer, RevenueLosesNothing, CountLosesLittle, PTL

-----------------------------------------------------------------------------
(***************************************************************************)
(* Whoever has sent his mail and not yet written his audit entry holds     *)
(* _email_lock, and his mail is the one that the audit log lacks.          *)
(***************************************************************************)
NotesInv ==
    /\ NotesTypeOK
    /\ \A c \in Notifiers : notePc[c] \in {"mailed", "audited"} => holder["email"] = c
    /\ \A c \in Notifiers : notePc[c] = "mailed" => emails = Append(audit, c)
    /\ (\A c \in Notifiers : notePc[c] # "mailed") => emails = audit

\* Every step of a notification keeps mails and audit log together.
LEMMA NotesInvStep ==
    ASSUME NotesInv, NEW c \in Notifiers, NoteStep(c) PROVE NotesInv'
<1> USE CallsAssumption DEF NotesInv, NotesTypeOK, Locks, Notifiers, Order, Work
<1>1. CASE TakeOuter(c)
  <2>1. \A d \in Notifiers : notePc[d] \notin {"mailed", "audited"}
    BY <1>1 DEF TakeOuter
  <2>2. emails = audit /\ emails' = Append(audit, c) /\ audit' = audit
    BY <1>1, <2>1 DEF TakeOuter
  <2> QED BY <1>1, <2>1, <2>2 DEF TakeOuter
<1>2. CASE TakeInner(c)
  <2>1. emails = Append(audit, c) /\ audit' = Append(audit, c) /\ emails' = emails
    BY <1>2 DEF TakeInner
  <2>2. \A d \in Notifiers : notePc[d] \in {"mailed", "audited"} => d = c
    BY <1>2 DEF TakeInner
  <2> QED BY <1>2, <2>1, <2>2 DEF TakeInner
<1>3. CASE LeaveBoth(c)
  <2>1. \A d \in Notifiers : d # c => notePc[d] \notin {"mailed", "audited"}
    BY <1>3 DEF LeaveBoth
  <2>2. emails = audit
    BY <1>3, <2>1 DEF LeaveBoth
  <2> QED BY <1>3, <2>1, <2>2 DEF LeaveBoth
<1> QED BY <1>1, <1>2, <1>3 DEF NoteStep

\* For any number of requests: the audit log is the mails in their order, at
\* most one behind.
THEOREM AuditAlwaysFollowsMail == Spec => []AuditFollowsMail
<1>1. Init => NotesInv
  BY DEF Init, NotesInit, NotesInv, NotesTypeOK, Locks
<1>2. NotesInv /\ [Next]_vars => NotesInv'
  <2> SUFFICES ASSUME NotesInv, [Next]_vars PROVE NotesInv'
    OBVIOUS
  <2>1. (\E c \in Notifiers : NoteStep(c)) \/ UNCHANGED noteVars
    BY DEF Next, Step, TakeThread, Guard, GuardRefuses, Refuse, IssueCode, Commit, CommitFails,
           Reload, TimeOut, Record, InvalidationFails, Notify, Answer, Close, vars, services
  <2>2. CASE UNCHANGED noteVars
    BY <2>2 DEF NotesInv, NotesTypeOK, noteVars
  <2> QED BY <2>1, <2>2, NotesInvStep
<1>3. NotesInv => AuditFollowsMail
  <2> SUFFICES ASSUME NotesInv PROVE AuditFollowsMail
    OBVIOUS
  <2>1. audit \in Seq(Notifiers) /\ emails \in Seq(Notifiers)
    BY DEF NotesInv, NotesTypeOK
  <2>2. emails = audit \/ \E c \in Notifiers : emails = Append(audit, c)
    BY DEF NotesInv
  <2> QED BY <2>1, <2>2 DEF AuditFollowsMail, IsPrefix
<1> QED BY <1>1, <1>2, <1>3, PTL DEF Spec

-----------------------------------------------------------------------------
(***************************************************************************)
(* What a request holds at each stage.                                     *)
(***************************************************************************)
NotesHeld ==
    /\ holder \in [Locks -> Notifiers \cup {None}]
    /\ notePc \in [Notifiers -> {"call", "mailed", "audited", "returned"}]

Holdings(c) ==
    /\ c \in threads <=> stage[c] \in {"guarding", "handling", "stored", "reporting"}
    /\ c \in pooled => stage[c] \in {"guarded", "handling", "reporting", "closing"}
    /\ counterLock = c => stage[c] = "handling" /\ c \in Creates /\ codePc[c] = "pause"
    /\ statsLock = c => /\ statsPc[c] = "pause"
                        /\ stage[c] = IF c \in Gets THEN "handling" ELSE "reporting"
    /\ \A k \in Locks : holder[k] = c =>
          c \in Notifiers /\ stage[c] = "reporting" /\ notePc[c] \in {"mailed", "audited"}

Reports(c) ==
    c \in Notifiers =>
        /\ stage[c] \in {"arrived", "guarding", "guarded", "handling", "stored"} => statsPc[c] = "call"
        /\ notePc[c] # "call" => statsPc[c] = "returned"
        /\ reply[c] = "done" => statsPc[c] = "returned"
        /\ stage[c] \in {"stored", "reporting"} => c \in database
        /\ statsPc[c] # "call" => c \in database

ServerInv ==
    /\ ServerTypeOK /\ NotesHeld
    /\ \A c \in Calls : Holdings(c) /\ Reports(c)

\* The kinds of calls, told apart.
LEMMA CallKinds ==
    /\ Creates \subseteq Calls /\ Notifiers \subseteq Calls /\ Gets \subseteq Calls
    /\ Notifiers = Creates \cup Cancels /\ Gets \cap Notifiers = {}
    /\ None \notin Calls
BY CallsAssumption DEF Calls, Notifiers

ServicesTyped == CodesTypeOK /\ StatsTypeOK

\* The services of the server are in states of their modules.
LEMMA ServicesTypedAlways == Spec => []ServicesTyped
<1>1. CounterLockInv /\ StatsLockInv => ServicesTyped
  BY DEF CounterLockInv, StatsLockInv, ServicesTyped
<1> QED BY <1>1, ServerUsesCodes, ServerUsesStats, CounterLockInvAlways, StatsLockInvAlways, PTL

\* Requests that move between threads and connections, and touch no service.
LEMMA MoveKeepsServerInv ==
    ASSUME ServerInv, ServicesTyped, NEW c \in Calls,
           \/ TakeThread(c) \/ Guard(c) \/ GuardRefuses(c) \/ Refuse(c)
           \/ Commit(c) \/ CommitFails(c) \/ Reload(c) \/ TimeOut(c)
           \/ InvalidationFails(c) \/ Answer(c) \/ Close(c)
    PROVE  ServerInv'
<1> USE CallKinds DEF ServerInv, ServicesTyped
<1>1. UNCHANGED services
  BY DEF TakeThread, Guard, GuardRefuses, Refuse, Commit, CommitFails, Reload, TimeOut,
         InvalidationFails, Answer, Close, services
<1>2. NotesHeld'
  BY <1>1 DEF NotesHeld, services, noteVars
<1>3. CASE TakeThread(c)
  BY <1>1, <1>2, <1>3 DEF TakeThread, Move, ServerTypeOK, Stages, Replies, Holdings, Reports,
     services, codeVars, statsVars, noteVars
<1>4. CASE Guard(c)
  BY <1>1, <1>2, <1>4 DEF Guard, Move, ServerTypeOK, Stages, Replies, Holdings, Reports,
     services, codeVars, statsVars, noteVars
<1>5. CASE GuardRefuses(c)
  BY <1>1, <1>2, <1>5 DEF GuardRefuses, Leave, ServerTypeOK, Stages, Replies, Holdings, Reports,
     services, codeVars, statsVars, noteVars
<1>6. CASE Refuse(c)
  BY <1>1, <1>2, <1>6 DEF Refuse, Leave, ServerTypeOK, Stages, Replies, Holdings, Reports,
     services, codeVars, statsVars, noteVars
<1>7. CASE Commit(c)
  BY <1>1, <1>2, <1>7 DEF Commit, AtCommit, Move, ServerTypeOK, Stages, Replies, Holdings, Reports,
     services, codeVars, statsVars, noteVars
<1>8. CASE Reload(c)
  BY <1>1, <1>2, <1>8 DEF Reload, Move, ServerTypeOK, Stages, Replies, Holdings, Reports,
     services, codeVars, statsVars, noteVars
<1>9. CASE TimeOut(c)
  BY <1>1, <1>2, <1>9 DEF TimeOut, Leave, ServerTypeOK, Stages, Replies, Holdings, Reports,
     services, codeVars, statsVars, noteVars
<1>10. CASE Answer(c)
  BY <1>1, <1>2, <1>10 DEF Answer, Leave, ServerTypeOK, Stages, Replies, Holdings, Reports,
     services, codeVars, statsVars, noteVars
<1>11. CASE Close(c)
  BY <1>1, <1>2, <1>11 DEF Close, Move, ServerTypeOK, Stages, Replies, Holdings, Reports,
     services, codeVars, statsVars, noteVars
<1>12. CASE CommitFails(c)
  BY <1>1, <1>2, <1>12 DEF CommitFails, AtCommit, Leave, ServerTypeOK, Stages, Replies, Holdings,
     Reports, services, codeVars, statsVars, noteVars
<1>13. CASE InvalidationFails(c)
  <2>1. \A k \in Locks : holder[k] # c
    BY <1>13 DEF InvalidationFails, Holdings, Locks
  <2> QED
    BY <1>1, <1>2, <1>13, <2>1 DEF InvalidationFails, Leave, ServerTypeOK, Stages, Replies,
       Holdings, Reports, services, codeVars, statsVars, noteVars
<1> QED BY <1>3, <1>4, <1>5, <1>6, <1>7, <1>8, <1>9, <1>10, <1>11, <1>12, <1>13

\* Requests inside a service, which stay where they are.
LEMMA ServiceKeepsServerInv ==
    ASSUME ServerInv, ServicesTyped, NEW c \in Calls,
           IssueCode(c) \/ Record(c) \/ Notify(c)
    PROVE  ServerInv'
<1> USE CallKinds DEF ServerInv, ServicesTyped
<1>1. UNCHANGED serverVars /\ ServerTypeOK'
  BY DEF IssueCode, Record, Notify, serverVars, ServerTypeOK
<1>2. CASE IssueCode(c)
  BY <1>1, <1>2 DEF IssueCode, EnterCounter, LeaveCounter, NotesHeld, Holdings, Reports, CodesTypeOK,
     serverVars, statsVars, noteVars
<1>3. CASE Record(c)
  BY <1>1, <1>3 DEF Record, EnterStats, LeaveStats, NotesHeld, Holdings, Reports, StatsTypeOK,
     serverVars, codeVars, noteVars
<1>4. CASE Notify(c)
  BY <1>1, <1>4 DEF Notify, NoteStep, TakeOuter, TakeInner, LeaveBoth, Work, Order, Locks,
     NotesHeld, Holdings, Reports, serverVars, codeVars, statsVars
<1> QED BY <1>2, <1>3, <1>4

\* What a request holds is what its stage says.
THEOREM ServerInvAlways == Spec => []ServerInv
<1>1. Init => ServerInv
  BY CallKinds DEF Init, CodesInit, StatsInit, NotesInit, ServerInv, ServerTypeOK, NotesHeld,
     Holdings, Reports, Stages, Replies, Locks
<1>2. ServerInv /\ ServicesTyped /\ [Next]_vars => ServerInv'
  <2> SUFFICES ASSUME ServerInv, ServicesTyped, [Next]_vars PROVE ServerInv'
    OBVIOUS
  <2>1. CASE UNCHANGED vars
    BY <2>1 DEF ServerInv, ServerTypeOK, NotesHeld, Holdings, Reports, vars, codeVars,
       statsVars, noteVars, serverVars
  <2> QED BY <2>1, MoveKeepsServerInv, ServiceKeepsServerInv DEF Next, Step
<1> QED BY <1>1, <1>2, ServicesTypedAlways, PTL DEF Spec

-----------------------------------------------------------------------------
\* For any number of requests, threads and connections: a request that is over
\* holds no thread, no connection and no lock.
THEOREM NothingEverLeaks == Spec => []NothingLeaks
<1>1. ServerInv => NothingLeaks
  BY CallKinds DEF ServerInv, Holdings, NothingLeaks, HoldsLock
<1> QED BY <1>1, ServerInvAlways, PTL

\* Nobody ever waits for a thread or a connection while he holds a lock.
THEOREM LocksAreNeverHeldUp == Spec => []LocksAreNotHeldUp
<1>1. ServerInv => LocksAreNotHeldUp
  BY CallKinds DEF ServerInv, Holdings, LocksAreNotHeldUp, HoldsLock
<1> QED BY <1>1, ServerInvAlways, PTL

Jammed == InProgress # {} /\ \A c \in InProgress : Starved(c)

\* In a jam both pools are used up, by requests that wait for the other one.
LEMMA JamFillsBoth ==
    ASSUME ServerInv, Jammed
    PROVE  /\ ~ThreadFree /\ ~ConnectionFree
           /\ threads # {} /\ threads \subseteq InProgress /\ pooled \subseteq InProgress
           /\ \A c \in threads : stage[c] \in {"guarding", "stored"}
           /\ \A c \in pooled : stage[c] = "guarded"
<1>1. threads \subseteq Calls /\ pooled \subseteq Calls
  BY DEF ServerInv, ServerTypeOK
<1>2. threads \subseteq InProgress /\ pooled \subseteq InProgress
  BY <1>1 DEF ServerInv, Holdings, InProgress
<1>3. \A c \in threads : stage[c] \in {"guarding", "stored"} /\ ~ConnectionFree
  BY <1>1, <1>2 DEF ServerInv, Holdings, Starved, Jammed
<1>4. \A c \in pooled : stage[c] = "guarded" /\ ~ThreadFree
  BY <1>1, <1>2 DEF ServerInv, Holdings, Starved, Jammed
<1>5. (~ThreadFree => threads # {}) /\ (~ConnectionFree => pooled # {})
  BY ServerAssumption, FS_EmptySet DEF ThreadFree, ConnectionFree
<1>6. ~ThreadFree \/ ~ConnectionFree
  BY DEF Jammed, Starved
<1> QED BY <1>2, <1>3, <1>4, <1>5, <1>6

\* For any size of the pools: they cannot block one another with fewer requests
\* in progress than they have threads and connections together.
THEOREM JamTakesThreadsAndPool == Spec => []JamNeedsThreadsAndPool
<1>1. ServerInv => JamNeedsThreadsAndPool
  <2> SUFFICES ASSUME ServerInv, Jammed
               PROVE  Cardinality(InProgress) >= THREADS + POOL
    BY DEF JamNeedsThreadsAndPool, Jammed
  <2>1. /\ InProgress \in SUBSET Calls /\ IsFiniteSet(Calls)
        /\ THREADS \in Nat /\ POOL \in Nat
    BY ServerAssumption DEF InProgress
  <2>2. /\ threads \in SUBSET InProgress /\ pooled \in SUBSET InProgress
        /\ threads \cap pooled = {}
        /\ ~ThreadFree /\ ~ConnectionFree
    BY JamFillsBoth
  <2>3. IsFiniteSet(InProgress) /\ Cardinality(InProgress) \in Nat
    BY <2>1, FS_Subset, FS_CardinalityType
  <2>4. /\ IsFiniteSet(threads) /\ Cardinality(threads) \in Nat
        /\ IsFiniteSet(pooled) /\ Cardinality(pooled) \in Nat
    BY <2>2, <2>3, FS_Subset, FS_CardinalityType
  <2>5. Cardinality(threads) >= THREADS /\ Cardinality(pooled) >= POOL
    BY <2>1, <2>2, <2>4 DEF ThreadFree, ConnectionFree
  <2>6. Cardinality(threads \cup pooled) = Cardinality(threads) + Cardinality(pooled)
    <3>1. Cardinality(threads \cap pooled) = 0
      BY <2>2, FS_EmptySet
    <3>2. Cardinality(threads \cup pooled) =
            Cardinality(threads) + Cardinality(pooled) - Cardinality(threads \cap pooled)
      BY <2>4, FS_Union
    <3> QED BY <2>4, <3>1, <3>2
  <2>7. Cardinality(threads \cup pooled) <= Cardinality(InProgress)
    <3>1. threads \cup pooled \in SUBSET InProgress
      BY <2>2
    <3> QED BY <2>3, <3>1, FS_Subset
  <2> QED BY <2>1, <2>3, <2>4, <2>5, <2>6, <2>7
<1> QED BY <1>1, ServerInvAlways, PTL

\* Whatever times out, fails or is refused, at every instant: the statistics add
\* up to creations and cancellations that are stored, all the successful ones
\* among them.
THEOREM StatsAlwaysCoverWhatWasDone == Spec => []StatsCoverWhatWasDone
<1>1. ServerInv /\ NoLostUpdate => StatsCoverWhatWasDone
  <2> SUFFICES ASSUME ServerInv, NoLostUpdate, NEW m \in Rooms
               PROVE  \E counted \in SUBSET {c \in database : room[c] = m} :
                        /\ {c \in Notifiers : room[c] = m /\ reply[c] = "done"} \subseteq counted
                        /\ stats[m].revenue = Price * (Cardinality(counted \cap Creates)
                                                       - Cardinality(counted \cap Cancels))
    BY DEF StatsCoverWhatWasDone
  <2> DEFINE counted == {c \in Notifiers : statsPc[c] = "returned" /\ room[c] = m}
  <2>1. counted \subseteq {c \in database : room[c] = m}
    BY CallKinds DEF ServerInv, Reports
  <2>2. {c \in Notifiers : room[c] = m /\ reply[c] = "done"} \subseteq counted
    BY CallKinds DEF ServerInv, Reports
  <2>3. counted \cap Creates = Recorded(Creates, m) /\ counted \cap Cancels = Recorded(Cancels, m)
    BY CallKinds DEF Recorded
  <2> HIDE DEF counted
  <2>4. stats[m].revenue = Price * (Cardinality(counted \cap Creates)
                                    - Cardinality(counted \cap Cancels))
    BY <2>3 DEF NoLostUpdate
  <2> QED BY <2>1, <2>2, <2>4
<1> QED BY <1>1, ServerInvAlways, ServerLosesNothing, PTL

-----------------------------------------------------------------------------
(***************************************************************************)
(* Why every request is answered.  As long as one is in progress somebody  *)
(* can take a step, a request takes at most fourteen, and one that is over *)
(* has its reply; under a scheduler that always lets somebody move, that   *)
(* is EveryRequestAnswered.                                                *)
(***************************************************************************)
ProgressInv ==
    \A c \in Calls :
        /\ stage[c] \in {"stored", "reporting"} => c \in Notifiers
        /\ stage[c] \in {"closing", "closed"} => reply[c] # "none"
        /\ holder["audit"] = c => notePc[c] = "audited"

\* The guards of the steps of c other than its refusals and its timeout.
Proceeds(c) ==
    \/ stage[c] \in {"arrived", "guarded"} /\ ThreadFree
    \/ stage[c] \in {"guarding", "stored"} /\ ConnectionFree
    \/ /\ c \in Creates /\ stage[c] = "handling"
       /\ \/ codePc[c] = "call" /\ counterLock = None
          \/ codePc[c] = "pause"
    \/ /\ c \in Notifiers /\ stage[c] = "handling"
       /\ c \in Creates => codePc[c] = "returned"
    \/ /\ stage[c] = IF c \in Gets THEN "handling" ELSE "reporting"
       /\ \/ statsPc[c] = "call" /\ statsLock = None
          \/ statsPc[c] = "pause"
    \/ /\ c \in Notifiers /\ stage[c] = "reporting" /\ statsPc[c] = "returned"
       /\ \/ notePc[c] = "call" /\ holder["email"] = None
          \/ notePc[c] = "mailed" /\ holder["audit"] = None
          \/ notePc[c] \in {"audited", "returned"}
    \/ c \in Gets /\ stage[c] = "handling" /\ statsPc[c] = "returned"
    \/ stage[c] = "closing"

\* The guard of TimeOut.
MayTimeOut(c) == stage[c] \in {"guarding", "stored"} /\ ~ConnectionFree

\* Some request can go on without giving up, or the two pools are jammed and
\* one that waits for a connection gives up.
SomebodyMoves ==
    InProgress # {} =>
        \/ \E c \in Calls : Proceeds(c)
        \/ Jammed /\ \E c \in Calls : MayTimeOut(c)

\* The steps a request has still to take, at most.
PauseRank(p) == CASE p = "call" -> 2 [] p = "pause" -> 1 [] p = "returned" -> 0
NoteRank(p) == CASE p = "call" -> 3 [] p = "mailed" -> 2 [] p = "audited" -> 1 [] p = "returned" -> 0
StageRank(s) ==
    CASE s = "arrived" -> 7 [] s = "guarding" -> 6 [] s = "guarded" -> 5 [] s = "handling" -> 4
      [] s = "stored" -> 3 [] s = "reporting" -> 2 [] s = "closing" -> 1 [] s = "closed" -> 0

Rank(c) ==
    StageRank(stage[c])
    + (IF c \in Creates THEN PauseRank(codePc[c]) ELSE 0)
    + PauseRank(statsPc[c])
    + (IF c \in Notifiers THEN NoteRank(notePc[c]) ELSE 0)

RanksAreBounded == \A c \in Calls : Rank(c) \in 0..14

EveryStepCounts ==
    [][\E c \in Calls : /\ Rank(c)' < Rank(c)
                        /\ \A d \in Calls \ {c} : Rank(d)' = Rank(d)]_vars

\* The ranks of the program counters are small numbers.
LEMMA RankTypes ==
    /\ \A p \in {"call", "pause", "returned"} : PauseRank(p) \in 0..2
    /\ \A p \in {"call", "mailed", "audited", "returned"} : NoteRank(p) \in 0..3
    /\ \A s \in Stages : StageRank(s) \in 0..7
BY DEF PauseRank, NoteRank, StageRank, Stages

\* In every state of the server a request has at most fourteen steps to take.
LEMMA RankBound == ServerInv /\ ServicesTyped => RanksAreBounded
<1> SUFFICES ASSUME ServerInv, ServicesTyped, NEW c \in Calls PROVE Rank(c) \in 0..14
  BY DEF RanksAreBounded
<1>1. StageRank(stage[c]) \in 0..7
  BY RankTypes DEF ServerInv, ServerTypeOK
<1>2. c \in Creates => PauseRank(codePc[c]) \in 0..2
  BY RankTypes DEF ServicesTyped, CodesTypeOK
<1>3. PauseRank(statsPc[c]) \in 0..2
  BY RankTypes DEF ServicesTyped, StatsTypeOK
<1>4. c \in Notifiers => NoteRank(notePc[c]) \in 0..3
  BY RankTypes DEF ServerInv, NotesHeld
<1> QED BY <1>1, <1>2, <1>3, <1>4 DEF Rank

\* A step that moves a request on to a later stage, and calls no service.
LEMMA MoveCounts ==
    ASSUME ServerInv, ServicesTyped, NEW c \in Calls, NEW s \in Stages,
           StageRank(s) < StageRank(stage[c]),
           stage' = [stage EXCEPT ![c] = s], UNCHANGED services
    PROVE  /\ Rank(c)' < Rank(c)
           /\ \A d \in Calls \ {c} : Rank(d)' = Rank(d)
<1>1. UNCHANGED <<codePc, statsPc, notePc>>
  BY DEF services, codeVars, statsVars, noteVars
<1>2. stage'[c] = s /\ \A d \in Calls \ {c} : stage'[d] = stage[d]
  BY DEF ServerInv, ServerTypeOK
<1>3. \A d \in Calls \ {c} : Rank(d)' = Rank(d)
  BY <1>1, <1>2 DEF Rank
<1>4. StageRank(s) \in Int /\ StageRank(stage[c]) \in Int
  BY RankTypes DEF ServerInv, ServerTypeOK
<1>5. c \in Creates => PauseRank(codePc[c]) \in Int
  BY RankTypes DEF ServicesTyped, CodesTypeOK
<1>6. PauseRank(statsPc[c]) \in Int
  BY RankTypes DEF ServicesTyped, StatsTypeOK
<1>7. c \in Notifiers => NoteRank(notePc[c]) \in Int
  BY RankTypes DEF ServerInv, NotesHeld
<1>8. Rank(c)' < Rank(c)
  BY <1>1, <1>2, <1>4, <1>5, <1>6, <1>7 DEF Rank
<1> QED BY <1>3, <1>8

\* A step inside a service, by a request that stays where it is.
LEMMA ServiceCounts ==
    ASSUME ServerInv, ServicesTyped, NEW c \in Calls, IssueCode(c) \/ Record(c) \/ Notify(c)
    PROVE  /\ Rank(c)' < Rank(c)
           /\ \A d \in Calls \ {c} : Rank(d)' = Rank(d)
<1> DEFINE Stage(d) == StageRank(stage[d])
           Code(d) == IF d \in Creates THEN PauseRank(codePc[d]) ELSE 0
           Stat(d) == PauseRank(statsPc[d])
           Note(d) == IF d \in Notifiers THEN NoteRank(notePc[d]) ELSE 0
<1>1. /\ Stage(c) \in Int /\ Code(c) \in Int /\ Stat(c) \in Int /\ Note(c) \in Int
  BY RankTypes DEF ServerInv, ServerTypeOK, ServicesTyped, CodesTypeOK, StatsTypeOK, NotesHeld
<1>2. \A d \in Calls : Rank(d) = Stage(d) + Code(d) + Stat(d) + Note(d)
  BY DEF Rank
<1>3. \A d \in Calls : Rank(d)' = Stage(d)' + Code(d)' + Stat(d)' + Note(d)'
  BY DEF Rank
<1>4. \A d \in Calls : Stage(d)' = Stage(d)
  BY DEF IssueCode, Record, Notify, serverVars
<1>5. CASE IssueCode(c)
  <2>1. \A d \in Calls : Stat(d)' = Stat(d) /\ Note(d)' = Note(d)
    BY <1>5 DEF IssueCode, statsVars, noteVars
  <2>2. \A d \in Calls \ {c} : Code(d)' = Code(d)
    BY <1>5 DEF IssueCode, EnterCounter, LeaveCounter, ServicesTyped, CodesTypeOK
  <2>3. Code(c)' \in Int /\ Code(c)' < Code(c)
    BY <1>5 DEF IssueCode, EnterCounter, LeaveCounter, ServicesTyped, CodesTypeOK, PauseRank
  <2> HIDE DEF Stage, Code, Stat, Note
  <2> QED BY <1>1, <1>2, <1>3, <1>4, <2>1, <2>2, <2>3
<1>6. CASE Record(c)
  <2>1. \A d \in Calls : Code(d)' = Code(d) /\ Note(d)' = Note(d)
    BY <1>6 DEF Record, codeVars, noteVars
  <2>2. \A d \in Calls \ {c} : Stat(d)' = Stat(d)
    BY <1>6 DEF Record, EnterStats, LeaveStats, ServicesTyped, StatsTypeOK
  <2>3. Stat(c)' \in Int /\ Stat(c)' < Stat(c)
    BY <1>6 DEF Record, EnterStats, LeaveStats, ServicesTyped, StatsTypeOK, PauseRank
  <2> HIDE DEF Stage, Code, Stat, Note
  <2> QED BY <1>1, <1>2, <1>3, <1>4, <2>1, <2>2, <2>3
<1>7. CASE Notify(c)
  <2>1. \A d \in Calls : Code(d)' = Code(d) /\ Stat(d)' = Stat(d)
    BY <1>7 DEF Notify, codeVars, statsVars
  <2>2. \A d \in Calls \ {c} : Note(d)' = Note(d)
    BY <1>7 DEF Notify, NoteStep, TakeOuter, TakeInner, LeaveBoth, ServerInv, NotesHeld
  <2>3. Note(c)' \in Int /\ Note(c)' < Note(c)
    BY <1>7 DEF Notify, NoteStep, TakeOuter, TakeInner, LeaveBoth, ServerInv, NotesHeld, NoteRank
  <2> HIDE DEF Stage, Code, Stat, Note
  <2> QED BY <1>1, <1>2, <1>3, <1>4, <2>1, <2>2, <2>3
<1> QED BY <1>5, <1>6, <1>7

\* For any number of requests, threads and connections: every step of the
\* server is one that its request will not have to take again.
THEOREM EveryStepIsCounted == Spec => EveryStepCounts
<1>1. ASSUME ServerInv, ServicesTyped, NEW c \in Calls, Step(c)
      PROVE  /\ Rank(c)' < Rank(c)
             /\ \A d \in Calls \ {c} : Rank(d)' = Rank(d)
  <2>1. CASE IssueCode(c) \/ Record(c) \/ Notify(c)
    BY <1>1, <2>1, ServiceCounts
  <2>2. ASSUME NEW s \in Stages, stage' = [stage EXCEPT ![c] = s], UNCHANGED services,
               StageRank(s) < StageRank(stage[c])
        PROVE  /\ Rank(c)' < Rank(c)
               /\ \A d \in Calls \ {c} : Rank(d)' = Rank(d)
    BY <1>1, <2>2, MoveCounts
  <2>3. CASE TakeThread(c) \/ Guard(c) \/ Commit(c) \/ Reload(c) \/ Close(c)
    BY <2>2, <2>3 DEF TakeThread, Guard, Commit, Reload, Close, Move, StageRank, Stages
  <2>4. CASE GuardRefuses(c) \/ Refuse(c) \/ TimeOut(c) \/ Answer(c)
    BY <2>2, <2>4 DEF GuardRefuses, Refuse, TimeOut, Answer, Leave, StageRank, Stages
  <2>5. CASE CommitFails(c) \/ InvalidationFails(c)
    BY <2>2, <2>5 DEF CommitFails, AtCommit, InvalidationFails, Leave, StageRank, Stages
  <2> QED BY <1>1, <2>1, <2>3, <2>4, <2>5 DEF Step
<1>2. ServerInv /\ ServicesTyped /\ [Next]_vars
      => [\E c \in Calls : /\ Rank(c)' < Rank(c)
                           /\ \A d \in Calls \ {c} : Rank(d)' = Rank(d)]_vars
  BY <1>1 DEF Next
<1> QED BY <1>2, ServerInvAlways, ServicesTypedAlways, PTL DEF Spec, EveryStepCounts

\* No request of the server ever has more than fourteen steps to take.
THEOREM RanksAreAlwaysBounded == Spec => []RanksAreBounded
BY RankBound, ServerInvAlways, ServicesTypedAlways, PTL

\* Nobody is over without a reply, and whoever holds the inner lock of the
\* notifications has only to leave.
THEOREM ProgressInvAlways == Spec => []ProgressInv
<1> USE CallKinds
<1>1. Init => ProgressInv
  BY DEF Init, NotesInit, ProgressInv, Locks
<1>2. ServerInv /\ ProgressInv /\ [Next]_vars => ProgressInv'
  <2> SUFFICES ASSUME ServerInv, ProgressInv, [Next]_vars PROVE ProgressInv'
    OBVIOUS
  <2>1. CASE UNCHANGED vars
    BY <2>1 DEF ProgressInv, vars, noteVars, serverVars
  <2> SUFFICES ASSUME NEW c \in Calls, Step(c) PROVE ProgressInv'
    BY <2>1 DEF Next
  <2> USE DEF ServerInv, ServerTypeOK
  <2>2. CASE TakeThread(c) \/ Guard(c) \/ Commit(c) \/ Reload(c) \/ Close(c)
    BY <2>2 DEF ProgressInv, TakeThread, Guard, Commit, AtCommit, Reload, Close, Move, services,
       noteVars
  <2>3. CASE GuardRefuses(c) \/ Refuse(c) \/ TimeOut(c) \/ Answer(c)
    BY <2>3 DEF ProgressInv, GuardRefuses, Refuse, TimeOut, Answer, Leave, services, noteVars
  <2>6. CASE CommitFails(c) \/ InvalidationFails(c)
    BY <2>6 DEF ProgressInv, CommitFails, InvalidationFails, Leave, services, noteVars
  <2>4. CASE IssueCode(c) \/ Record(c)
    BY <2>4 DEF ProgressInv, IssueCode, Record, serverVars, noteVars
  <2>5. CASE Notify(c)
    BY <2>5 DEF ProgressInv, Notify, NoteStep, TakeOuter, TakeInner, LeaveBoth, Work, Order,
       Locks, NotesHeld, serverVars
  <2> QED BY <2>2, <2>3, <2>4, <2>5, <2>6 DEF Step
<1> QED BY <1>1, <1>2, ServerInvAlways, PTL DEF Spec

\* Who holds a lock can go on, or the holder of the next lock can.
LEMMA HoldersProceed ==
    ASSUME ServerInv, ServicesTyped, ProgressInv
    PROVE  /\ counterLock # None => \E d \in Calls : Proceeds(d)
           /\ statsLock # None => \E d \in Calls : Proceeds(d)
           /\ \A k \in Locks : holder[k] # None => \E d \in Calls : Proceeds(d)
<1> USE CallKinds
<1>1. ASSUME counterLock # None PROVE \E d \in Calls : Proceeds(d)
  BY <1>1 DEF ServerInv, Holdings, ServicesTyped, CodesTypeOK, Proceeds
<1>2. ASSUME statsLock # None PROVE \E d \in Calls : Proceeds(d)
  BY <1>2 DEF ServerInv, Holdings, ServicesTyped, StatsTypeOK, Proceeds
<1>3. \A k \in Locks : holder[k] \in Notifiers \cup {None}
  BY DEF ServerInv, NotesHeld
<1>4. ASSUME holder["audit"] # None PROVE \E d \in Calls : Proceeds(d)
  <2>1. PICK d \in Notifiers : holder["audit"] = d
    BY <1>3, <1>4 DEF Locks
  <2>2. notePc[d] = "audited" /\ stage[d] = "reporting" /\ statsPc[d] = "returned"
    BY <2>1 DEF ServerInv, Holdings, Reports, ProgressInv, Locks
  <2> QED BY <2>2 DEF Proceeds
<1>5. ASSUME holder["email"] # None PROVE \E d \in Calls : Proceeds(d)
  <2>1. PICK d \in Notifiers : holder["email"] = d
    BY <1>3, <1>5 DEF Locks
  <2>2. /\ notePc[d] \in {"mailed", "audited"}
        /\ stage[d] = "reporting" /\ statsPc[d] = "returned"
    BY <2>1 DEF ServerInv, Holdings, Reports, Locks
  <2> QED BY <1>4, <2>2 DEF Proceeds
<1> QED BY <1>1, <1>2, <1>4, <1>5 DEF Locks

\* A request that is not starved can go on, or waits for a lock whose holder
\* can.
LEMMA UnlessStarvedSomebodyProceeds ==
    ASSUME ServerInv, ServicesTyped, ProgressInv, NEW c \in InProgress, ~Starved(c)
    PROVE  \E d \in Calls : Proceeds(d)
<1> USE CallKinds DEF ServicesTyped
<1>1. c \in Calls /\ stage[c] \in Stages \ {"closed"}
  BY DEF InProgress, ServerInv, ServerTypeOK
<1>2. CASE stage[c] \in {"arrived", "guarding", "guarded", "stored", "closing"}
  BY <1>1, <1>2 DEF Proceeds, Starved
<1>3. CASE stage[c] = "handling" /\ c \in Creates
  BY <1>1, <1>3, HoldersProceed DEF Proceeds, CodesTypeOK
<1>4. CASE stage[c] = "handling" /\ c \in Cancels
  BY <1>1, <1>4, CallsAssumption DEF Proceeds
<1>5. CASE stage[c] = "handling" /\ c \in Gets
  BY <1>1, <1>5, HoldersProceed DEF Proceeds, StatsTypeOK
<1>6. CASE stage[c] = "reporting"
  <2>1. c \in Notifiers /\ c \notin Gets
    BY <1>1, <1>6 DEF ProgressInv
  <2>2. CASE statsPc[c] # "returned"
    BY <1>1, <1>6, <2>1, <2>2, HoldersProceed DEF Proceeds, StatsTypeOK
  <2>3. CASE statsPc[c] = "returned"
    BY <1>1, <1>6, <2>1, <2>3, HoldersProceed DEF Proceeds, ServerInv, NotesHeld, Locks
  <2> QED BY <2>2, <2>3
<1> QED BY <1>1, <1>2, <1>3, <1>4, <1>5, <1>6 DEF Stages, Calls

\* For any number of requests, threads and connections: the server never
\* stops.  Only a jam of its two pools takes a timeout to go on.
THEOREM SomebodyAlwaysMoves == Spec => []SomebodyMoves
<1>1. ServerInv /\ ServicesTyped /\ ProgressInv => SomebodyMoves
  <2> SUFFICES ASSUME ServerInv, ServicesTyped, ProgressInv, InProgress # {},
                      ~ \E c \in Calls : Proceeds(c)
               PROVE  Jammed /\ \E c \in Calls : MayTimeOut(c)
    BY DEF SomebodyMoves
  <2>1. Jammed
    BY UnlessStarvedSomebodyProceeds DEF Jammed
  <2> QED BY <2>1, JamFillsBoth DEF MayTimeOut, InProgress
<1> QED BY <1>1, ServerInvAlways, ServicesTypedAlways, ProgressInvAlways, PTL
=============================================================================
