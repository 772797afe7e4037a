------------------------------ MODULE RoomStats ------------------------------
(***************************************************************************)
(* The live statistics of services/stats.py: record_create and             *)
(* record_cancel read a room's figures, pause and write them back under    *)
(* _stats_lock; get copies them under the same lock.                       *)
(***************************************************************************)
EXTENDS ServiceCalls, Integers, FiniteSets

CONSTANTS Rooms, Price  \* the price_cents each update carries

NoFigures == [count |-> 0, revenue |-> 0]
Figures == [count : Nat, revenue : Int]

ASSUME StatsAssumption == Price \in Nat

VARIABLES statsLock,  \* the holder of _stats_lock, or None
          stats,  \* _stats, with the default of an absent room
          room,   \* the argument of each call
          read,   \* the figures each call read
          statsPc

statsVars == <<statsLock, stats, room, read, statsPc>>

StatsTypeOK ==
    /\ statsLock \in Calls \cup {None}
    /\ stats \in [Rooms -> Figures]
    /\ room \in [Calls -> Rooms]
    /\ read \in [Calls -> Figures]
    /\ statsPc \in [Calls -> {"call", "pause", "returned"}]

StatsInit ==
    /\ statsLock = None
    /\ stats = [m \in Rooms |-> NoFigures]
    /\ room \in [Calls -> Rooms]
    /\ read = [c \in Calls |-> NoFigures]
    /\ statsPc = [c \in Calls |-> "call"]

\* A plausible mistake: the count of an empty room goes below zero.
UpdatedUnclamped(c, figures) ==
    LET sign == IF c \in Creates THEN 1 ELSE -1
    IN [count |-> figures.count + sign, revenue |-> figures.revenue + sign * Price]

\* What the call of an update makes of the figures it read.
Updated(c, figures) ==
    IF c \in Creates
    THEN [count |-> figures.count + 1, revenue |-> figures.revenue + Price]
    ELSE [count |-> IF figures.count = 0 THEN 0 ELSE figures.count - 1,
          revenue |-> figures.revenue - Price]

\* BUGS.md #20: the figures are read without the lock.
EnterStatsUnlocked(c) ==
    /\ statsPc[c] = "call"
    /\ statsLock' = c
    /\ read' = [read EXCEPT ![c] = stats[room[c]]]
    /\ statsPc' = [statsPc EXCEPT ![c] = "pause"]
    /\ UNCHANGED <<stats, room>>

\* Acquires the lock and reads the room's figures.
EnterStats(c) ==
    /\ statsPc[c] = "call" /\ statsLock = None
    /\ statsLock' = c
    /\ read' = [read EXCEPT ![c] = stats[room[c]]]
    /\ statsPc' = [statsPc EXCEPT ![c] = "pause"]
    /\ UNCHANGED <<stats, room>>

\* An update writes its result back, a get returns its copy; both release.
LeaveStats(c) ==
    /\ statsPc[c] = "pause"
    /\ stats' = IF c \in Gets THEN stats
                ELSE [stats EXCEPT ![room[c]] = Updated(c, read[c])]
    /\ statsLock' = None
    /\ statsPc' = [statsPc EXCEPT ![c] = "returned"]
    /\ UNCHANGED <<room, read>>

StatsNext == \E c \in Calls : EnterStats(c) \/ LeaveStats(c)

StatsSpec == StatsInit /\ [][StatsNext]_statsVars

-----------------------------------------------------------------------------
Recorded(kind, m) == {c \in kind : statsPc[c] = "returned" /\ room[c] = m}

\* No update is lost: a room's revenue is the price times the creations less
\* the cancellations recorded for it, whatever their order.
NoLostUpdate ==
    \A m \in Rooms :
        stats[m].revenue = Price * (Cardinality(Recorded(Creates, m))
                                    - Cardinality(Recorded(Cancels, m)))

\* The count of a room is the creations less the cancellations recorded for it,
\* but for the cancellations that found it at zero: those recorded ahead of the
\* creation they undo, or in a process that never counted it.  Each of them
\* leaves the count one too high for good.
CountLosesOnlyEarlyCancels ==
    \A m \in Rooms :
        stats[m].count = Cardinality(Recorded(Creates, m))
                         - Cardinality({c \in Recorded(Cancels, m) : read[c].count > 0})

\* The stats endpoint shows figures that were current when it returned: no
\* update falls between its read and its copy.
GetsAreCurrent == [][\A c \in Gets : LeaveStats(c) => read[c] = stats[room[c]]]_statsVars

=============================================================================
