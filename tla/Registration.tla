---------------------------- MODULE Registration ----------------------------
(***************************************************************************)
(* register in routers/auth.py.  A registration commits twice: once for    *)
(* an organisation it found missing, once for the user.  Other             *)
(* registrations, a failing database call or a crash can fall between any  *)
(* two of its database calls.  The unique constraints of models.py hold in *)
(* the database.                                                           *)
(***************************************************************************)
EXTENDS Naturals, Sequences

CONSTANTS Requests,   \* registrations
          Orgs,       \* organisation names
          Usernames

VARIABLES founded,  \* the organisations in the database
          users,    \* the user rows, in the order of their ids
          org, username,  \* the payload of each request
          role,     \* the role it is going to give its user
          pc,
          founders, \* history: the requests that inserted their organisation
          failed    \* history: the requests one of whose database calls failed

payload == <<org, username>>
history == <<founders, failed>>
vars == <<founded, users, payload, role, pc, history>>

Roles == {"admin", "member"}
User == [org : Orgs, name : Usernames, role : Roles, by : Requests]

TypeOK ==
    /\ founded \in SUBSET Orgs
    /\ users \in Seq(User)
    /\ org \in [Requests -> Orgs] /\ username \in [Requests -> Usernames]
    /\ role \in [Requests -> Roles]
    /\ pc \in [Requests -> {"start", "found", "username", "insert",
                            "201", "409", "500", "lost"}]
    /\ founders \subseteq Requests /\ failed \subseteq Requests

Init ==
    /\ founded = {} /\ users = <<>>
    /\ org \in [Requests -> Orgs] /\ username \in [Requests -> Usernames]
    /\ role = [r \in Requests |-> "member"]
    /\ pc = [r \in Requests |-> "start"]
    /\ founders = {} /\ failed = {}

Rows == {users[i] : i \in 1 .. Len(users)}
Taken(r) == \E u \in Rows : u.org = org[r] /\ u.name = username[r]

Goto(r, place) == pc' = [pc EXCEPT ![r] = place]

-----------------------------------------------------------------------------
\* An organisation that does not exist makes the caller its admin.
LookUpOrg(r) ==
    /\ pc[r] = "start"
    /\ IF org[r] \in founded
       THEN role' = [role EXCEPT ![r] = "member"] /\ Goto(r, "username")
       ELSE role' = [role EXCEPT ![r] = "admin"] /\ Goto(r, "found")
    /\ UNCHANGED <<founded, users, payload, history>>

\* The organisation is in the database, by this request if by no other.
EnsureOrg(r) ==
    /\ founded' = founded \cup {org[r]}
    /\ founders' = IF org[r] \in founded THEN founders ELSE founders \cup {r}

\* BUGS.md #4: whoever loses the race keeps the role it had in mind.
FoundOrgKeepingRole(r) ==
    /\ pc[r] = "found"
    /\ EnsureOrg(r)
    /\ Goto(r, "username")
    /\ UNCHANGED <<users, payload, role, failed>>

\* A plausible mistake: the role is settled by looking once more, when the
\* request has inserted the organisation itself.
FoundOrgLookingAgain(r) ==
    /\ pc[r] = "found"
    /\ EnsureOrg(r)
    /\ role' = IF org[r] \in founded' THEN [role EXCEPT ![r] = "member"] ELSE role
    /\ Goto(r, "username")
    /\ UNCHANGED <<users, payload, failed>>

\* Inserts the organisation and commits it.  If another request has inserted it
\* the constraint raises; the handler fetches the other's row as a member.
FoundOrg(r) ==
    /\ pc[r] = "found"
    /\ EnsureOrg(r)
    /\ role' = IF org[r] \in founded THEN [role EXCEPT ![r] = "member"] ELSE role
    /\ Goto(r, "username")
    /\ UNCHANGED <<users, payload, failed>>

\* The commit fails, or a call after it does.  The except clause covers all of
\* them: it raises if it finds no row, or cannot look for one, and takes a row
\* it finds for someone else's.
FoundOrgFails(r) ==
    /\ pc[r] = "found"
    /\ failed' = failed \cup {r}
    /\ \/ UNCHANGED <<founded, founders, role>> /\ Goto(r, "500")
       \/ EnsureOrg(r) /\ UNCHANGED role /\ Goto(r, "500")
       \/ EnsureOrg(r) /\ role' = [role EXCEPT ![r] = "member"] /\ Goto(r, "username")
    /\ UNCHANGED <<users, payload>>

\* A name the organisation already has is refused.
CheckUsername(r) ==
    /\ pc[r] = "username"
    /\ Goto(r, IF Taken(r) THEN "409" ELSE "insert")
    /\ UNCHANGED <<founded, users, payload, role, history>>

AddUser(r) ==
    users' = Append(users, [org |-> org[r], name |-> username[r], role |-> role[r],
                            by |-> r])

\* Inserts the user and commits.  Here nothing catches the constraint's error.
InsertUser(r) ==
    /\ pc[r] = "insert"
    /\ \/ Taken(r) /\ UNCHANGED users /\ Goto(r, "500")
       \/ ~Taken(r) /\ AddUser(r) /\ Goto(r, "201")
    /\ UNCHANGED <<founded, payload, role, history>>

\* The user is stored, and cannot be read again for the answer.
RefreshFails(r) ==
    /\ pc[r] = "insert"
    /\ ~Taken(r) /\ AddUser(r)
    /\ failed' = failed \cup {r}
    /\ Goto(r, "500")
    /\ UNCHANGED <<founded, payload, role, founders>>

\* A query before a write fails, or the commit of the user does.
CallFails(r) ==
    /\ pc[r] \in {"start", "username", "insert"}
    /\ failed' = failed \cup {r}
    /\ Goto(r, "500")
    /\ UNCHANGED <<founded, users, payload, role, founders>>

InFlight == {r \in Requests : pc[r] \in {"found", "username", "insert"}}

\* The process dies and comes back; the database keeps what was committed.
Crash ==
    /\ InFlight # {}
    /\ pc' = [r \in Requests |-> IF r \in InFlight THEN "lost" ELSE pc[r]]
    /\ UNCHANGED <<founded, users, payload, role, history>>

-----------------------------------------------------------------------------
Step(r) == LookUpOrg(r) \/ FoundOrg(r) \/ CheckUsername(r) \/ InsertUser(r)
Fault == Crash \/ \E r \in Requests : FoundOrgFails(r) \/ CallFails(r) \/ RefreshFails(r)

Next == \E r \in Requests : Step(r)
FaultNext == Next \/ Fault

Spec == Init /\ [][Next]_vars
FaultSpec == Init /\ [][FaultNext]_vars

-----------------------------------------------------------------------------
\* Whatever races and fails, an organisation never has two admins: of the
\* registrations that found it missing only the one that inserted it is admin.
AtMostOneAdmin ==
    \A i, j \in 1 .. Len(users) :
        users[i].org = users[j].org /\ users[i].role = "admin" /\ users[j].role = "admin"
            => i = j

\* When no registration is under way, an organisation with users has an admin.
UsersHaveAnAdmin ==
    InFlight = {} =>
        \A u \in Rows : \E a \in Rows : a.org = u.org /\ a.role = "admin"

\* An organisation lacks an admin only while its founder is on the way, or by
\* an accident of its founder: a database call of his failed, his process died,
\* or another request took the name he wanted before he could insert it.
AdminMissingOnlyByAccident ==
    \A o \in founded :
        \/ \E u \in Rows : u.org = o /\ u.role = "admin"
        \/ \E f \in founders :
              /\ org[f] = o
              /\ \/ role[f] = "admin" /\ pc[f] \in {"username", "insert"}
                 \/ f \in failed \/ pc[f] = "lost"
                 \/ /\ pc[f] \in {"409", "500"}
                    /\ \E u \in Rows : u.org = o /\ u.name = username[f] /\ u.by # f
=============================================================================
