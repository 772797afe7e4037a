------------------------- MODULE RegistrationProofs -------------------------
(***************************************************************************)
(* For any number of registrations, with failures and crashes, no          *)
(* organisation has two admins, and one without any owes it to an accident *)
(* of the request that founded it.                                         *)
(***************************************************************************)
EXTENDS Registration, TLAPS

HasRow(r) == \E i \in 1 .. Len(users) : users[i].by = r

\* r has inserted its organisation and means to make its user the admin, or has.
Holds(r) == role[r] = "admin" /\ (pc[r] \in {"username", "insert"} \/ HasRow(r))

\* A row stems from a request that is over, with the role the request had.
RowsFaithful ==
    \A i \in 1 .. Len(users) :
        /\ pc[users[i].by] \in {"201", "500"}
        /\ users[i].org = org[users[i].by] /\ users[i].role = role[users[i].by]

\* No request leaves two rows.
OneRowEach == \A i, j \in 1 .. Len(users) : users[i].by = users[j].by => i = j

(***************************************************************************)
(* Of the requests for one organisation at most one holds it, and only     *)
(* when the organisation exists: whoever inserts it knows that nobody      *)
(* holds it yet.                                                           *)
(***************************************************************************)
ClaimInv ==
    /\ TypeOK
    /\ \A r \in Requests : Holds(r) => org[r] \in founded
    /\ \A r, s \in Requests : Holds(r) /\ Holds(s) /\ org[r] = org[s] => r = s
    /\ RowsFaithful
    /\ OneRowEach

\* A user row is a record of its type.
LEMMA RowType ==
    ASSUME TypeOK, NEW i \in 1 .. Len(users)
    PROVE  users[i] \in User /\ users[i].by \in Requests
<1>1. users[i] \in User
  BY DEF TypeOK
<1> QED BY <1>1 DEF User

\* Nobody holds an organisation at the start.
LEMMA ClaimInvInit == Init => ClaimInv
BY DEF Init, ClaimInv, TypeOK, Holds, HasRow, Roles, RowsFaithful, OneRowEach

\* A request that is not over has no row.
LEMMA NoRowYet ==
    ASSUME ClaimInv, NEW r \in Requests, pc[r] \notin {"201", "500"}
    PROVE  ~HasRow(r)
BY DEF ClaimInv, RowsFaithful, HasRow

(***************************************************************************)
(* A step of one request that adds no row keeps the invariant if it lets   *)
(* the request hold its organisation only where it may.                    *)
(***************************************************************************)
LEMMA QuietStep ==
    ASSUME ClaimInv, TypeOK', NEW r \in Requests, pc[r] \notin {"201", "500"},
           UNCHANGED <<users, org>>, founded \subseteq founded',
           \A s \in Requests \ {r} : pc'[s] = pc[s] /\ role'[s] = role[s],
           Holds(r)' => /\ org[r] \in founded'
                        /\ \A s \in Requests \ {r} : org[s] = org[r] => ~Holds(s)
    PROVE  ClaimInv'
<1>1. \A s \in Requests \ {r} : Holds(s)' <=> Holds(s)
  BY DEF Holds, HasRow
<1>2. (\A s \in Requests : Holds(s) => org[s] \in founded)'
  BY <1>1 DEF ClaimInv
<1>3. (\A s, t \in Requests : Holds(s) /\ Holds(t) /\ org[s] = org[t] => s = t)'
  BY <1>1 DEF ClaimInv
<1>4. RowsFaithful'
  <2> SUFFICES ASSUME NEW i \in 1 .. Len(users)
               PROVE  /\ pc'[users[i].by] \in {"201", "500"} /\ users[i].org = org[users[i].by]
                      /\ users[i].role = role'[users[i].by]
    BY DEF RowsFaithful
  <2>1. users[i].by \in Requests
    BY RowType DEF ClaimInv
  <2> QED BY <2>1 DEF ClaimInv, RowsFaithful
<1> QED BY <1>2, <1>3, <1>4 DEF ClaimInv, OneRowEach

\* The row of r, as the last of the table.
LEMMA RowAdded ==
    ASSUME ClaimInv, NEW r \in Requests, AddUser(r)
    PROVE  /\ users' \in Seq(User) /\ Len(users') = Len(users) + 1 /\ Len(users) \in Nat
           /\ \A i \in 1 .. Len(users) : users'[i] = users[i]
           /\ users'[Len(users) + 1] =
                  [org |-> org[r], name |-> username[r], role |-> role[r], by |-> r]
<1> DEFINE row == [org |-> org[r], name |-> username[r], role |-> role[r], by |-> r]
<1>1. row \in User /\ users' = Append(users, row) /\ users \in Seq(User)
  BY DEF AddUser, User, ClaimInv, TypeOK
<1> HIDE DEF row
<1>2. /\ users' \in Seq(User) /\ Len(users') = Len(users) + 1 /\ Len(users) \in Nat
      /\ \A i \in 1 .. Len(users) : users'[i] = users[i]
      /\ users'[Len(users) + 1] = row
  BY <1>1
<1> QED BY <1>2 DEF row

\* The rows that were there stay, and r has one.
LEMMA RowKept ==
    ASSUME ClaimInv, NEW r \in Requests, AddUser(r)
    PROVE  /\ \A i \in 1 .. Len(users) : i \in 1 .. Len(users') /\ users'[i] = users[i]
           /\ HasRow(r)'
<1>1. /\ Len(users') = Len(users) + 1 /\ Len(users) \in Nat
      /\ \A i \in 1 .. Len(users) : users'[i] = users[i]
      /\ users'[Len(users) + 1] =
             [org |-> org[r], name |-> username[r], role |-> role[r], by |-> r]
  BY RowAdded
<1>2. users'[Len(users) + 1].by = r
  BY <1>1
<1>3. 1 .. Len(users) \subseteq 1 .. Len(users') /\ Len(users) + 1 \in 1 .. Len(users')
  BY <1>1
<1> QED BY <1>1, <1>2, <1>3 DEF HasRow

\* The commit of a user keeps the invariant, whether it can be read again or not.
LEMMA InsertStep ==
    ASSUME ClaimInv, NEW r \in Requests, AddUser(r), pc[r] = "insert",
           NEW answer \in {"201", "500"}, pc' = [pc EXCEPT ![r] = answer],
           UNCHANGED <<founded, org, username, role, founders>>, failed' \subseteq Requests
    PROVE  ClaimInv'
<1> DEFINE row == [org |-> org[r], name |-> username[r], role |-> role[r], by |-> r]
<1>3. /\ users' \in Seq(User) /\ Len(users') = Len(users) + 1
      /\ \A i \in 1 .. Len(users) : users'[i] = users[i]
      /\ users'[Len(users) + 1] = row /\ Len(users) \in Nat
  BY RowAdded
<1>4. \A i \in 1 .. Len(users) : users[i].by # r
  BY DEF ClaimInv, RowsFaithful
<1>5. TypeOK'
  BY <1>3 DEF ClaimInv, TypeOK
<1>6. \A s \in Requests : Holds(s)' <=> Holds(s)
  <2>1. ASSUME NEW s \in Requests, s # r PROVE HasRow(s)' <=> HasRow(s)
    BY <1>3, <2>1 DEF HasRow
  <2>2. HasRow(r)' /\ pc[r] = "insert"
    BY <1>3 DEF HasRow
  <2> QED BY <2>1, <2>2 DEF Holds, ClaimInv, TypeOK
<1>7. RowsFaithful'
  <2> SUFFICES ASSUME NEW i \in 1 .. Len(users')
               PROVE  /\ pc'[users'[i].by] \in {"201", "500"}
                      /\ users'[i].org = org[users'[i].by]
                      /\ users'[i].role = role[users'[i].by]
    BY DEF RowsFaithful
  <2>1. CASE i = Len(users) + 1
    BY <1>3, <2>1 DEF ClaimInv, TypeOK
  <2>2. CASE i \in 1 .. Len(users)
    <3>1. users[i].by \in Requests
      BY <2>2, RowType DEF ClaimInv
    <3> QED BY <1>3, <1>4, <2>2, <3>1 DEF ClaimInv, TypeOK, RowsFaithful
  <2> QED BY <2>1, <2>2, <1>3
<1>8. OneRowEach'
  BY <1>3, <1>4 DEF ClaimInv, OneRowEach
<1> QED BY <1>5, <1>6, <1>7, <1>8 DEF ClaimInv

\* Every step, failure and crash keeps the invariant.
LEMMA ClaimInvStep == ClaimInv /\ [FaultNext]_vars => ClaimInv'
<1> SUFFICES ASSUME ClaimInv, [FaultNext]_vars PROVE ClaimInv'
  OBVIOUS
<1> USE DEF payload, history
<1>1. ASSUME NEW r \in Requests, LookUpOrg(r) PROVE ClaimInv'
  <2>1. TypeOK'
    BY <1>1 DEF LookUpOrg, ClaimInv, TypeOK, Roles, Goto
  <2>2. ~Holds(r)'
    BY <1>1, NoRowYet DEF LookUpOrg, ClaimInv, TypeOK, Holds, HasRow, Goto
  <2> QED
    BY <1>1, <2>1, <2>2, QuietStep DEF LookUpOrg, ClaimInv, TypeOK, Goto
<1>2. ASSUME NEW r \in Requests, FoundOrg(r) PROVE ClaimInv'
  <2>1. TypeOK'
    BY <1>2 DEF FoundOrg, EnsureOrg, ClaimInv, TypeOK, Roles, Goto
  <2>2. Holds(r)' => org[r] \notin founded
    BY <1>2, NoRowYet DEF FoundOrg, ClaimInv, TypeOK, Holds, HasRow, Goto
  <2> QED
    BY <1>2, <2>1, <2>2, QuietStep DEF FoundOrg, EnsureOrg, ClaimInv, TypeOK, Goto
<1>3. ASSUME NEW r \in Requests, FoundOrgFails(r) PROVE ClaimInv'
  <2>1. TypeOK'
    BY <1>3 DEF FoundOrgFails, EnsureOrg, ClaimInv, TypeOK, Roles, Goto
  <2>2. ~Holds(r)'
    BY <1>3, NoRowYet DEF FoundOrgFails, ClaimInv, TypeOK, Holds, HasRow, Goto
  <2> QED
    BY <1>3, <2>1, <2>2, QuietStep DEF FoundOrgFails, EnsureOrg, ClaimInv, TypeOK, Goto
<1>4. ASSUME NEW r \in Requests, CheckUsername(r) PROVE ClaimInv'
  <2>1. TypeOK'
    BY <1>4 DEF CheckUsername, ClaimInv, TypeOK, Goto
  <2>2. Holds(r)' => Holds(r)
    BY <1>4 DEF CheckUsername, ClaimInv, TypeOK, Holds, HasRow, Goto
  <2> QED
    BY <1>4, <2>1, <2>2, QuietStep DEF CheckUsername, ClaimInv, TypeOK, Goto
<1>5. ASSUME NEW r \in Requests, InsertUser(r) PROVE ClaimInv'
  <2>1. CASE AddUser(r) /\ Goto(r, "201")
    BY <1>5, <2>1, InsertStep DEF InsertUser, Goto, ClaimInv, TypeOK
  <2>2. CASE UNCHANGED users /\ Goto(r, "500")
    <3>1. TypeOK'
      BY <1>5, <2>2 DEF InsertUser, ClaimInv, TypeOK, Goto
    <3>2. ~Holds(r)'
      BY <1>5, <2>2, NoRowYet DEF InsertUser, ClaimInv, TypeOK, Holds, HasRow, Goto
    <3> QED
      BY <1>5, <2>2, <3>1, <3>2, QuietStep DEF InsertUser, ClaimInv, TypeOK, Goto
  <2> QED BY <1>5, <2>1, <2>2 DEF InsertUser
<1>6. ASSUME NEW r \in Requests, CallFails(r) PROVE ClaimInv'
  <2>1. TypeOK'
    BY <1>6 DEF CallFails, ClaimInv, TypeOK, Goto
  <2>2. ~Holds(r)'
    BY <1>6, NoRowYet DEF CallFails, ClaimInv, TypeOK, Holds, HasRow, Goto
  <2> QED
    BY <1>6, <2>1, <2>2, QuietStep DEF CallFails, ClaimInv, TypeOK, Goto
<1>7. ASSUME NEW r \in Requests, RefreshFails(r) PROVE ClaimInv'
  BY <1>7, InsertStep DEF RefreshFails, Goto, ClaimInv, TypeOK
<1>8. CASE Crash
  <2>1. TypeOK' /\ UNCHANGED <<founded, users, org, role>>
    BY <1>8 DEF Crash, InFlight, ClaimInv, TypeOK
  <2>2. \A r \in Requests : /\ Holds(r)' => Holds(r)
                            /\ pc[r] \in {"201", "500"} => pc'[r] = pc[r]
    BY <1>8 DEF Crash, InFlight, ClaimInv, TypeOK, Holds, HasRow
  <2>3. RowsFaithful'
    BY <2>1, <2>2, RowType DEF ClaimInv, RowsFaithful
  <2> QED BY <2>1, <2>2, <2>3 DEF ClaimInv, OneRowEach
<1>9. CASE UNCHANGED vars
  BY <1>9 DEF vars, ClaimInv, TypeOK, Holds, HasRow, RowsFaithful, OneRowEach
<1> QED
  BY <1>1, <1>2, <1>3, <1>4, <1>5, <1>6, <1>7, <1>8, <1>9
  DEF FaultNext, Next, Fault, Step

\* At any time one registration at most holds an organisation.
THEOREM ClaimInvAlways == FaultSpec => []ClaimInv
BY ClaimInvInit, ClaimInvStep, PTL DEF FaultSpec

(***************************************************************************)
(* An organisation never has two admins, for any number of registrations,  *)
(* whatever fails.                                                         *)
(***************************************************************************)
THEOREM OneAdminPerOrganisation == FaultSpec => []AtMostOneAdmin
<1>1. ClaimInv => AtMostOneAdmin
  <2> SUFFICES ASSUME ClaimInv, NEW i \in 1 .. Len(users), NEW j \in 1 .. Len(users),
                      users[i].org = users[j].org,
                      users[i].role = "admin", users[j].role = "admin"
               PROVE  i = j
    BY DEF AtMostOneAdmin
  <2>1. users[i].by \in Requests /\ users[j].by \in Requests
    BY RowType DEF ClaimInv
  <2>2. Holds(users[i].by) /\ Holds(users[j].by)
    BY <2>1 DEF ClaimInv, Holds, HasRow, RowsFaithful
  <2>3. users[i].by = users[j].by
    BY <2>1, <2>2 DEF ClaimInv, RowsFaithful
  <2> QED BY <2>3 DEF ClaimInv, OneRowEach
<1> QED BY <1>1, ClaimInvAlways, PTL

-----------------------------------------------------------------------------
(***************************************************************************)
(* Every organisation has a founder, who meant to be its admin when he     *)
(* inserted it, and either still holds it or lost it to an accident.       *)
(***************************************************************************)
NameLost(f) ==
    \E i \in 1 .. Len(users) :
        users[i].org = org[f] /\ users[i].name = username[f] /\ users[i].by # f

Excused(f) ==
    \/ f \in failed \/ pc[f] = "lost"
    \/ pc[f] \in {"409", "500"} /\ NameLost(f)

FounderInv ==
    /\ \A o \in founded : \E f \in founders : org[f] = o
    /\ \A r \in Requests : pc[r] = "found" => role[r] = "admin"
    /\ \A f \in founders : Holds(f) \/ Excused(f)

\* A step of one request, seen from the others: rows are only added.
LEMMA FounderStep ==
    ASSUME ClaimInv, FounderInv, NEW r \in Requests,
           \A i \in 1 .. Len(users) : i \in 1 .. Len(users') /\ users'[i] = users[i],
           UNCHANGED <<org, username>>, failed \subseteq failed',
           \A s \in Requests \ {r} : pc'[s] = pc[s] /\ role'[s] = role[s],
           \/ founded' = founded /\ founders' = founders
           \/ founded' = founded \cup {org[r]} /\ founders' = founders \cup {r},
           pc'[r] = "found" => role'[r] = "admin",
           r \in founders' => (Holds(r) \/ Excused(r))'
    PROVE  FounderInv'
<1>1. (\A o \in founded : \E f \in founders : org[f] = o)'
  BY DEF FounderInv
<1>2. (\A s \in Requests : pc[s] = "found" => role[s] = "admin")'
  BY DEF FounderInv
<1>3. ASSUME NEW f \in founders', f # r PROVE (Holds(f) \/ Excused(f))'
  <2>1. f \in founders /\ f \in Requests
    BY <1>3 DEF ClaimInv, TypeOK
  <2>2. pc'[f] = pc[f] /\ role'[f] = role[f]
    BY <1>3, <2>1
  <2>3. (HasRow(f) => HasRow(f)') /\ (NameLost(f) => NameLost(f)')
    BY DEF HasRow, NameLost
  <2>4. Holds(f) \/ Excused(f)
    BY <2>1 DEF FounderInv
  <2> QED BY <2>2, <2>3, <2>4 DEF Holds, Excused
<1> QED BY <1>1, <1>2, <1>3 DEF FounderInv

\* Every step, failure and crash leaves each founder holding or excused.
LEMMA FounderInvStep ==
    ASSUME ClaimInv, FounderInv, [FaultNext]_vars PROVE FounderInv'
<1> USE DEF ClaimInv, TypeOK, payload, history
<1>0. \A r \in Requests : pc[r] \notin {"201", "500"} => ~HasRow(r)
  BY NoRowYet
<1>1. ASSUME NEW r \in Requests, LookUpOrg(r) PROVE FounderInv'
  <2>1. r \in founders' => Excused(r)'
    BY <1>0, <1>1 DEF LookUpOrg, FounderInv, Holds, Excused, Goto
  <2>2. pc'[r] = "found" => role'[r] = "admin"
    BY <1>1 DEF LookUpOrg, Goto
  <2> QED BY <1>1, <2>1, <2>2, FounderStep DEF LookUpOrg, Goto
<1>2. ASSUME NEW r \in Requests, FoundOrg(r) PROVE FounderInv'
  <2>1. r \in founders => Excused(r)'
    BY <1>0, <1>2 DEF FoundOrg, FounderInv, Holds, Excused, Goto
  <2>2. org[r] \notin founded => Holds(r)'
    BY <1>2 DEF FoundOrg, FounderInv, Holds, Goto
  <2>3. CASE org[r] \in founded
    <3>1. founded' = founded /\ founders' = founders
      BY <1>2, <2>3 DEF FoundOrg, EnsureOrg
    <3> QED BY <1>2, <2>1, <3>1, FounderStep DEF FoundOrg, Goto
  <2>4. CASE org[r] \notin founded
    BY <1>2, <2>2, <2>4, FounderStep DEF FoundOrg, EnsureOrg, Goto
  <2> QED BY <2>3, <2>4
<1>3. ASSUME NEW r \in Requests, FoundOrgFails(r) PROVE FounderInv'
  <2>1. r \in failed' /\ pc'[r] # "found" /\ UNCHANGED <<users, org, username>>
    BY <1>3 DEF FoundOrgFails, Goto
  <2>2. \/ founded' = founded /\ founders' = founders
        \/ founded' = founded \cup {org[r]} /\ founders' = founders \cup {r}
    BY <1>3 DEF FoundOrgFails, EnsureOrg
  <2>3. failed \subseteq failed' /\ \A s \in Requests \ {r} : pc'[s] = pc[s] /\ role'[s] = role[s]
    BY <1>3 DEF FoundOrgFails, Goto
  <2> QED BY <2>1, <2>2, <2>3, FounderStep DEF Excused
<1>4. ASSUME NEW r \in Requests, CallFails(r) PROVE FounderInv'
  BY <1>4, FounderStep DEF CallFails, Excused, Goto
<1>5. ASSUME NEW r \in Requests, Taken(r), ~HasRow(r) PROVE NameLost(r)
  BY <1>5 DEF Taken, Rows, HasRow, NameLost
<1>6. ASSUME NEW r \in Requests, CheckUsername(r) PROVE FounderInv'
  <2>1. NameLost(r) => NameLost(r)'
    BY <1>6 DEF CheckUsername, NameLost
  <2>2. r \in founders => (Holds(r) \/ Excused(r))'
    BY <1>0, <1>5, <1>6, <2>1 DEF CheckUsername, FounderInv, Holds, Excused, Goto
  <2> QED BY <1>6, <2>2, FounderStep DEF CheckUsername, Goto
<1>7. ASSUME NEW r \in Requests, InsertUser(r), Taken(r) PROVE FounderInv'
  <2>1. NameLost(r)' /\ pc'[r] = "500"
    BY <1>0, <1>5, <1>7 DEF InsertUser, NameLost, Goto
  <2>2. UNCHANGED users
    BY <1>7 DEF InsertUser
  <2> QED BY <1>7, <2>1, <2>2, FounderStep DEF InsertUser, Excused, Goto
<1>8. ASSUME NEW r \in Requests, InsertUser(r) \/ RefreshFails(r), AddUser(r) PROVE FounderInv'
  <2>1. /\ \A i \in 1 .. Len(users) : i \in 1 .. Len(users') /\ users'[i] = users[i]
        /\ HasRow(r)'
    BY <1>8, RowKept
  <2>2. pc[r] = "insert" /\ role' = role /\ founders' = founders /\ founded' = founded
        /\ failed \subseteq failed' /\ pc'[r] # "found" /\ UNCHANGED <<org, username>>
        /\ \A s \in Requests \ {r} : pc'[s] = pc[s]
    BY <1>8 DEF InsertUser, RefreshFails, Goto
  <2>3. r \in founders => (Holds(r) \/ Excused(r))'
    BY <1>0, <2>1, <2>2 DEF FounderInv, Holds, Excused
  <2> QED BY <2>1, <2>2, <2>3, FounderStep
<1>9. CASE Crash \/ UNCHANGED vars
  <2>1. /\ UNCHANGED <<founded, users, org, username, role, founders, failed>>
        /\ \A r \in Requests :
             pc'[r] = pc[r] \/ (pc'[r] = "lost" /\ pc[r] \in {"found", "username", "insert"})
    BY <1>9 DEF Crash, InFlight, vars
  <2>2. ASSUME NEW f \in founders PROVE (Holds(f) \/ Excused(f))'
    <3>1. (HasRow(f)' <=> HasRow(f)) /\ (NameLost(f)' <=> NameLost(f))
      BY <2>1 DEF HasRow, NameLost
    <3> QED BY <2>1, <3>1 DEF FounderInv, Holds, Excused
  <2> QED BY <2>1, <2>2 DEF FounderInv
<1> QED
  BY <1>1, <1>2, <1>3, <1>4, <1>6, <1>7, <1>8, <1>9
     DEF FaultNext, Next, Fault, Step, InsertUser, RefreshFails

(***************************************************************************)
(* For any number of registrations, whatever fails: an organisation lacks  *)
(* an admin only while its founder is on the way, or by his accident.      *)
(***************************************************************************)
THEOREM AdminsAreMissingByAccident == FaultSpec => []AdminMissingOnlyByAccident
<1>1. Init => FounderInv
  BY DEF Init, FounderInv
<1>2. ClaimInv /\ FounderInv => AdminMissingOnlyByAccident
  <2> SUFFICES ASSUME ClaimInv, FounderInv, NEW o \in founded,
                      ~ \E u \in Rows : u.org = o /\ u.role = "admin"
               PROVE  \E f \in founders :
                        /\ org[f] = o
                        /\ \/ role[f] = "admin" /\ pc[f] \in {"username", "insert"}
                           \/ f \in failed \/ pc[f] = "lost"
                           \/ /\ pc[f] \in {"409", "500"}
                              /\ \E u \in Rows : u.org = o /\ u.name = username[f] /\ u.by # f
    BY DEF AdminMissingOnlyByAccident
  <2>1. PICK f \in founders : org[f] = o
    BY DEF FounderInv
  <2>2. ~(HasRow(f) /\ role[f] = "admin")
    BY <2>1 DEF ClaimInv, RowsFaithful, HasRow, Rows
  <2>3. NameLost(f) => \E u \in Rows : u.org = o /\ u.name = username[f] /\ u.by # f
    BY <2>1 DEF NameLost, Rows
  <2> QED BY <2>1, <2>2, <2>3 DEF FounderInv, Holds, Excused
<1> QED BY <1>1, <1>2, FounderInvStep, ClaimInvAlways, PTL DEF FaultSpec
=============================================================================
