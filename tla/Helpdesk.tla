------------------------------ MODULE Helpdesk ------------------------------
(***************************************************************************)
(* The helpdesk of helpdesk.controller.js and its permission service:      *)
(* tickets, the departments they name, the statuses of a department, the   *)
(* helpdesk users and the per-department access list.                      *)
(*                                                                         *)
(* A ticket holds the NAME of its department, not its id, and no foreign   *)
(* key ties the two.  A handler that reads and then writes on different    *)
(* connections is two actions, its check and its write, with other         *)
(* requests in between; a transaction is one action from its first lock on *)
(* (InnoDB: what it then writes by a name locks that name's rows and gap). *)
(***************************************************************************)
EXTENDS Integers, FiniteSets, Sequences

CONSTANTS
  Agents,        \* user names
  NoAgent,
  Tickets,
  Names,         \* names of departments
  SeedNames,     \* DEFAULT_DEPARTMENTS, in order
  MaxDept,       \* bound: departments ever inserted
  Keys,          \* status keys
  SeedKeys,      \* DEFAULT_HELPDESK_TICKET_STATUSES, in order, the default first
  Requests,      \* requests that may be in flight together
  Appointments,  \* roles and departments an administrator gives a user
  MaxRow,        \* bound: rows of helpdesk_tickets_statuses ever inserted
  MaxNotes,      \* bound: authors of notes on a ticket
  MaxEdits       \* bound: changes by administrators

NoKey == "none"

ASSUME HelpdeskAssumption ==
  /\ NoAgent \notin Agents
  /\ NoKey \notin Keys
  /\ SeedNames \in Seq(Names) /\ SeedKeys \in Seq(Keys) \ {<< >>}
  /\ \A i, j \in 1..Len(SeedNames) : i # j => SeedNames[i] # SeedNames[j]
  /\ MaxDept \in Nat /\ Len(SeedNames) <= MaxDept
  /\ Appointments \subseteq [role : {"Admin", "Editor", "Viewer"},
                             departments : SUBSET Names]
  /\ MaxRow \in Nat /\ Len(SeedNames) * Len(SeedKeys) <= MaxRow
  /\ MaxEdits \in Nat

VARIABLES
  departments,  \* helpdesk_departments, by id: name and status
  statuses,     \* helpdesk_tickets_statuses, by department: key of each row id
  lastRow,      \* AUTO_INCREMENT of that table
  members,      \* helpdesk_users and helpdesk_user_departments
  acl,          \* helpdesk_department_permissions: "open" without rows, or "listed"
  tickets,      \* helpdesk_tickets
  notes,        \* helpdesk_notes: who wrote on each ticket
  request,      \* what each request in flight has checked and is about to write
  raced,        \* history: tickets whose department was written, or left to
                \* dangle, by a request overtaken by another
  tables,       \* whether the tables exist, and whether the database answers
  edits

adminVars    == <<departments, statuses, lastRow, members, acl, edits>>
helpdeskVars == <<departments, statuses, lastRow, members, acl, tickets,
                  notes, request, raced, tables, edits>>

Roles    == {"Admin", "Editor", "Viewer"}
Depts    == 1..MaxDept
Rows     == 1..MaxRow
Defaults == {SeedKeys[i] : i \in 1..Len(SeedKeys)}
NoRows   == [r \in Rows |-> NoKey]
Idle     == [kind |-> "idle"]
NoTicket == [state |-> "none"]
Ticket(u, n, k, h) == [state |-> "filed", creator |-> u, department |-> n,
                       status |-> k, handler |-> h]
Filed    == {t \in Tickets : tickets[t].state = "filed"}
Exists(d)    == departments[d].state \in {"active", "inactive"}
Active(d)    == departments[d].state = "active"
TakenNames   == {departments[d].name : d \in {e \in Depts : Exists(e)}}

-----------------------------------------------------------------------------
(* Roles and statuses, as the handlers look them up.                       *)

\* mutated: the departments of a user do not count.
CanViewAsAdmin(u, n) == members[u].role = "Admin"

\* A user's row is found whatever its Active or Inactive status.
CanView(u, n) ==
  /\ members[u].role \in Roles
  /\ members[u].role = "Admin" \/ n \in members[u].departments
CanManage(u, n) == members[u].role \in {"Admin", "Editor"} /\ CanView(u, n)
Administers(u)  == members[u].role = "Admin"

\* mutated: a row that is free counts as a status.
KeysOfRaw(rows) == {rows[r] : r \in Rows}

\* The statuses a department offers: its rows, or the defaults when it has none.
KeysOf(rows) == LET ks == {rows[r] : r \in Rows} \ {NoKey}
                IN IF ks = {} THEN Defaults ELSE ks
OfferedFor(n) ==
  UNION {KeysOf(statuses[d]) : d \in {e \in Depts : Exists(e) /\ departments[e].name = n}}
    \cup (IF n \in TakenNames THEN {} ELSE Defaults)

-----------------------------------------------------------------------------
(* replaceDepartmentTicketStatuses.  An entry carries a row id, or 0 for a *)
(* new one.  The tickets are renamed entry by entry, then those of the     *)
(* rows that go, then the rows are written; the unique index on            *)
(* (department, key) fails the transaction when a key is still taken.      *)

Ids(next) == {next[i].id : i \in 1..Len(next)}

\* A ticket's status after the renames of the first i entries.
Renamed(rows, next, key) ==
  LET f[i \in 0..Len(next)] ==
        IF i = 0 THEN key
        ELSE IF /\ next[i].id \in Rows
                /\ rows[next[i].id] = f[i-1]
             THEN next[i].key
             ELSE f[i-1]
  IN f[Len(next)]

StatusAfter(rows, next, default, key) ==
  LET renamed == Renamed(rows, next, key)
  IN IF \E r \in Rows \ Ids(next) : rows[r] = renamed /\ renamed # NoKey
     THEN default ELSE renamed

\* Row id of each entry: its own, or the next AUTO_INCREMENT value.
RowOf(next, i) ==
  IF next[i].id # 0 THEN next[i].id
  ELSE lastRow + Cardinality({j \in 1..i : next[j].id = 0})
\* An UPDATE of a row that is gone changes nothing.
Written(rows, next) ==
  {i \in 1..Len(next) : next[i].id = 0 \/ rows[next[i].id] # NoKey}
\* The rows that were read and are not in the form are deleted.
RowsAfter(read, rows, next) ==
  [r \in Rows |->
     IF \E i \in Written(rows, next) : RowOf(next, i) = r
     THEN next[CHOOSE i \in Written(rows, next) : RowOf(next, i) = r].key
     ELSE IF read[r] # NoKey /\ r \notin Ids(next) THEN NoKey ELSE rows[r]]

\* Entry i meets its key in a row an earlier entry did not free.
KeyTaken(rows, next) ==
  \E i \in Written(rows, next), r \in Rows :
    /\ rows[r] = next[i].key /\ rows[r] # NoKey
    /\ r # RowOf(next, i)
    /\ \A j \in 1..(i-1) : next[j].id # r
NewRows(next) == Cardinality({i \in 1..Len(next) : next[i].id = 0})
\* normalizeHelpdeskTicketStatuses refuses a key that occurs twice.
Normalized(next) ==
  \A i, j \in 1..Len(next) : i # j => next[i].key # next[j].key
\* What an administrator's form holds: rows it was once shown, or new ones.
Entries   == [id : 0..lastRow, key : Keys]
Proposals ==
  {next \in UNION {[1..n -> Entries] : n \in 1..2} :
     /\ \A i, j \in 1..Len(next) : i # j => next[i].id = 0 \/ next[i].id # next[j].id
     /\ lastRow + NewRows(next) <= MaxRow}

-----------------------------------------------------------------------------
(* Start: getTablesReady and ensureHelpdeskTables.  Every statement of the  *)
(* latter has a catch of its own, so its promise is resolved whether or not*)
(* the database answered, and is never made again.                         *)

HelpdeskInit ==
  /\ departments = [d \in Depts |-> [name |-> NoKey, state |-> "unused"]]
  /\ statuses = [d \in Depts |-> NoRows]
  /\ lastRow = 0
  /\ \E chief \in Agents :      \* rows made by hand: no route makes the first
       members = [u \in Agents |->
                   [role |-> IF u = chief THEN "Admin" ELSE "none", departments |-> {}]]
  /\ acl = [d \in Depts |-> "open"]
  /\ tickets = [t \in Tickets |-> NoTicket]
  /\ notes = [t \in Tickets |-> {}]
  /\ request = [s \in Requests |-> Idle]
  /\ raced = {}
  /\ tables \in {"database_up", "database_down"}
  /\ edits = 0

\* The last row id in use before the statuses of the d-th department.
SeedRow(d) == (d - 1) * Len(SeedKeys)

EnsureHelpdeskTables ==
  /\ tables \in {"database_up", "database_down"}
  /\ \/ /\ tables = "database_up"
        /\ tables' = "created"
        /\ departments' = [d \in Depts |->
             IF d <= Len(SeedNames) THEN [name |-> SeedNames[d], state |-> "active"]
             ELSE departments[d]]
        /\ statuses' = [d \in Depts |-> [r \in Rows |->
             IF d <= Len(SeedNames) /\ SeedRow(d) < r /\ r <= SeedRow(d + 1)
             THEN SeedKeys[r - SeedRow(d)] ELSE NoKey]]
        /\ lastRow' = SeedRow(Len(SeedNames) + 1)
     \/ /\ tables = "database_down"
        /\ tables' = "resolved_without"
        /\ UNCHANGED <<departments, statuses, lastRow>>
  /\ UNCHANGED <<members, acl, tickets, notes, request, raced, edits>>

\* Every handler awaits getTablesReady; without tables its first query fails.
Ready == tables = "created"

-----------------------------------------------------------------------------
(* Tickets.  A check ends with what the request will write.                *)

Begin(s, r) == /\ request[s] = Idle
               /\ request' = [request EXCEPT ![s] = r]
               /\ UNCHANGED <<adminVars, tickets, notes, raced, tables>>
End(s) == request' = [request EXCEPT ![s] = Idle]

Participates(u, t) == u \in {tickets[t].creator, tickets[t].handler}

\* What the routes that read a ticket's notes and histories ask.
MayRead(u, t) == Participates(u, t) \/ CanView(u, tickets[t].department)

\* /helpdesk/tickets/user: own tickets, assigned ones, those of the departments.
ListedFor(u) ==
  {t \in Filed : Participates(u, t) \/ tickets[t].department \in members[u].departments}

CreateTicket(s, u, n, t) ==
  /\ Ready /\ request[s] = Idle
  /\ t \notin Filed
  /\ \A r \in Requests : request[r].kind = "create" => request[r].ticket # t
  /\ \E d \in Depts :
       /\ Active(d) /\ departments[d].name = n
       /\ \E k \in KeysOf(statuses[d]) :
            Begin(s, [kind |-> "create", ticket |-> t, user |-> u,
                      department |-> n, status |-> k, overtaken |-> "no"])

AssignHandler(s, u, t, h) ==
  /\ Ready /\ t \in Filed
  /\ CanManage(u, tickets[t].department)
  /\ h # NoAgent => CanManage(h, tickets[t].department)
  /\ Begin(s, [kind |-> "assign", ticket |-> t, handler |-> h])

TransferTicketDepartment(s, u, t, d) ==
  /\ Ready /\ t \in Filed
  /\ CanManage(u, tickets[t].department)
  /\ Active(d) /\ departments[d].name # tickets[t].department
  /\ Begin(s, [kind |-> "transfer", ticket |-> t,
                department |-> departments[d].name, overtaken |-> "no"])

ChangeStatus(s, u, t, k) ==
  /\ Ready /\ t \in Filed
  /\ Participates(u, t) \/ CanManage(u, tickets[t].department)
  /\ k \in OfferedFor(tickets[t].department)
  /\ Begin(s, [kind |-> "status", ticket |-> t, status |-> k])

\* Tickets are never deleted, so nothing can come between check and INSERT.
AddNote(u, t) ==
  /\ Ready /\ t \in Filed
  /\ Participates(u, t) \/ CanManage(u, tickets[t].department)
  /\ Cardinality(notes[t]) < MaxNotes
  /\ notes' = [notes EXCEPT ![t] = @ \cup {u}]
  /\ UNCHANGED <<adminVars, tickets, request, raced, tables>>

\* A deletion in flight between its count and its DELETE misses this ticket.
Counted(n) == \E s \in Requests : /\ request[s].kind = "delete"
                                  /\ request[s].department = n
MarkRaced(s, t) ==
  raced' = IF request[s].overtaken = "yes" \/ Counted(request[s].department)
           THEN raced \cup {t} ELSE raced \ {t}

\* The statement each checked request ends with; histories and pushes are
\* written or sent without waiting.
WriteTicket(s) ==
  /\ request[s].kind \in {"create", "assign", "transfer", "status"}
  /\ LET r == request[s]  t == request[s].ticket IN
     \/ /\ r.kind = "create"
        /\ tickets' = [tickets EXCEPT ![t] = Ticket(r.user, r.department, r.status, NoAgent)]
        /\ MarkRaced(s, t)
     \/ /\ r.kind = "assign"
        /\ tickets' = [tickets EXCEPT ![t].handler = r.handler]
        /\ UNCHANGED raced
     \/ /\ r.kind = "transfer"
        /\ tickets' = [tickets EXCEPT ![t].department = r.department,
                                      ![t].handler = NoAgent]
        /\ MarkRaced(s, t)
     \/ /\ r.kind = "status"
        /\ tickets' = [tickets EXCEPT ![t].status = r.status]
        /\ UNCHANGED raced
  /\ End(s)
  /\ UNCHANGED <<adminVars, notes, tables>>

-----------------------------------------------------------------------------
(* Administration.                                                         *)

Edit == /\ Ready /\ edits < MaxEdits /\ edits' = edits + 1
        /\ UNCHANGED <<notes, tables>>

\* POST adds or replaces a user: row and departments in one transaction, every
\* department active when it was checked.
SetHelpdeskUser(u, v, appointment) ==
  /\ Edit /\ Administers(u)
  /\ appointment.departments # {}
  /\ \A n \in appointment.departments :
       \E d \in Depts : Active(d) /\ departments[d].name = n
  /\ members' = [members EXCEPT ![v] = appointment]
  /\ UNCHANGED <<departments, statuses, lastRow, acl, tickets, request, raced>>

\* PUT answers 404 without a row.
UpdateHelpdeskUser(u, v, appointment) ==
  /\ members[v].role # "none"
  /\ SetHelpdeskUser(u, v, appointment)

DeleteHelpdeskUser(u, v) ==
  /\ Edit /\ Administers(u)
  /\ members' = [members EXCEPT ![v] = [role |-> "none", departments |-> {}]]
  /\ UNCHANGED <<departments, statuses, lastRow, acl, tickets, request, raced>>

AddDepartment(u, d, n, state, next) ==
  /\ Edit /\ Administers(u)
  /\ departments[d].state = "unused"
  /\ n \notin TakenNames                       \* idx_name
  /\ next \in Proposals /\ Normalized(next)
  /\ departments' = [departments EXCEPT ![d] = [name |-> n, state |-> state]]
  /\ statuses' = [statuses EXCEPT ![d] = RowsAfter(NoRows, NoRows, next)]
  /\ lastRow' = lastRow + NewRows(next)
  /\ UNCHANGED <<members, acl, tickets, request, raced>>

Carry(old, new, n) == IF n = old THEN new ELSE n
Overtake(old) ==
  [s \in Requests |->
     IF request[s].kind \in {"create", "transfer", "delete"} /\ request[s].department = old
     THEN [request[s] EXCEPT !.overtaken = "yes"] ELSE request[s]]

(* The department is read without a lock, and with it the snapshot that    *)
(* the statuses are read from; what is written below goes by both.         *)
CheckUpdateDepartment(s, u, d) ==
  /\ Ready /\ Administers(u)
  /\ Exists(d)
  /\ Begin(s, [kind |-> "update", id |-> d, department |-> departments[d].name,
                rows |-> statuses[d]])

(* A rename is carried over to tickets, users and their departments, by    *)
(* the name that was read; then the statuses are replaced, under the new   *)
(* name. Without a name in the form the department keeps its own. The row  *)
(* is locked from its update to the end of the transaction.                *)
UpdateDepartment(s, n, state, next, default) ==
  /\ request[s].kind = "update"
  /\ Edit
  /\ LET d    == request[s].id
         old  == request[s].department
         name == departments[d].name
         to   == IF n = NoKey THEN old ELSE n
         kept == IF n = NoKey THEN name ELSE n
     IN
     /\ Exists(d)
     /\ kept = name \/ kept \notin TakenNames               \* idx_name
     /\ \A v \in Agents :                 \* PRIMARY KEY of user departments
          to # old => ~({old, to} \subseteq members[v].departments)
     /\ next # << >> => Normalized(next) /\ ~KeyTaken(statuses[d], next)
     /\ departments' = [departments EXCEPT ![d] = [name |-> kept, state |-> state]]
     /\ members' = [v \in Agents |-> [members[v] EXCEPT
                      !.departments = {Carry(old, to, m) : m \in @}]]
     /\ tickets' = [t \in Tickets |->
          IF t \notin Filed \/ Carry(old, to, tickets[t].department) # to THEN tickets[t]
          ELSE [tickets[t] EXCEPT
                  !.department = to,
                  !.status = IF next = << >> THEN @
                             ELSE StatusAfter(request[s].rows, next, default, @)]]
     /\ statuses' = IF next = << >> THEN statuses
                    ELSE [statuses EXCEPT ![d] = RowsAfter(request[s].rows, @, next)]
     /\ request' = [(IF kept = name THEN request ELSE Overtake(name)) EXCEPT ![s] = Idle]
     /\ raced' = raced \cup {t \in Filed :
                     \/ tickets[t].department = name /\ name \notin {old, kept}
                     \/ tickets[t].department = old /\ to # old /\ Counted(to)}
  /\ lastRow' = lastRow + NewRows(next)
  /\ UNCHANGED acl

\* A query fails, the row is gone, or a name or a key is taken.
UpdateRollsBack(s) ==
  /\ request[s].kind = "update"
  /\ End(s)
  /\ UNCHANGED <<adminVars, tickets, notes, raced, tables>>

\* mutated: the tickets are not counted.
CheckDeleteUncounted(s, u, d) ==
  /\ Ready /\ Administers(u)
  /\ Exists(d)
  /\ Begin(s, [kind |-> "delete", id |-> d, department |-> departments[d].name,
                overtaken |-> "no"])

\* The tickets are counted on one connection, the row deleted on another.
CheckDeleteDepartment(s, u, d) ==
  /\ Ready /\ Administers(u)
  /\ Exists(d)
  /\ \A t \in Filed : tickets[t].department # departments[d].name
  /\ Begin(s, [kind |-> "delete", id |-> d, department |-> departments[d].name,
                overtaken |-> "no"])

\* The statuses and the access list go with the row (ON DELETE CASCADE).  The
\* row may have been renamed or deleted since its tickets were counted.
DeleteDepartment(s) ==
  /\ request[s].kind = "delete"
  /\ Edit
  /\ LET d == request[s].id  name == departments[request[s].id].name IN
     IF Exists(d)
     THEN /\ departments' = [departments EXCEPT ![d].state = "deleted"]
          /\ statuses' = [statuses EXCEPT ![d] = NoRows]
          /\ acl' = [acl EXCEPT ![d] = "open"]
          /\ request' = [Overtake(name) EXCEPT ![s] = Idle]
          /\ raced' = IF request[s].overtaken = "no" THEN raced
                      ELSE raced \cup {t \in Filed : tickets[t].department = name}
     ELSE End(s) /\ UNCHANGED <<departments, statuses, acl, raced>>
  /\ UNCHANGED <<lastRow, members, tickets>>

\* setDepartmentPermissionsWithRoles: delete and insert in one transaction,
\* so that no reader finds a listed department open in between.
SetDepartmentPermissions(u, d, listed) ==
  /\ Edit /\ Administers(u)
  /\ Exists(d)
  /\ acl' = [acl EXCEPT ![d] = listed]
  /\ UNCHANGED <<departments, statuses, lastRow, members, tickets, request, raced>>

-----------------------------------------------------------------------------

Ticketing ==
  \E s \in Requests, u \in Agents :
    \/ \E n \in Names, t \in Tickets : CreateTicket(s, u, n, t)
    \/ \E t \in Tickets, h \in Agents \cup {NoAgent} : AssignHandler(s, u, t, h)
    \/ \E t \in Tickets, d \in Depts : TransferTicketDepartment(s, u, t, d)
    \/ \E t \in Tickets, k \in Keys : ChangeStatus(s, u, t, k)
    \/ \E t \in Tickets : AddNote(u, t)
    \/ \E d \in Depts : CheckDeleteDepartment(s, u, d) \/ CheckUpdateDepartment(s, u, d)

Administration ==
  /\ edits < MaxEdits
  /\ \E u \in {v \in Agents : Administers(v)} :
    \/ \E v \in Agents, appointment \in Appointments :
         SetHelpdeskUser(u, v, appointment) \/ UpdateHelpdeskUser(u, v, appointment)
    \/ \E v \in Agents : DeleteHelpdeskUser(u, v)
    \/ \E d \in Depts, n \in Names, state \in {"active", "inactive"} :
         \E next \in Proposals : AddDepartment(u, d, n, state, next)
    \/ \E d \in Depts, listed \in {"open", "listed"} :
         SetDepartmentPermissions(u, d, listed)

Updating ==
  /\ edits < MaxEdits
  /\ \E s \in Requests, n \in Names \cup {NoKey}, state \in {"active", "inactive"} :
    \/ UpdateDepartment(s, n, state, << >>, NoKey)
    \/ \E next \in Proposals : \E i \in 1..Len(next) :
         UpdateDepartment(s, n, state, next, next[i].key)

HelpdeskNext ==
  \/ EnsureHelpdeskTables
  \/ Ticketing
  \/ \E s \in Requests : WriteTicket(s) \/ DeleteDepartment(s) \/ UpdateRollsBack(s)
  \/ Updating
  \/ Administration

HelpdeskSpec == HelpdeskInit /\ [][HelpdeskNext]_helpdeskVars

-----------------------------------------------------------------------------
(* Properties.                                                             *)

DeptRecord   == [name : Names \cup {NoKey},
                 state : {"unused", "active", "inactive", "deleted"}]
TicketRecord == {NoTicket} \cup
                [state : {"filed"}, creator : Agents, department : Names,
                 status : Keys, handler : Agents \cup {NoAgent}]
YesNo        == {"yes", "no"}
RequestRecord ==
  {Idle}
    \cup [kind : {"create"}, ticket : Tickets, user : Agents, department : Names,
          status : Keys, overtaken : YesNo]
    \cup [kind : {"assign"}, ticket : Tickets, handler : Agents \cup {NoAgent}]
    \cup [kind : {"transfer"}, ticket : Tickets, department : Names, overtaken : YesNo]
    \cup [kind : {"status"}, ticket : Tickets, status : Keys]
    \cup [kind : {"delete"}, id : Depts, department : Names, overtaken : YesNo]
    \cup [kind : {"update"}, id : Depts, department : Names,
          rows : [Rows -> Keys \cup {NoKey}]]

\* Every variable keeps its type: in particular a request that was checked
\* writes a status, a department name and a handler that are some, never the
\* absent ones.
HelpdeskTypeOK ==
  /\ departments \in [Depts -> DeptRecord]
  /\ \A d \in Depts : Exists(d) => departments[d].name \in Names
  /\ statuses \in [Depts -> [Rows -> Keys \cup {NoKey}]]
  /\ lastRow \in 0..MaxRow
  /\ members \in [Agents -> [role : Roles \cup {"none"}, departments : SUBSET Names]]
  /\ acl \in [Depts -> {"open", "listed"}]
  /\ tickets \in [Tickets -> TicketRecord]
  /\ notes \in [Tickets -> SUBSET Agents]
  /\ request \in [Requests -> RequestRecord]
  /\ raced \subseteq Tickets
  /\ tables \in {"database_up", "database_down", "created", "resolved_without"}
  /\ edits \in 0..MaxEdits

\* What a user's list shows the user can open: the list is selected by the
\* departments of the user, the notes and the histories are guarded by role.
ListedIsReadable == \A u \in Agents : \A t \in ListedFor(u) : MayRead(u, t)

\* A ticket names a department that exists: renames reach every ticket and a
\* department with tickets is not deleted.  Only a request that was between
\* its check and its write when another overtook it can leave a ticket without,
\* such as the second of two renames that both read the old name.
TicketsKeepADepartment ==
  \A t \in Filed : tickets[t].department \in TakenNames \/ t \in raced
=============================================================================
