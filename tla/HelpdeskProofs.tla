--------------------------- MODULE HelpdeskProofs ---------------------------
(* Every ticket names a department that exists, and what is listed can be  *)
(* opened, for any users, tickets, departments, requests and edits. What   *)
(* keeps the first true is that a request whose check no longer holds is   *)
(* marked as overtaken: one that files or moves a ticket to a department   *)
(* that is renamed or deleted, and one that deletes a department whose     *)
(* tickets were counted under another name; and that tickets are when the  *)
(* department they name is renamed by what was read of it before another   *)
(* rename. What keeps the second true is that a user without a role has no *)
(* departments.                                                            *)
EXTENDS Helpdesk, SequenceTheorems, FiniteSetTheorems, TLAPS

-----------------------------------------------------------------------------
(* The invariant.                                                          *)
USE HelpdeskAssumption

\* The fields of what a request in flight is about to write.
Shaped(r) ==
    \/ r = Idle
    \/ r = [kind |-> "create", ticket |-> r.ticket, user |-> r.user,
            department |-> r.department, status |-> r.status, overtaken |-> r.overtaken]
    \/ r = [kind |-> "assign", ticket |-> r.ticket, handler |-> r.handler]
    \/ r = [kind |-> "transfer", ticket |-> r.ticket, department |-> r.department,
            overtaken |-> r.overtaken]
    \/ r = [kind |-> "status", ticket |-> r.ticket, status |-> r.status]
    \/ r = [kind |-> "delete", id |-> r.id, department |-> r.department,
            overtaken |-> r.overtaken]
    \/ r = [kind |-> "update", id |-> r.id, department |-> r.department,
            rows |-> r.rows]

TicketShaped(x) ==
    x = NoTicket \/ x = Ticket(x.creator, x.department, x.status, x.handler)

HelpdeskShaped ==
    /\ departments \in [Depts -> [name : Names \cup {NoKey},
                                  state : {"unused", "active", "inactive", "deleted"}]]
    /\ members \in [Agents -> [role : Roles \cup {"none"}, departments : SUBSET Names]]
    /\ tickets = [t \in Tickets |-> tickets[t]]
    /\ \A t \in Tickets : TicketShaped(tickets[t])
    /\ request = [s \in Requests |-> request[s]]
    /\ \A s \in Requests : Shaped(request[s])
    /\ raced \subseteq Tickets

\* A user without a role has no departments.
RoleFirst == \A u \in Agents : members[u].role = "none" => members[u].departments = {}

\* idx_name, and the departments that are seeded are the first.
NamesApart == \A d, e \in Depts :
    Exists(d) /\ Exists(e) /\ departments[d].name = departments[e].name => d = e
NoneBefore == tables = "database_up" => \A d \in Depts : departments[d].state = "unused"

\* What a request has checked still stands, unless it was overtaken.
MoveStands(s) ==
    request[s].kind \in {"create", "transfer"} /\ request[s].overtaken # "yes"
        => request[s].department \in TakenNames
CountStands(s) ==
    request[s].kind = "delete" =>
        /\ request[s].id \in Depts /\ departments[request[s].id].state # "unused"
        /\ request[s].overtaken # "yes" /\ Exists(request[s].id) =>
              /\ departments[request[s].id].name = request[s].department
              /\ \A t \in Filed : tickets[t].department = request[s].department => t \in raced

TicketStands(s) ==
    /\ request[s].kind = "create" => request[s].ticket \in Tickets
    /\ request[s].kind \in {"assign", "transfer", "status"} => request[s].ticket \in Filed
    /\ request[s].kind = "update" => request[s].id \in Depts

HelpdeskInv ==
    /\ HelpdeskShaped /\ RoleFirst /\ NamesApart /\ NoneBefore
    /\ \A s \in Requests : MoveStands(s) /\ CountStands(s) /\ TicketStands(s)
    /\ TicketsKeepADepartment

(* The requests that are begun.                                            *)
LEMMA NewRequestShapes ==
  /\ Shaped(Idle) /\ Idle.kind = "idle"
  /\ \A t, u, n, k, o : LET r == [kind |-> "create", ticket |-> t, user |-> u,
                                  department |-> n, status |-> k, overtaken |-> o]
                        IN /\ Shaped(r) /\ r.kind = "create" /\ r.ticket = t
                           /\ r.department = n /\ r.overtaken = o
  /\ \A t, h : LET r == [kind |-> "assign", ticket |-> t, handler |-> h]
               IN Shaped(r) /\ r.kind = "assign" /\ r.ticket = t
  /\ \A t, n, o : LET r == [kind |-> "transfer", ticket |-> t, department |-> n, overtaken |-> o]
                  IN /\ Shaped(r) /\ r.kind = "transfer" /\ r.ticket = t
                     /\ r.department = n /\ r.overtaken = o
  /\ \A t, k : LET r == [kind |-> "status", ticket |-> t, status |-> k]
               IN Shaped(r) /\ r.kind = "status" /\ r.ticket = t
  /\ \A d, n, o : LET r == [kind |-> "delete", id |-> d, department |-> n, overtaken |-> o]
                  IN /\ Shaped(r) /\ r.kind = "delete" /\ r.id = d
                     /\ r.department = n /\ r.overtaken = o
  /\ \A d, n, x : LET r == [kind |-> "update", id |-> d, department |-> n, rows |-> x]
                  IN Shaped(r) /\ r.kind = "update" /\ r.id = d
  BY DEF Shaped, Idle

(* A request that is marked as overtaken.                                  *)
LEMMA OvertakenShape ==
  ASSUME NEW r, Shaped(r), r.kind \in {"create", "transfer", "delete"}
  PROVE  LET u == [r EXCEPT !.overtaken = "yes"]
         IN /\ Shaped(u) /\ u.kind = r.kind /\ u.department = r.department
            /\ u.overtaken = "yes" /\ (r.kind = "delete" => u.id = r.id)
            /\ r.kind # "delete" => u.ticket = r.ticket
  BY DEF Shaped, Idle

(* The tickets that are written.                                           *)
LEMMA TicketShapes ==
  /\ TicketShaped(NoTicket) /\ NoTicket.state = "none"
  /\ \A u, n, k, h : /\ TicketShaped(Ticket(u, n, k, h)) /\ Ticket(u, n, k, h).state = "filed"
                     /\ Ticket(u, n, k, h).department = n
  BY DEF TicketShaped, NoTicket, Ticket

(* A ticket gets another handler ...                                       *)
LEMMA HandlerChanges ==
  ASSUME NEW x, TicketShaped(x), x.state = "filed", NEW h
  PROVE  [x EXCEPT !.handler = h] = Ticket(x.creator, x.department, x.status, h)
  <1>1. x = [state |-> "filed", creator |-> x.creator, department |-> x.department,
             status |-> x.status, handler |-> x.handler]
    BY DEF TicketShaped, NoTicket, Ticket
  <1> QED BY <1>1 DEF Ticket

(* ... another status ...                                                  *)
LEMMA StatusChanges ==
  ASSUME NEW x, TicketShaped(x), x.state = "filed", NEW k
  PROVE  [x EXCEPT !.status = k] = Ticket(x.creator, x.department, k, x.handler)
  <1>1. x = [state |-> "filed", creator |-> x.creator, department |-> x.department,
             status |-> x.status, handler |-> x.handler]
    BY DEF TicketShaped, NoTicket, Ticket
  <1> QED BY <1>1 DEF Ticket

(* ... another department ...                                              *)
LEMMA NameChanges ==
  ASSUME NEW x, TicketShaped(x), x.state = "filed", NEW n
  PROVE  [x EXCEPT !.department = n] = Ticket(x.creator, n, x.status, x.handler)
  <1>1. x = [state |-> "filed", creator |-> x.creator, department |-> x.department,
             status |-> x.status, handler |-> x.handler]
    BY DEF TicketShaped, NoTicket, Ticket
  <1> QED BY <1>1 DEF Ticket

(* ... another department and no handler ...                               *)
LEMMA DepartmentChanges ==
  ASSUME NEW x, TicketShaped(x), x.state = "filed", NEW n, NEW h
  PROVE  [x EXCEPT !.department = n, !.handler = h] = Ticket(x.creator, n, x.status, h)
  <1>1. x = [state |-> "filed", creator |-> x.creator, department |-> x.department,
             status |-> x.status, handler |-> x.handler]
    BY DEF TicketShaped, NoTicket, Ticket
  <1> DEFINE y == [state |-> "filed", creator |-> x.creator, department |-> n,
                   status |-> x.status, handler |-> x.handler]
  <1>2. [x EXCEPT !.department = n] = y
    BY <1>1
  <1>3. [x EXCEPT !.department = n, !.handler = h] = [y EXCEPT !.handler = h]
    BY <1>2, Zenon
  <1> QED BY <1>3 DEF Ticket

(* ... or another department name and status.                              *)
LEMMA NameAndStatusChange ==
  ASSUME NEW x, TicketShaped(x), x.state = "filed", NEW n, NEW k
  PROVE  [x EXCEPT !.department = n, !.status = k] = Ticket(x.creator, n, k, x.handler)
  <1>1. x = [state |-> "filed", creator |-> x.creator, department |-> x.department,
             status |-> x.status, handler |-> x.handler]
    BY DEF TicketShaped, NoTicket, Ticket
  <1> DEFINE y == [state |-> "filed", creator |-> x.creator, department |-> n,
                   status |-> x.status, handler |-> x.handler]
  <1>2. [x EXCEPT !.department = n] = y
    BY <1>1
  <1>3. [x EXCEPT !.department = n, !.status = k] = [y EXCEPT !.status = k]
    BY <1>2, Zenon
  <1> QED BY <1>3 DEF Ticket

(* One request goes on, what it checked still stands.                      *)
LEMMA RequestStands ==
  ASSUME HelpdeskInv, NEW s \in Requests, NEW u, Shaped(u),
         request' = [request EXCEPT ![s] = u],
         UNCHANGED <<departments, members, tickets, raced, tables>>,
         MoveStands(s)', CountStands(s)', TicketStands(s)'
  PROVE  HelpdeskInv'
  <1>1. /\ request'[s] = u /\ request' = [r \in Requests |-> request'[r]]
        /\ \A r \in Requests : r # s => request'[r] = request[r]
    BY DEF HelpdeskInv, HelpdeskShaped
  <1>2. HelpdeskShaped'
    BY <1>1 DEF HelpdeskInv, HelpdeskShaped
  <1>3. TakenNames' = TakenNames /\ Filed' = Filed
    BY DEF TakenNames, Exists, Filed
  <1>4. \A r \in Requests : MoveStands(r)' /\ CountStands(r)' /\ TicketStands(r)'
    <2> TAKE r \in Requests
    <2>1. CASE r = s
      BY <2>1
    <2>2. CASE r # s
      BY <1>1, <1>3, <2>2 DEF HelpdeskInv, MoveStands, CountStands, TicketStands, Exists
    <2> QED BY <2>1, <2>2
  <1> QED BY <1>2, <1>3, <1>4 DEF HelpdeskInv, RoleFirst, NamesApart, NoneBefore, Exists,
                                 TicketsKeepADepartment

(* A step that only changes users, if any.                                 *)
LEMMA UsersChange ==
  ASSUME HelpdeskInv, UNCHANGED <<departments, tickets, request, raced, tables>>,
         members' \in [Agents -> [role : Roles \cup {"none"}, departments : SUBSET Names]],
         RoleFirst'
  PROVE  HelpdeskInv'
  <1>1. TakenNames' = TakenNames /\ Filed' = Filed
    BY DEF TakenNames, Exists, Filed
  <1>2. HelpdeskShaped'
    BY DEF HelpdeskInv, HelpdeskShaped
  <1>3. \A r \in Requests : MoveStands(r)' /\ CountStands(r)' /\ TicketStands(r)'
    BY <1>1 DEF HelpdeskInv, MoveStands, CountStands, TicketStands, Exists
  <1> QED BY <1>1, <1>2, <1>3 DEF HelpdeskInv, NamesApart, NoneBefore, Exists,
                                 TicketsKeepADepartment

(* The invariant holds at the start ...                                    *)
LEMMA HelpdeskInvInit == HelpdeskInit => HelpdeskInv
  <1> SUFFICES ASSUME HelpdeskInit PROVE HelpdeskInv
    OBVIOUS
  <1>1. /\ tickets = [t \in Tickets |-> NoTicket] /\ request = [s \in Requests |-> Idle]
        /\ departments = [d \in Depts |-> [name |-> NoKey, state |-> "unused"]] /\ raced = {}
    BY DEF HelpdeskInit
  <1>2. PICK chief \in Agents : members = [u \in Agents |->
           [role |-> IF u = chief THEN "Admin" ELSE "none", departments |-> {}]]
    BY DEF HelpdeskInit
  <1>3. \A u \in Agents : members[u] \in [role : Roles \cup {"none"}, departments : SUBSET Names]
                          /\ members[u].departments = {}
    BY <1>2 DEF Roles
  <1>4. members \in [Agents -> [role : Roles \cup {"none"}, departments : SUBSET Names]]
    BY <1>2, <1>3
  <1>5. \A d \in Depts : ~Exists(d) /\ departments[d].state = "unused"
    BY <1>1 DEF Exists
  <1>6. departments \in [Depts -> [name : Names \cup {NoKey},
                                  state : {"unused", "active", "inactive", "deleted"}]]
    BY <1>1
  <1>7. HelpdeskShaped
    BY <1>1, <1>4, <1>6, NewRequestShapes, TicketShapes DEF HelpdeskShaped
  <1>8. Filed = {}
    BY <1>1, TicketShapes DEF Filed
  <1>9. \A s \in Requests : MoveStands(s) /\ CountStands(s) /\ TicketStands(s)
    BY <1>1, NewRequestShapes DEF MoveStands, CountStands, TicketStands
  <1> QED BY <1>3, <1>5, <1>7, <1>8, <1>9
             DEF HelpdeskInv, RoleFirst, NamesApart, NoneBefore,
                                             TicketsKeepADepartment

(* The statement a request ends with: the ticket names a department that   *)
(* is taken, or is one of the excepted.                                    *)
LEMMA TicketIsWritten ==
  ASSUME HelpdeskInv, NEW s \in Requests, WriteTicket(s)
  PROVE  HelpdeskInv'
  <1> DEFINE r == request[s]
             t == request[s].ticket
  <1>1. /\ request' = [request EXCEPT ![s] = Idle]
        /\ UNCHANGED <<departments, members, tables>>
        /\ r.kind \in {"create", "assign", "transfer", "status"}
    BY DEF WriteTicket, End, adminVars
  <1>2. /\ request'[s] = Idle /\ request' = [q \in Requests |-> request'[q]]
        /\ \A q \in Requests : q # s => request'[q] = request[q]
    BY <1>1 DEF HelpdeskInv, HelpdeskShaped
  <1>3. /\ t \in Tickets /\ TicketShaped(tickets[t])
        /\ r.kind # "create" => t \in Filed /\ tickets[t].state = "filed"
    BY <1>1 DEF HelpdeskInv, HelpdeskShaped, TicketStands, Filed
  <1>4. PICK x : TicketShaped(x) /\ x.state = "filed" /\ tickets' = [tickets EXCEPT ![t] = x]
                 /\ \/ /\ r.kind \in {"create", "transfer"} /\ MarkRaced(s, t)
                       /\ x.department = r.department
                    \/ /\ r.kind \notin {"create", "transfer"} /\ raced' = raced /\ t \in Filed
                       /\ x.department = tickets[t].department
    <2> DEFINE c == tickets[t].creator
               n == tickets[t].department
               k == tickets[t].status
               h == tickets[t].handler
    <2>1. CASE r.kind = "create"
      <3>1. tickets' = [tickets EXCEPT ![t] = Ticket(r.user, r.department, r.status, NoAgent)]
            /\ MarkRaced(s, t)
        BY <2>1 DEF WriteTicket
      <3> DEFINE w == Ticket(r.user, r.department, r.status, NoAgent)
      <3>2. TicketShaped(w) /\ w.state = "filed" /\ w.department = r.department
        BY TicketShapes
      <3>3. tickets' = [tickets EXCEPT ![t] = w]
        BY <3>1
      <3> HIDE DEF w
      <3> WITNESS w
      <3> QED BY <2>1, <3>1, <3>2, <3>3
    <2>2. CASE r.kind = "assign"
      <3>1. tickets' = [tickets EXCEPT ![t].handler = r.handler] /\ raced' = raced
        BY <2>2 DEF WriteTicket
      <3> DEFINE w == Ticket(c, n, k, r.handler)
      <3>2. tickets[t].state = "filed"
        BY <1>3, <2>2
      <3>3. [tickets[t] EXCEPT !.handler = r.handler] = w
        BY <1>3, <3>2, HandlerChanges
      <3>4. tickets' = [tickets EXCEPT ![t] = w]
        BY <3>1, <3>3
      <3>5. TicketShaped(w) /\ w.state = "filed" /\ w.department = n
        BY TicketShapes
      <3> HIDE DEF w
      <3> WITNESS w
      <3> QED BY <1>3, <2>2, <3>1, <3>4, <3>5
    <2>3. CASE r.kind = "transfer"
      <3>1. tickets' = [tickets EXCEPT ![t].department = r.department, ![t].handler = NoAgent]
            /\ MarkRaced(s, t)
        BY <2>3 DEF WriteTicket
      <3> DEFINE w == Ticket(c, r.department, k, NoAgent)
      <3>2. tickets[t].state = "filed"
        BY <1>3, <2>3
      <3>3. [tickets[t] EXCEPT !.department = r.department, !.handler = NoAgent] = w
        BY <1>3, <3>2, DepartmentChanges
      <3>4. tickets' = [tickets EXCEPT ![t] = w]
        BY <3>1, <3>3
      <3>5. TicketShaped(w) /\ w.state = "filed" /\ w.department = r.department
        BY TicketShapes
      <3> HIDE DEF w
      <3> WITNESS w
      <3> QED BY <1>3, <2>3, <3>1, <3>4, <3>5
    <2>4. CASE r.kind = "status"
      <3>1. tickets' = [tickets EXCEPT ![t].status = r.status] /\ raced' = raced
        BY <2>4 DEF WriteTicket
      <3> DEFINE w == Ticket(c, n, r.status, h)
      <3>2. tickets[t].state = "filed"
        BY <1>3, <2>4
      <3>3. [tickets[t] EXCEPT !.status = r.status] = w
        BY <1>3, <3>2, StatusChanges
      <3>4. tickets' = [tickets EXCEPT ![t] = w]
        BY <3>1, <3>3
      <3>5. TicketShaped(w) /\ w.state = "filed" /\ w.department = n
        BY TicketShapes
      <3> HIDE DEF w
      <3> WITNESS w
      <3> QED BY <1>3, <2>4, <3>1, <3>4, <3>5
    <2> QED BY <1>1, <2>1, <2>2, <2>3, <2>4
  <1>5. /\ tickets' = [q \in Tickets |-> tickets'[q]] /\ tickets'[t] = x
        /\ \A q \in Tickets : q # t => tickets'[q] = tickets[q]
    BY <1>3, <1>4 DEF HelpdeskInv, HelpdeskShaped
  <1>6. TakenNames' = TakenNames /\ Filed' = Filed \cup {t} /\ t \in Filed'
    BY <1>1, <1>3, <1>4, <1>5 DEF TakenNames, Exists, Filed
  <1>7. /\ raced' \subseteq Tickets /\ raced \ {t} \subseteq raced'
        /\ r.kind \in {"create", "transfer"} /\ (r.overtaken = "yes" \/ Counted(x.department))
              => t \in raced'
        /\ \/ r.kind \in {"create", "transfer"} /\ x.department = r.department
           \/ /\ r.kind \notin {"create", "transfer"} /\ raced' = raced
              /\ t \in Filed /\ x.department = tickets[t].department
    <2>1. CASE MarkRaced(s, t) /\ r.kind \in {"create", "transfer"} /\ x.department = r.department
      BY <1>3, <2>1 DEF MarkRaced, HelpdeskInv, HelpdeskShaped
    <2>2. CASE /\ r.kind \notin {"create", "transfer"} /\ raced' = raced
               /\ t \in Filed /\ x.department = tickets[t].department
      BY <1>1, <1>3, <2>2 DEF HelpdeskInv, HelpdeskShaped
    <2> QED BY <1>4, <2>1, <2>2
  <1>8. HelpdeskShaped'
    BY <1>1, <1>2, <1>4, <1>5, <1>7, NewRequestShapes DEF HelpdeskInv, HelpdeskShaped
  <1>9. TicketsKeepADepartment'
    <2> SUFFICES ASSUME NEW q \in Filed' PROVE tickets'[q].department \in TakenNames \/ q \in raced'
      BY <1>6 DEF TicketsKeepADepartment
    <2>1. CASE q = t
      BY <1>5, <1>7, <2>1 DEF HelpdeskInv, MoveStands, TicketsKeepADepartment
    <2>2. CASE q # t
      <3>1. q \in Filed /\ q \in Tickets /\ tickets'[q] = tickets[q]
        BY <1>5, <1>6, <2>2 DEF Filed
      <3> QED BY <1>7, <2>2, <3>1 DEF HelpdeskInv, TicketsKeepADepartment
    <2> QED BY <2>1, <2>2
  <1>10. ASSUME NEW q \in Requests
         PROVE MoveStands(q)' /\ CountStands(q)' /\ TicketStands(q)'
    <2>1. CASE q = s
      BY <1>2, <2>1, NewRequestShapes DEF MoveStands, CountStands, TicketStands
    <2>2. CASE q # s
      <3>1. request'[q] = request[q] /\ MoveStands(q) /\ CountStands(q) /\ TicketStands(q)
        BY <1>2, <2>2 DEF HelpdeskInv
      <3>2. ASSUME request[q].kind = "delete", request[q].overtaken # "yes",
                   Exists(request[q].id), NEW p \in Filed',
                   tickets'[p].department = request[q].department
            PROVE  p \in raced'
        <4>1. CASE p = t
          <5>1. x.department = request[q].department /\ Counted(x.department)
            BY <1>5, <3>2, <4>1 DEF Counted
          <5> QED BY <1>7, <3>1, <3>2, <4>1, <5>1 DEF CountStands
        <4>2. CASE p # t
          <5>1. p \in Filed /\ p \in Tickets /\ tickets'[p] = tickets[p]
            BY <1>5, <1>6, <4>2 DEF Filed
          <5> QED BY <1>7, <3>1, <3>2, <4>2, <5>1 DEF CountStands
        <4> QED BY <4>1, <4>2
      <3>3. CountStands(q)'
        BY <1>1, <3>1, <3>2 DEF CountStands, Exists
      <3> QED BY <1>6, <3>1, <3>3 DEF MoveStands, TicketStands
    <2> QED BY <2>1, <2>2
  <1> QED BY <1>1, <1>8, <1>9, <1>10
             DEF HelpdeskInv, RoleFirst, NamesApart, NoneBefore, Exists

(* More departments are taken, under names of their own.                   *)
LEMMA MoreDepartments ==
  ASSUME HelpdeskInv, UNCHANGED <<members, tickets, request, raced>>,
         departments' \in [Depts -> [name : Names \cup {NoKey},
                                     state : {"unused", "active", "inactive", "deleted"}]],
         \A d \in Depts : departments[d].state # "unused" => departments'[d] = departments[d],
         NamesApart', tables' # "database_up"
  PROVE  HelpdeskInv'
  <1>1. \A d \in Depts : Exists(d) => Exists(d)' /\ departments'[d] = departments[d]
    BY DEF Exists
  <1>2. TakenNames \subseteq TakenNames' /\ Filed' = Filed
    BY <1>1 DEF TakenNames, Filed
  <1>3. HelpdeskShaped'
    BY DEF HelpdeskInv, HelpdeskShaped
  <1>4. ASSUME NEW q \in Requests
        PROVE MoveStands(q)' /\ CountStands(q)' /\ TicketStands(q)'
    <2>1. MoveStands(q) /\ CountStands(q) /\ TicketStands(q)
      BY DEF HelpdeskInv
    <2>2. CountStands(q)'
      <3>1. request[q].kind = "delete" =>
              /\ request[q].id \in Depts
              /\ departments'[request[q].id] = departments[request[q].id]
              /\ departments[request[q].id].state # "unused"
        BY <2>1 DEF CountStands
      <3> QED BY <1>2, <2>1, <3>1 DEF CountStands, Exists
    <2> QED BY <1>2, <2>1, <2>2 DEF MoveStands, TicketStands
  <1> QED BY <1>2, <1>3, <1>4 DEF HelpdeskInv, RoleFirst, NoneBefore, TicketsKeepADepartment

(* The seeded departments have names of their own.                         *)
LEMMA TablesAreMade == HelpdeskInv /\ EnsureHelpdeskTables => HelpdeskInv'
  <1> SUFFICES ASSUME HelpdeskInv, EnsureHelpdeskTables PROVE HelpdeskInv'
    OBVIOUS
  <1>1. CASE tables = "database_up"
    <2>1. /\ UNCHANGED <<members, tickets, request, raced>> /\ tables' = "created"
          /\ departments' = [d \in Depts |->
               IF d <= Len(SeedNames) THEN [name |-> SeedNames[d], state |-> "active"]
               ELSE departments[d]]
      BY <1>1 DEF EnsureHelpdeskTables
    <2>2. \A d \in Depts : departments[d].state = "unused"
      BY <1>1 DEF HelpdeskInv, NoneBefore
    <2>3. \A d \in Depts : d <= Len(SeedNames) => d \in 1..Len(SeedNames) /\ SeedNames[d] \in Names
      <3>1. SeedNames \in Seq(Names) /\ Len(SeedNames) \in Nat
        OBVIOUS
      <3> QED BY <3>1 DEF Depts
    <2>4. \A d \in Depts : departments'[d] =
            IF d <= Len(SeedNames) THEN [name |-> SeedNames[d], state |-> "active"]
            ELSE departments[d]
      BY <2>1
    <2>5. departments' \in [Depts -> [name : Names \cup {NoKey},
                                      state : {"unused", "active", "inactive", "deleted"}]]
      BY <2>1, <2>3 DEF HelpdeskInv, HelpdeskShaped
    <2>6. \A d \in Depts : Exists(d)' => /\ d \in 1..Len(SeedNames)
                                         /\ departments'[d].name = SeedNames[d]
      <3> TAKE d \in Depts
      <3>1. CASE d <= Len(SeedNames)
        <4>1. departments'[d] = [name |-> SeedNames[d], state |-> "active"]
          BY <2>4, <3>1
        <4> QED BY <2>3, <3>1, <4>1
      <3>2. CASE ~(d <= Len(SeedNames))
        <4>1. departments'[d] = departments[d]
          BY <2>4, <3>2
        <4> QED BY <2>2, <4>1 DEF Exists
      <3> QED BY <3>1, <3>2
    <2>7. NamesApart'
      BY <2>6 DEF NamesApart
    <2> QED BY <2>1, <2>2, <2>5, <2>7, MoreDepartments
  <1>2. CASE tables # "database_up"
    <2>1. /\ UNCHANGED <<departments, members, tickets, request, raced>>
          /\ tables' = "resolved_without"
      BY <1>2 DEF EnsureHelpdeskTables
    <2>2. NamesApart'
      BY <2>1 DEF HelpdeskInv, NamesApart, Exists
    <2> QED BY <2>1, <2>2, MoreDepartments DEF HelpdeskInv, HelpdeskShaped
  <1> QED BY <1>1, <1>2

(* A department is added under a free name.                                *)
LEMMA DepartmentIsAdded ==
  ASSUME HelpdeskInv, NEW u, NEW d \in Depts, NEW n \in Names,
         NEW state \in {"active", "inactive"}, NEW next, AddDepartment(u, d, n, state, next)
  PROVE  HelpdeskInv'
  <1>1. /\ UNCHANGED <<members, tickets, request, raced>> /\ tables' = "created"
        /\ departments' = [departments EXCEPT ![d] = [name |-> n, state |-> state]]
        /\ departments[d].state = "unused" /\ n \notin TakenNames
    BY DEF AddDepartment, Edit, Ready
  <1>2. departments' \in [Depts -> [name : Names \cup {NoKey},
                                    state : {"unused", "active", "inactive", "deleted"}]]
    BY <1>1 DEF HelpdeskInv, HelpdeskShaped
  <1>3. /\ departments'[d] = [name |-> n, state |-> state]
        /\ \A e \in Depts : e # d => departments'[e] = departments[e]
    BY <1>1 DEF HelpdeskInv, HelpdeskShaped
  <1>4. \A e \in Depts : Exists(e)' /\ e # d => Exists(e) /\ departments'[e].name # n
    BY <1>1, <1>3 DEF Exists, TakenNames
  <1>5. NamesApart'
    BY <1>3, <1>4 DEF HelpdeskInv, NamesApart
  <1> QED BY <1>1, <1>2, <1>3, <1>5, MoreDepartments

(* What Overtake leaves of a request, and marks.                           *)
LEMMA OvertakeMarks ==
  ASSUME HelpdeskInv, NEW old, NEW q \in Requests
  PROVE  LET u == Overtake(old)[q]
         IN /\ Shaped(u) /\ u.kind = request[q].kind
            /\ u.kind \in {"create", "transfer", "delete"} => u.department = request[q].department
            /\ u.kind \in {"delete", "update"} => u.id = request[q].id
            /\ u.kind # "delete" => u.ticket = request[q].ticket
            /\ u.kind \in {"create", "transfer", "delete"} /\ u.overtaken # "yes" =>
                  /\ request[q].overtaken # "yes" /\ request[q].department # old
                  /\ u = request[q]
  <1> DEFINE u == Overtake(old)[q]
  <1>1. Shaped(request[q])
    BY DEF HelpdeskInv, HelpdeskShaped
  <1>2. CASE /\ request[q].kind \in {"create", "transfer", "delete"}
             /\ request[q].department = old
    <2>1. u = [request[q] EXCEPT !.overtaken = "yes"]
      BY <1>2 DEF Overtake
    <2> QED BY <1>1, <1>2, <2>1, OvertakenShape
  <1>3. CASE ~(/\ request[q].kind \in {"create", "transfer", "delete"}
               /\ request[q].department = old)
    <2>1. u = request[q]
      BY <1>3 DEF Overtake
    <2> QED BY <1>1, <1>3, <2>1
  <1> QED BY <1>2, <1>3

(* A department goes: its requests are overtaken, and its tickets are      *)
(* excepted, unless the count still stands.                                *)
LEMMA DepartmentIsDeleted ==
  ASSUME HelpdeskInv, NEW s \in Requests, DeleteDepartment(s)
  PROVE  HelpdeskInv'
  <1> DEFINE d == request[s].id
             name == departments[request[s].id].name
  <1>1. /\ request[s].kind = "delete" /\ tables' = tables /\ UNCHANGED <<members, tickets>>
    BY DEF DeleteDepartment, Edit
  <1>2. d \in Depts
    BY <1>1 DEF HelpdeskInv, CountStands
  <1>3. CASE ~Exists(d)
    <2>1. /\ request' = [request EXCEPT ![s] = Idle]
          /\ UNCHANGED <<departments, members, tickets, raced, tables>>
      BY <1>1, <1>3 DEF DeleteDepartment, End
    <2>2. request'[s] = Idle
      BY <2>1 DEF HelpdeskInv, HelpdeskShaped
    <2>3. MoveStands(s)' /\ CountStands(s)' /\ TicketStands(s)'
      BY <2>2, NewRequestShapes DEF MoveStands, CountStands, TicketStands
    <2> QED BY <2>1, <2>3, NewRequestShapes, RequestStands
  <1>4. CASE Exists(d)
    <2>1. /\ departments' = [departments EXCEPT ![d].state = "deleted"]
          /\ request' = [Overtake(name) EXCEPT ![s] = Idle]
          /\ raced' = IF request[s].overtaken = "no" THEN raced
                      ELSE raced \cup {t \in Filed : tickets[t].department = name}
      BY <1>4 DEF DeleteDepartment
    <2>2. /\ request'[s] = Idle /\ request' = [q \in Requests |-> request'[q]]
          /\ \A q \in Requests : q # s => request'[q] = Overtake(name)[q]
      BY <2>1 DEF Overtake
    <2>3. /\ departments' \in [Depts -> [name : Names \cup {NoKey},
                                         state : {"unused", "active", "inactive", "deleted"}]]
          /\ departments'[d].name = name /\ departments'[d].state = "deleted"
          /\ \A e \in Depts : e # d => departments'[e] = departments[e]
      <3> DEFINE u == [departments[d] EXCEPT !.state = "deleted"]
      <3>1. departments[d] \in [name : Names \cup {NoKey},
                                state : {"unused", "active", "inactive", "deleted"}]
        BY <1>2 DEF HelpdeskInv, HelpdeskShaped
      <3>2. /\ u \in [name : Names \cup {NoKey},
                      state : {"unused", "active", "inactive", "deleted"}]
            /\ u.name = name /\ u.state = "deleted"
        BY <3>1
      <3>3. departments' = [departments EXCEPT ![d] = u]
        BY <2>1
      <3> HIDE DEF u
      <3> QED BY <1>2, <3>2, <3>3 DEF HelpdeskInv, HelpdeskShaped
    <2>4. Filed' = Filed /\ raced \subseteq raced' /\ raced' \subseteq Tickets
      BY <1>1, <2>1 DEF Filed, HelpdeskInv, HelpdeskShaped
    <2>5. \A e \in Depts : Exists(e)' => Exists(e) /\ e # d
      BY <2>3 DEF Exists
    <2>6. \A e \in Depts : Exists(e) /\ e # d => Exists(e)' /\ departments'[e] = departments[e]
      BY <2>3 DEF Exists
    <2>7. ASSUME NEW m \in TakenNames, m # name PROVE m \in TakenNames'
      BY <2>6, <2>7 DEF TakenNames
    <2>8. NamesApart' /\ NoneBefore'
      BY <1>1, <1>2, <1>4, <2>3, <2>5 DEF HelpdeskInv, NamesApart, NoneBefore, Exists
    <2>9. HelpdeskShaped'
      <3>1. \A q \in Requests : Shaped(request'[q])
        BY <2>2, NewRequestShapes, OvertakeMarks
      <3> QED BY <1>1, <2>2, <2>3, <2>4, <3>1 DEF HelpdeskInv, HelpdeskShaped
    <2>10. ASSUME NEW t \in Filed', tickets'[t].department = name PROVE t \in raced'
      <3>1. CASE request[s].overtaken = "no"
        BY <1>1, <1>4, <2>4, <2>10, <3>1 DEF HelpdeskInv, CountStands
      <3>2. CASE request[s].overtaken # "no"
        BY <1>1, <2>1, <2>4, <2>10, <3>2
      <3> QED BY <3>1, <3>2
    <2>11. TicketsKeepADepartment'
      BY <1>1, <2>4, <2>7, <2>10 DEF HelpdeskInv, TicketsKeepADepartment
    <2>12. ASSUME NEW q \in Requests
           PROVE MoveStands(q)' /\ CountStands(q)' /\ TicketStands(q)'
      <3>1. CASE q = s
        BY <2>2, <3>1, NewRequestShapes DEF MoveStands, CountStands, TicketStands
      <3>2. CASE q # s
        <4> DEFINE u == Overtake(name)[q]
        <4>1. /\ request'[q] = u /\ u.kind = request[q].kind
              /\ u.kind \in {"create", "transfer", "delete"} =>
                    u.department = request[q].department
              /\ u.kind \in {"delete", "update"} => u.id = request[q].id
              /\ u.kind # "delete" => u.ticket = request[q].ticket
              /\ u.kind \in {"create", "transfer", "delete"} /\ u.overtaken # "yes" =>
                    request[q].overtaken # "yes" /\ request[q].department # name
          BY <2>2, <3>2, OvertakeMarks
        <4> HIDE DEF u
        <4>2. MoveStands(q) /\ CountStands(q) /\ TicketStands(q)
          BY DEF HelpdeskInv
        <4>3. MoveStands(q)'
          BY <2>7, <4>1, <4>2 DEF MoveStands
        <4>4. TicketStands(q)'
          BY <2>4, <4>1, <4>2 DEF TicketStands
        <4>5. CountStands(q)'
          BY <1>1, <2>3, <2>4, <2>5, <4>1, <4>2 DEF CountStands
        <4> QED BY <4>3, <4>4, <4>5
      <3> QED BY <3>1, <3>2
    <2> QED BY <1>1, <2>8, <2>9, <2>11, <2>12 DEF HelpdeskInv, RoleFirst
  <1> QED BY <1>3, <1>4

(* A rename reaches every ticket that has the name that was read.          *)
LEMMA CarriedTicket ==
  ASSUME HelpdeskInv, NEW s \in Requests, NEW n, NEW state, NEW next, NEW default,
         UpdateDepartment(s, n, state, next, default), NEW t \in Tickets
  PROVE  LET old == request[s].department
             to  == IF n = NoKey THEN old ELSE n
         IN /\ TicketShaped(tickets'[t])
            /\ tickets'[t].state = tickets[t].state
            /\ t \in Filed => tickets'[t].department = Carry(old, to, tickets[t].department)
  <1> DEFINE x == tickets[t]
             old == request[s].department
             to == IF n = NoKey THEN old ELSE n
             k == IF next = << >> THEN x.status
                  ELSE StatusAfter(request[s].rows, next, default, x.status)
  <1>1. TicketShaped(x)
    BY DEF HelpdeskInv, HelpdeskShaped
  <1>2. tickets'[t] =
           IF t \notin Filed \/ Carry(old, to, x.department) # to THEN x
           ELSE [x EXCEPT !.department = to,
                          !.status = IF next = << >> THEN @
                                     ELSE StatusAfter(request[s].rows, next, default, @)]
    BY DEF UpdateDepartment
  <1> HIDE DEF to
  <1>3. CASE t \notin Filed \/ Carry(old, to, x.department) # to
    BY <1>1, <1>2, <1>3 DEF Carry, to
  <1>4. CASE ~(t \notin Filed \/ Carry(old, to, x.department) # to)
    <2>1. x.state = "filed"
      BY <1>4 DEF Filed
    <2>2. tickets'[t] = [x EXCEPT !.department = to, !.status = k]
      BY <1>2, <1>4, Zenon
    <2> HIDE DEF k
    <2>3. tickets'[t] = Ticket(x.creator, to, k, x.handler)
      BY <1>1, <2>1, <2>2, NameAndStatusChange
    <2> QED BY <1>4, <2>1, <2>3, TicketShapes DEF to
  <1> QED BY <1>3, <1>4

(* A department is renamed, with all who have the name that was read;      *)
(* those that have the name it had by then are excepted, if it is another. *)
LEMMA DepartmentIsUpdated ==
  ASSUME HelpdeskInv, NEW s \in Requests, NEW n \in Names \cup {NoKey},
         NEW state \in {"active", "inactive"}, NEW next, NEW default,
         UpdateDepartment(s, n, state, next, default)
  PROVE  HelpdeskInv'
  <1> DEFINE d == request[s].id
             old == request[s].department
             name == departments[d].name
             to == IF n = NoKey THEN old ELSE n
             kept == IF n = NoKey THEN name ELSE n
  <1>1. /\ departments' = [departments EXCEPT ![d] = [name |-> kept, state |-> state]]
        /\ members' = [v \in Agents |-> [members[v] EXCEPT
                         !.departments = {Carry(old, to, m) : m \in @}]]
        /\ request' = [(IF kept = name THEN request ELSE Overtake(name)) EXCEPT ![s] = Idle]
        /\ raced' = raced \cup {t \in Filed :
                       \/ tickets[t].department = name /\ name \notin {old, kept}
                       \/ tickets[t].department = old /\ to # old /\ Counted(to)}
        /\ Exists(d) /\ (kept = name \/ kept \notin TakenNames)
        /\ tables = "created" /\ UNCHANGED tables
        /\ request[s].kind = "update"
    BY DEF UpdateDepartment, Edit, Ready
  <1>0. d \in Depts
    BY <1>1 DEF HelpdeskInv, TicketStands
  <1>2. /\ \A t \in Tickets : TicketShaped(tickets'[t]) /\ tickets'[t].state = tickets[t].state
        /\ \A t \in Filed : tickets'[t].department = Carry(old, to, tickets[t].department)
    BY CarriedTicket DEF Filed
  <1>3. tickets' = [t \in Tickets |-> tickets'[t]]
    BY DEF UpdateDepartment
  <1>4. Filed' = Filed /\ raced \subseteq raced' /\ raced' \subseteq Tickets
    BY <1>1, <1>2 DEF Filed, HelpdeskInv, HelpdeskShaped
  <1>a. /\ to # old => to = kept /\ to \in Names
        /\ kept # name => kept = to
    OBVIOUS
  <1>b. kept \in Names \cup {NoKey}
    <2>1. departments[d].name \in Names \cup {NoKey}
      BY <1>0 DEF HelpdeskInv, HelpdeskShaped
    <2> QED BY <2>1
  <1> HIDE DEF to, kept, name, old, d
  <1>5. /\ departments'[d].name = kept /\ departments'[d].state = state
        /\ \A e \in Depts : e # d => departments'[e] = departments[e]
        /\ departments' \in [Depts -> [name : Names \cup {NoKey},
                                       state : {"unused", "active", "inactive", "deleted"}]]
    BY <1>0, <1>1, <1>b DEF HelpdeskInv, HelpdeskShaped
  <1>6. \A e \in Depts : Exists(e)' <=> Exists(e)
    BY <1>0, <1>1, <1>5 DEF Exists
  <1>7. kept \in TakenNames' /\ \A m \in TakenNames : m # name => m \in TakenNames'
    BY <1>0, <1>1, <1>5, <1>6 DEF TakenNames, name
  <1>8. \A e \in Depts : Exists(e) /\ e # d => departments[e].name # name /\ departments[e].name # kept
    BY <1>0, <1>1 DEF HelpdeskInv, NamesApart, TakenNames, name
  <1>9. NamesApart'
    BY <1>5, <1>6, <1>8 DEF HelpdeskInv, NamesApart
  <1>10. members' \in [Agents -> [role : Roles \cup {"none"}, departments : SUBSET Names]]
         /\ RoleFirst'
    <2>1. ASSUME NEW v \in Agents
          PROVE  /\ members'[v] \in [role : Roles \cup {"none"}, departments : SUBSET Names]
                 /\ members'[v].role = members[v].role
                 /\ members'[v].departments = {Carry(old, to, m) : m \in members[v].departments}
      <3>1. members[v] \in [role : Roles \cup {"none"}, departments : SUBSET Names]
        BY DEF HelpdeskInv, HelpdeskShaped
      <3> DEFINE now == {Carry(old, to, m) : m \in members[v].departments}
      <3>2. now \in SUBSET Names
        BY <1>a, <3>1 DEF Carry
      <3>3. members'[v] = [members[v] EXCEPT !.departments = now]
        BY <1>1
      <3> HIDE DEF now
      <3>4. /\ members'[v] \in [role : Roles \cup {"none"}, departments : SUBSET Names]
            /\ members'[v].role = members[v].role /\ members'[v].departments = now
        BY <3>1, <3>2, <3>3
      <3> QED BY <3>4 DEF now
    <2>2. members' \in [Agents -> [role : Roles \cup {"none"}, departments : SUBSET Names]]
      BY <1>1, <2>1
    <2>3. RoleFirst'
      BY <2>1 DEF HelpdeskInv, RoleFirst
    <2> QED BY <2>2, <2>3
  <1>c. /\ request'[s] = Idle /\ request' = [q \in Requests |-> request'[q]]
        /\ \A q \in Requests : q # s =>
              request'[q] = IF kept = name THEN request[q] ELSE Overtake(name)[q]
    BY <1>1 DEF HelpdeskInv, HelpdeskShaped, Overtake
  <1>11. ASSUME NEW q \in Requests, q # s
         PROVE  /\ Shaped(request'[q]) /\ request'[q].kind = request[q].kind
                /\ request'[q].kind \in {"create", "transfer", "delete"} =>
                      request'[q].department = request[q].department
                /\ request'[q].kind \in {"delete", "update"} => request'[q].id = request[q].id
                /\ request'[q].kind # "delete" => request'[q].ticket = request[q].ticket
                /\ request'[q].kind \in {"create", "transfer", "delete"}
                     /\ request'[q].overtaken # "yes" =>
                      /\ request[q].overtaken # "yes"
                      /\ kept # name => request[q].department # name
    <2>1. CASE kept = name
      BY <1>c, <1>11, <2>1 DEF HelpdeskInv, HelpdeskShaped
    <2>2. CASE kept # name
      BY <1>c, <1>11, <2>2, OvertakeMarks
    <2> QED BY <2>1, <2>2
  <1>13. HelpdeskShaped'
    <2>1. \A q \in Requests : Shaped(request'[q])
      BY <1>c, <1>11, NewRequestShapes
    <2> QED BY <1>2, <1>3, <1>4, <1>5, <1>10, <1>c, <2>1 DEF HelpdeskShaped
  <1>14. TicketsKeepADepartment'
    <2>1. ASSUME NEW t \in Filed
          PROVE  tickets'[t].department \in TakenNames' \/ t \in raced'
      <3>1. CASE tickets[t].department = old /\ to # old
        BY <1>2, <1>7, <1>a, <3>1 DEF Carry
      <3>2. CASE ~(tickets[t].department = old /\ to # old)
        <4>1. tickets'[t].department = tickets[t].department
          BY <1>2, <3>2 DEF Carry
        <4>2. tickets[t].department \in TakenNames \/ t \in raced
          BY DEF HelpdeskInv, TicketsKeepADepartment
        <4>3. CASE tickets[t].department = name /\ kept # name
          BY <1>1, <1>a, <3>2, <4>3
        <4> QED BY <1>4, <1>7, <4>1, <4>2, <4>3
      <3> QED BY <3>1, <3>2
    <2> QED BY <1>4, <2>1 DEF TicketsKeepADepartment
  <1>15. ASSUME NEW q \in Requests
         PROVE MoveStands(q)' /\ CountStands(q)' /\ TicketStands(q)'
    <2>0. CASE q = s
      BY <1>c, <2>0, NewRequestShapes DEF MoveStands, CountStands, TicketStands
    <2>1. CASE q # s
      <3>1. MoveStands(q) /\ CountStands(q) /\ TicketStands(q)
        BY DEF HelpdeskInv
      <3>2. MoveStands(q)'
        BY <1>7, <1>11, <2>1, <3>1 DEF MoveStands
      <3>3. TicketStands(q)'
        BY <1>4, <1>11, <2>1, <3>1 DEF TicketStands
      <3>4. ASSUME request'[q].kind = "delete" PROVE CountStands(q)'
        <4>2. /\ request[q].kind = "delete" /\ request'[q].id = request[q].id
              /\ request'[q].department = request[q].department
              /\ request[q].id \in Depts /\ departments[request[q].id].state # "unused"
          BY <1>11, <2>1, <3>1, <3>4 DEF CountStands
        <4>3. departments'[request[q].id].state # "unused"
          BY <1>5, <4>2
        <4>4. ASSUME request'[q].overtaken # "yes", Exists(request[q].id)
              PROVE  /\ departments'[request[q].id].name = request[q].department
                     /\ \A t \in Filed :
                           tickets'[t].department = request[q].department => t \in raced'
          <5>1. /\ departments[request[q].id].name = request[q].department
                /\ \A t \in Filed : tickets[t].department = request[q].department => t \in raced
            BY <1>11, <2>1, <3>1, <3>4, <4>2, <4>4 DEF CountStands
          <5>2. Counted(request[q].department)
            BY <4>2 DEF Counted
          <5>3. departments'[request[q].id].name = request[q].department
            <6>1. CASE request[q].id = d
              <7>1. kept = name
                BY <1>11, <2>1, <3>4, <4>4, <5>1, <6>1 DEF name
              <7> QED BY <1>5, <5>1, <6>1, <7>1 DEF name
            <6>2. CASE request[q].id # d
              BY <1>5, <4>2, <5>1, <6>2
            <6> QED BY <6>1, <6>2
          <5>4. ASSUME NEW t \in Filed, tickets'[t].department = request[q].department
                PROVE  t \in raced'
            <6>1. CASE tickets[t].department = old /\ to # old
              <7>1. tickets'[t].department = to
                BY <1>2, <6>1 DEF Carry
              <7> QED BY <1>1, <5>2, <5>4, <6>1, <7>1
            <6>2. CASE ~(tickets[t].department = old /\ to # old)
              <7>1. tickets'[t].department = tickets[t].department
                BY <1>2, <6>2 DEF Carry
              <7> QED BY <1>4, <5>1, <5>4, <7>1
            <6> QED BY <6>1, <6>2
          <5> QED BY <5>3, <5>4
        <4> QED BY <1>4, <1>6, <4>2, <4>3, <4>4 DEF CountStands
      <3>5. CountStands(q)'
        BY <3>4 DEF CountStands
      <3> QED BY <3>2, <3>3, <3>5
    <2> QED BY <2>0, <2>1
  <1> QED BY <1>1, <1>9, <1>10, <1>13, <1>14, <1>15 DEF HelpdeskInv, NoneBefore

(* ... or is rolled back.                                                  *)
LEMMA UpdateIsRolledBack ==
  ASSUME HelpdeskInv, NEW s \in Requests, UpdateRollsBack(s)
  PROVE  HelpdeskInv'
  <1>1. /\ request' = [request EXCEPT ![s] = Idle]
        /\ UNCHANGED <<departments, members, tickets, raced, tables>>
    BY DEF UpdateRollsBack, End, adminVars
  <1>2. request'[s] = Idle
    BY <1>1 DEF HelpdeskInv, HelpdeskShaped
  <1>3. MoveStands(s)' /\ CountStands(s)' /\ TicketStands(s)'
    BY <1>2, NewRequestShapes DEF MoveStands, CountStands, TicketStands
  <1> QED BY <1>1, <1>3, NewRequestShapes, RequestStands

(* A request checks what it will write.                                    *)
LEMMA TicketingKeeps ==
  ASSUME HelpdeskInv, Ticketing
  PROVE  HelpdeskInv'
  <1>1. PICK s \in Requests, u \in Agents :
          \/ \E n \in Names, t \in Tickets : CreateTicket(s, u, n, t)
          \/ \E t \in Tickets, h \in Agents \cup {NoAgent} : AssignHandler(s, u, t, h)
          \/ \E t \in Tickets, d \in Depts : TransferTicketDepartment(s, u, t, d)
          \/ \E t \in Tickets, k \in Keys : ChangeStatus(s, u, t, k)
          \/ \E t \in Tickets : AddNote(u, t)
          \/ \E d \in Depts : CheckDeleteDepartment(s, u, d) \/ CheckUpdateDepartment(s, u, d)
    BY DEF Ticketing
  <1>2. ASSUME NEW r, Begin(s, r), Shaped(r),
               MoveStands(s)', CountStands(s)', TicketStands(s)'
        PROVE  HelpdeskInv'
    <2>1. /\ request' = [request EXCEPT ![s] = r]
          /\ UNCHANGED <<departments, members, tickets, raced, tables>>
      BY <1>2 DEF Begin, adminVars
    <2> QED BY <1>2, <2>1, RequestStands
  <1>3. ASSUME NEW r, Begin(s, r)
        PROVE  request'[s] = r /\ Filed' = Filed /\ TakenNames' = TakenNames
               /\ UNCHANGED <<departments, tickets, raced>>
    BY <1>3 DEF Begin, adminVars, HelpdeskInv, HelpdeskShaped, Filed, TakenNames, Exists
  <1>4. ASSUME NEW n \in Names, NEW t \in Tickets, CreateTicket(s, u, n, t)
        PROVE HelpdeskInv'
    <2>1. PICK k : Begin(s, [kind |-> "create", ticket |-> t, user |-> u,
                             department |-> n, status |-> k, overtaken |-> "no"])
      BY <1>4 DEF CreateTicket
    <2> DEFINE r == [kind |-> "create", ticket |-> t, user |-> u,
                     department |-> n, status |-> k, overtaken |-> "no"]
    <2>2. Shaped(r) /\ r.kind = "create" /\ r.ticket = t /\ r.department = n
      BY NewRequestShapes
    <2>3. Begin(s, r)
      BY <2>1
    <2> HIDE DEF r
    <2>4. n \in TakenNames
      BY <1>4 DEF CreateTicket, TakenNames, Active, Exists
    <2>5. MoveStands(s)' /\ CountStands(s)' /\ TicketStands(s)'
      BY <1>3, <2>2, <2>3, <2>4 DEF MoveStands, CountStands, TicketStands
    <2> QED BY <1>2, <2>2, <2>3, <2>5
  <1>5. ASSUME NEW t \in Tickets, NEW h \in Agents \cup {NoAgent}, AssignHandler(s, u, t, h)
        PROVE  HelpdeskInv'
    <2> DEFINE r == [kind |-> "assign", ticket |-> t, handler |-> h]
    <2>2. Shaped(r) /\ r.kind = "assign" /\ r.ticket = t
      BY NewRequestShapes
    <2>3. Begin(s, r) /\ t \in Filed
      BY <1>5 DEF AssignHandler
    <2> HIDE DEF r
    <2>5. MoveStands(s)' /\ CountStands(s)' /\ TicketStands(s)'
      BY <1>3, <2>2, <2>3 DEF MoveStands, CountStands, TicketStands
    <2> QED BY <1>2, <2>2, <2>3, <2>5
  <1>6. ASSUME NEW t \in Tickets, NEW d \in Depts, TransferTicketDepartment(s, u, t, d)
        PROVE  HelpdeskInv'
    <2> DEFINE r == [kind |-> "transfer", ticket |-> t,
                     department |-> departments[d].name, overtaken |-> "no"]
    <2>2. /\ Shaped(r) /\ r.kind = "transfer" /\ r.ticket = t
          /\ r.department = departments[d].name
      BY NewRequestShapes
    <2>3. Begin(s, r) /\ t \in Filed
      BY <1>6 DEF TransferTicketDepartment
    <2> HIDE DEF r
    <2>4. departments[d].name \in TakenNames
      BY <1>6 DEF TransferTicketDepartment, TakenNames, Active, Exists
    <2>5. MoveStands(s)' /\ CountStands(s)' /\ TicketStands(s)'
      BY <1>3, <2>2, <2>3, <2>4 DEF MoveStands, CountStands, TicketStands
    <2> QED BY <1>2, <2>2, <2>3, <2>5
  <1>7. ASSUME NEW t \in Tickets, NEW k \in Keys, ChangeStatus(s, u, t, k)
        PROVE HelpdeskInv'
    <2> DEFINE r == [kind |-> "status", ticket |-> t, status |-> k]
    <2>2. Shaped(r) /\ r.kind = "status" /\ r.ticket = t
      BY NewRequestShapes
    <2>3. Begin(s, r) /\ t \in Filed
      BY <1>7 DEF ChangeStatus
    <2> HIDE DEF r
    <2>5. MoveStands(s)' /\ CountStands(s)' /\ TicketStands(s)'
      BY <1>3, <2>2, <2>3 DEF MoveStands, CountStands, TicketStands
    <2> QED BY <1>2, <2>2, <2>3, <2>5
  <1>8. ASSUME NEW t \in Tickets, AddNote(u, t) PROVE HelpdeskInv'
    <2>1. UNCHANGED <<departments, members, tickets, request, raced, tables>>
      BY <1>8 DEF AddNote, adminVars
    <2> QED BY <2>1, UsersChange DEF HelpdeskInv, HelpdeskShaped, RoleFirst
  <1>9. ASSUME NEW d \in Depts, CheckDeleteDepartment(s, u, d) PROVE HelpdeskInv'
    <2> DEFINE r == [kind |-> "delete", id |-> d, department |-> departments[d].name,
                     overtaken |-> "no"]
    <2>2. Shaped(r) /\ r.kind = "delete" /\ r.id = d /\ r.department = departments[d].name
      BY NewRequestShapes
    <2>3. Begin(s, r) /\ Exists(d) /\ \A t \in Filed : tickets[t].department # departments[d].name
      BY <1>9 DEF CheckDeleteDepartment
    <2> HIDE DEF r
    <2>4. departments'[d].state # "unused" /\ departments'[d].name = departments[d].name
          /\ \A t \in Filed' : tickets'[t].department # departments[d].name
      BY <1>3, <2>3 DEF Exists
    <2>5. MoveStands(s)' /\ CountStands(s)' /\ TicketStands(s)'
      BY <1>3, <2>2, <2>3, <2>4 DEF MoveStands, CountStands, TicketStands
    <2> QED BY <1>2, <2>2, <2>3, <2>5
  <1>10. ASSUME NEW d \in Depts, CheckUpdateDepartment(s, u, d) PROVE HelpdeskInv'
    <2> DEFINE r == [kind |-> "update", id |-> d, department |-> departments[d].name,
                     rows |-> statuses[d]]
    <2>2. Shaped(r) /\ r.kind = "update" /\ r.id = d
      BY NewRequestShapes
    <2>3. Begin(s, r)
      BY <1>10 DEF CheckUpdateDepartment
    <2> HIDE DEF r
    <2>5. MoveStands(s)' /\ CountStands(s)' /\ TicketStands(s)'
      BY <1>3, <2>2, <2>3 DEF MoveStands, CountStands, TicketStands
    <2> QED BY <1>2, <2>2, <2>3, <2>5
  <1> QED BY <1>1, <1>4, <1>5, <1>6, <1>7, <1>8, <1>9, <1>10

(* A change by an administrator.                                           *)
LEMMA AdministrationKeeps ==
  ASSUME HelpdeskInv, Administration
  PROVE  HelpdeskInv'
  <1>1. PICK u \in Agents :
          \/ \E v \in Agents, appointment \in Appointments :
               SetHelpdeskUser(u, v, appointment) \/ UpdateHelpdeskUser(u, v, appointment)
          \/ \E v \in Agents : DeleteHelpdeskUser(u, v)
          \/ \E d \in Depts, n \in Names, state \in {"active", "inactive"} :
               \E next \in Proposals : AddDepartment(u, d, n, state, next)
          \/ \E d \in Depts, listed \in {"open", "listed"} :
               SetDepartmentPermissions(u, d, listed)
    BY DEF Administration
  <1> DEFINE Member == [role : Roles \cup {"none"}, departments : SUBSET Names]
  <1>2. ASSUME NEW v \in Agents, NEW x \in Member, x.role = "none" => x.departments = {},
               members' = [members EXCEPT ![v] = x],
               UNCHANGED <<departments, tickets, request, raced, tables>>
        PROVE  HelpdeskInv'
    <2>1. members' \in [Agents -> Member] /\ RoleFirst'
      BY <1>2 DEF HelpdeskInv, HelpdeskShaped, RoleFirst
    <2> QED BY <1>2, <2>1, UsersChange
  <1>3. ASSUME NEW v \in Agents, NEW appointment \in Appointments,
               SetHelpdeskUser(u, v, appointment)
        PROVE  HelpdeskInv'
    <2>1. appointment \in [role : {"Admin", "Editor", "Viewer"}, departments : SUBSET Names]
      OBVIOUS
    <2>2. appointment \in Member /\ appointment.role # "none"
      BY <2>1 DEF Roles
    <2> QED BY <1>2, <1>3, <2>2 DEF SetHelpdeskUser, Edit
  <1>4. ASSUME NEW v \in Agents, DeleteHelpdeskUser(u, v) PROVE HelpdeskInv'
    <2> DEFINE x == [role |-> "none", departments |-> {}]
    <2>1. x \in Member /\ x.departments = {}
      OBVIOUS
    <2>2. members' = [members EXCEPT ![v] = x]
          /\ UNCHANGED <<departments, tickets, request, raced, tables>>
      BY <1>4 DEF DeleteHelpdeskUser, Edit
    <2> HIDE DEF x
    <2> QED BY <1>2, <2>1, <2>2
  <1>5. ASSUME NEW d \in Depts, NEW listed, SetDepartmentPermissions(u, d, listed)
        PROVE  HelpdeskInv'
    <2>1. UNCHANGED <<departments, members, tickets, request, raced, tables>>
      BY <1>5 DEF SetDepartmentPermissions, Edit
    <2> QED BY <2>1, UsersChange DEF HelpdeskInv, HelpdeskShaped, RoleFirst
  <1> QED BY <1>1, <1>3, <1>4, <1>5, DepartmentIsAdded DEF UpdateHelpdeskUser

(* ... and every step keeps it.                                            *)
LEMMA HelpdeskInvStep == HelpdeskInv /\ [HelpdeskNext]_helpdeskVars => HelpdeskInv'
  <1> SUFFICES ASSUME HelpdeskInv, [HelpdeskNext]_helpdeskVars PROVE HelpdeskInv'
    OBVIOUS
  <1>1. CASE UNCHANGED helpdeskVars
    <2>1. UNCHANGED <<departments, members, tickets, request, raced, tables>>
      BY <1>1 DEF helpdeskVars
    <2> QED BY <2>1, UsersChange DEF HelpdeskInv, HelpdeskShaped, RoleFirst
  <1>2. CASE Updating
    BY <1>2, DepartmentIsUpdated DEF Updating
  <1> QED BY <1>1, <1>2, TablesAreMade, TicketingKeeps, AdministrationKeeps, TicketIsWritten,
             DepartmentIsDeleted, UpdateIsRolledBack DEF HelpdeskNext

(* Every ticket names a department that exists, unless a request was       *)
(* overtaken between its check and its write (the helpdesk handlers), for  *)
(* any departments, tickets, requests and number of edits.                 *)
THEOREM TicketsKeepADepartmentInvariant == HelpdeskSpec => []TicketsKeepADepartment
  <1>1. HelpdeskInv => TicketsKeepADepartment
    BY DEF HelpdeskInv
  <1> QED BY HelpdeskInvInit, HelpdeskInvStep, <1>1, PTL DEF HelpdeskSpec

(* What a list of tickets shows a user, that user may open                 *)
(* (/helpdesk/tickets/user, MayRead), for any users, departments and       *)
(* tickets.                                                                *)
THEOREM ListedIsReadableInvariant == HelpdeskSpec => []ListedIsReadable
  <1>1. HelpdeskInv => ListedIsReadable
    <2> SUFFICES ASSUME HelpdeskInv, NEW u \in Agents, NEW t \in ListedFor(u) PROVE MayRead(u, t)
      BY DEF ListedIsReadable
    <2>1. members[u].role \in Roles \cup {"none"}
      BY DEF HelpdeskInv, HelpdeskShaped
    <2>2. members[u].departments # {} => members[u].role \in Roles
      BY <2>1 DEF HelpdeskInv, RoleFirst
    <2> QED BY <2>2 DEF ListedFor, MayRead, CanView
  <1> QED BY HelpdeskInvInit, HelpdeskInvStep, <1>1, PTL DEF HelpdeskSpec

HIDE HelpdeskAssumption

-----------------------------------------------------------------------------
(* The types. The renames of a form are a recursive function of its        *)
(* entries; what it makes of a key is a key.                               *)
USE HelpdeskAssumption

(* A form has one or two entries, and its new rows fit the table.          *)
LEMMA ProposalsAreLists ==
  ASSUME NEW next \in Proposals
  PROVE  /\ Len(next) \in 1..2 /\ next \in [1..Len(next) -> Entries]
         /\ NewRows(next) \in Nat /\ lastRow + NewRows(next) <= MaxRow
  <1>1. PICK n \in 1..2 : next \in [1..n -> Entries]
    BY DEF Proposals
  <1>2. next \in Seq(Entries) /\ Len(next) = n
    BY <1>1, SeqDef, LenProperties
  <1> DEFINE new == {i \in 1..Len(next) : next[i].id = 0}
  <1>3. IsFiniteSet(1..n)
    BY <1>1, FS_Interval
  <1>4. IsFiniteSet(new)
    <2>1. new \subseteq 1..n
      BY <1>2
    <2> HIDE DEF new
    <2> QED BY <2>1, <1>3, FS_Subset
  <1>5. NewRows(next) = Cardinality(new)
    BY DEF NewRows
  <1> HIDE DEF new
  <1>6. Cardinality(new) \in Nat
    BY <1>4, FS_CardinalityType
  <1> QED BY <1>1, <1>2, <1>5, <1>6 DEF Proposals

(* The renames of a form, one after the other, turn a key into a key.      *)
LEMMA RenamedIsAKey ==
  ASSUME NEW rows, NEW next \in Proposals, NEW key \in Keys
  PROVE  Renamed(rows, next, key) \in Keys
  <1> DEFINE n == Len(next)
             Go(i, k) == IF /\ next[i].id \in Rows
                            /\ rows[next[i].id] = k
                         THEN next[i].key ELSE k
             Is(f) == f = [i \in 0..n |->
                IF i = 0 THEN key
                ELSE IF /\ next[i].id \in Rows
                        /\ rows[next[i].id] = f[i-1]
                     THEN next[i].key
                     ELSE f[i-1]]
             g == [i \in 0..n |-> IF i = 0 THEN key ELSE IF i = 1 THEN Go(1, key)
                                  ELSE Go(2, Go(1, key))]
             h == CHOOSE f : Is(f)
  <1>1. n \in 1..2 /\ next \in [1..n -> Entries]
    BY ProposalsAreLists
  <1>2. Renamed(rows, next, key) = h[n]
    BY DEF Renamed
  <1>3. Is(g)
    <2>1. \A i \in 0..n : i = 0 \/ i = 1 \/ i = 2
      BY <1>1
    <2>2. 0 \in 0..n /\ 1 \in 0..n /\ g[0] = key /\ g[1] = Go(1, key)
      BY <1>1
    <2>3. 2 \in 0..n => g[2] = Go(2, Go(1, key))
      BY <1>1
    <2> QED BY <2>1, <2>2, <2>3
  <1> HIDE DEF g
  <1>4. Is(h)
    BY <1>3
  <1> HIDE DEF h
  <1>5. \A k \in Keys, i \in 1..n : Go(i, k) \in Keys
    BY <1>1 DEF Entries
  <1>6. h[0] = key /\ h[1] = Go(1, h[0])
    BY <1>1, <1>4
  <1>7. n = 2 => h[2] = Go(2, h[1])
    BY <1>1, <1>4
  <1> HIDE DEF Go
  <1> QED BY <1>1, <1>2, <1>5, <1>6, <1>7

(* The rows that are written hold keys.                                    *)
LEMMA RowsAreKeys ==
  ASSUME NEW read, NEW rows \in [Rows -> Keys \cup {NoKey}], NEW next \in Proposals
  PROVE  RowsAfter(read, rows, next) \in [Rows -> Keys \cup {NoKey}]
  <1>1. \A i \in 1..Len(next) : next[i].key \in Keys
    BY ProposalsAreLists DEF Entries
  <1>2. \A i \in Written(rows, next) : next[i].key \in Keys
    BY <1>1 DEF Written
  <1> DEFINE Has(r) == \E i \in Written(rows, next) : RowOf(next, i) = r
             At(r) == CHOOSE i \in Written(rows, next) : RowOf(next, i) = r
  <1>3. \A r \in Rows : Has(r) => At(r) \in Written(rows, next)
    OBVIOUS
  <1>4. RowsAfter(read, rows, next) =
           [r \in Rows |-> IF Has(r) THEN next[At(r)].key
                           ELSE IF read[r] # NoKey /\ r \notin Ids(next) THEN NoKey ELSE rows[r]]
    BY DEF RowsAfter
  <1> HIDE DEF Has, At
  <1> QED BY <1>2, <1>3, <1>4

(* The invariant above has the types of departments, users and overtaken   *)
(* tickets; this is the rest.                                              *)
LEMMA RestKeepsType ==
  ASSUME HelpdeskInv', HelpdeskTypeOK,
         \A d \in Depts : Exists(d)' => departments'[d].name \in Names,
         statuses' \in [Depts -> [Rows -> Keys \cup {NoKey}]],
         lastRow' \in 0..MaxRow, acl' \in [Depts -> {"open", "listed"}],
         tickets' \in [Tickets -> TicketRecord], notes' \in [Tickets -> SUBSET Agents],
         request' \in [Requests -> RequestRecord],
         tables' \in {"database_up", "database_down", "created", "resolved_without"},
         edits' \in 0..MaxEdits
  PROVE  HelpdeskTypeOK'
  BY DEF HelpdeskInv, HelpdeskShaped, HelpdeskTypeOK, DeptRecord

(* The rows that are seeded: each default status of each department has a  *)
(* row of its own.                                                         *)
LEMMA TypeOfTables ==
  ASSUME HelpdeskInv, HelpdeskInv', HelpdeskTypeOK, EnsureHelpdeskTables
  PROVE  HelpdeskTypeOK'
  <1> DEFINE n == Len(SeedNames)
             l == Len(SeedKeys)
  <1>1. CASE tables = "database_up"
    <2>1. /\ n \in Nat /\ l \in Nat /\ SeedNames \in [1..n -> Names] /\ SeedKeys \in [1..l -> Keys]
          /\ n * l <= MaxRow /\ n * l \in Nat
      BY LenProperties
    <2>2. /\ departments' = [d \in Depts |->
               IF d <= n THEN [name |-> SeedNames[d], state |-> "active"] ELSE departments[d]]
          /\ statuses' = [d \in Depts |-> [r \in Rows |->
               IF d <= n /\ SeedRow(d) < r /\ r <= SeedRow(d + 1)
               THEN SeedKeys[r - SeedRow(d)] ELSE NoKey]]
          /\ lastRow' = SeedRow(n + 1) /\ tables' = "created"
          /\ UNCHANGED <<members, acl, tickets, notes, request, raced, edits>>
      BY <1>1 DEF EnsureHelpdeskTables
    <2>3. lastRow' \in 0..MaxRow
      BY <2>1, <2>2 DEF SeedRow
    <2>4. \A d \in Depts, r \in Rows : SeedRow(d) < r /\ r <= SeedRow(d + 1) =>
             r - SeedRow(d) \in 1..l
      <3> TAKE d \in Depts, r \in Rows
      <3>1. d \in Int /\ r \in Int /\ l \in Int
        BY <2>1 DEF Depts, Rows
      <3>2. SeedRow(d + 1) = SeedRow(d) + l /\ SeedRow(d) \in Int
        BY <3>1 DEF SeedRow
      <3> QED BY <3>1, <3>2
    <2>5. statuses' \in [Depts -> [Rows -> Keys \cup {NoKey}]]
      <3>1. \A d \in Depts, r \in Rows :
              (IF d <= n /\ SeedRow(d) < r /\ r <= SeedRow(d + 1)
               THEN SeedKeys[r - SeedRow(d)] ELSE NoKey) \in Keys \cup {NoKey}
        BY <2>1, <2>4
      <3> QED BY <2>2, <3>1
    <2>6. \A d \in Depts : Exists(d)' => departments'[d].name \in Names
      <3> TAKE d \in Depts
      <3>1. CASE d <= n
        <4>1. departments'[d] = [name |-> SeedNames[d], state |-> "active"]
          BY <2>2, <3>1
        <4>2. d \in 1..n
          BY <2>1, <3>1 DEF Depts
        <4> QED BY <2>1, <4>1, <4>2
      <3>2. CASE ~(d <= n)
        <4>1. departments'[d] = departments[d]
          BY <2>2, <3>2
        <4> QED BY <4>1 DEF Exists, HelpdeskTypeOK
      <3> QED BY <3>1, <3>2
    <2> QED BY <2>2, <2>3, <2>5, <2>6, RestKeepsType DEF HelpdeskTypeOK
  <1>2. CASE tables # "database_up"
    <2>1. /\ UNCHANGED <<departments, statuses, lastRow, members, acl, tickets, notes, request,
                         raced, edits>>
          /\ tables' = "resolved_without"
      BY <1>2 DEF EnsureHelpdeskTables
    <2> QED BY <2>1, RestKeepsType DEF HelpdeskTypeOK, Exists
  <1> QED BY <1>1, <1>2

(* A request begins.                                                       *)
LEMMA TypeOfRequest ==
  ASSUME HelpdeskInv', HelpdeskTypeOK, NEW s \in Requests, NEW r \in RequestRecord, Begin(s, r)
  PROVE  HelpdeskTypeOK'
  BY RestKeepsType DEF Begin, adminVars, HelpdeskTypeOK, Exists

(* A request that was checked will write what there is.                    *)
LEMMA TypeOfTicketing ==
  ASSUME HelpdeskInv, HelpdeskInv', HelpdeskTypeOK, Ticketing
  PROVE  HelpdeskTypeOK'
  <1>1. PICK s \in Requests, u \in Agents :
          \/ \E n \in Names, t \in Tickets : CreateTicket(s, u, n, t)
          \/ \E t \in Tickets, h \in Agents \cup {NoAgent} : AssignHandler(s, u, t, h)
          \/ \E t \in Tickets, d \in Depts : TransferTicketDepartment(s, u, t, d)
          \/ \E t \in Tickets, k \in Keys : ChangeStatus(s, u, t, k)
          \/ \E t \in Tickets : AddNote(u, t)
          \/ \E d \in Depts : CheckDeleteDepartment(s, u, d) \/ CheckUpdateDepartment(s, u, d)
    BY DEF Ticketing
  <1>2. ASSUME NEW n \in Names, NEW t \in Tickets, CreateTicket(s, u, n, t)
        PROVE  HelpdeskTypeOK'
    <2>0. PICK d \in Depts : \E k \in KeysOf(statuses[d]) :
             Begin(s, [kind |-> "create", ticket |-> t, user |-> u,
                       department |-> n, status |-> k, overtaken |-> "no"])
      BY <1>2 DEF CreateTicket
    <2>1. PICK k \in KeysOf(statuses[d]) :
             Begin(s, [kind |-> "create", ticket |-> t, user |-> u,
                       department |-> n, status |-> k, overtaken |-> "no"])
      BY <2>0
    <2>2. k \in Keys
      <3>1. statuses[d] \in [Rows -> Keys \cup {NoKey}]
        BY DEF HelpdeskTypeOK
      <3>2. Defaults \subseteq Keys
        BY LenProperties DEF Defaults
      <3> QED BY <3>1, <3>2 DEF KeysOf
    <2>3. [kind |-> "create", ticket |-> t, user |-> u, department |-> n, status |-> k,
           overtaken |-> "no"] \in RequestRecord
      BY <2>2 DEF RequestRecord, YesNo
    <2> QED BY <2>1, <2>3, TypeOfRequest
  <1>3. ASSUME NEW t \in Tickets, NEW h \in Agents \cup {NoAgent}, AssignHandler(s, u, t, h)
        PROVE  HelpdeskTypeOK'
    <2>1. [kind |-> "assign", ticket |-> t, handler |-> h] \in RequestRecord
      BY DEF RequestRecord
    <2> QED BY <1>3, <2>1, TypeOfRequest DEF AssignHandler
  <1>4. ASSUME NEW t \in Tickets, NEW d \in Depts, TransferTicketDepartment(s, u, t, d)
        PROVE  HelpdeskTypeOK'
    <2>1. departments[d].name \in Names
      BY <1>4 DEF TransferTicketDepartment, Active, Exists, HelpdeskTypeOK
    <2>2. [kind |-> "transfer", ticket |-> t, department |-> departments[d].name,
           overtaken |-> "no"] \in RequestRecord
      BY <2>1 DEF RequestRecord, YesNo
    <2> QED BY <1>4, <2>2, TypeOfRequest DEF TransferTicketDepartment
  <1>5. ASSUME NEW t \in Tickets, NEW k \in Keys, ChangeStatus(s, u, t, k)
        PROVE  HelpdeskTypeOK'
    <2>1. [kind |-> "status", ticket |-> t, status |-> k] \in RequestRecord
      BY DEF RequestRecord
    <2> QED BY <1>5, <2>1, TypeOfRequest DEF ChangeStatus
  <1>6. ASSUME NEW t \in Tickets, AddNote(u, t) PROVE HelpdeskTypeOK'
    <2>1. /\ notes' = [notes EXCEPT ![t] = @ \cup {u}]
          /\ UNCHANGED <<departments, statuses, lastRow, members, acl, edits, tickets, request,
                         raced, tables>>
      BY <1>6 DEF AddNote, adminVars
    <2>2. notes' \in [Tickets -> SUBSET Agents]
      BY <2>1 DEF HelpdeskTypeOK
    <2> QED BY <2>1, <2>2, RestKeepsType DEF HelpdeskTypeOK, Exists
  <1>7. ASSUME NEW d \in Depts, CheckDeleteDepartment(s, u, d) PROVE HelpdeskTypeOK'
    <2>1. departments[d].name \in Names
      BY <1>7 DEF CheckDeleteDepartment, HelpdeskTypeOK
    <2>2. [kind |-> "delete", id |-> d, department |-> departments[d].name,
           overtaken |-> "no"] \in RequestRecord
      BY <2>1 DEF RequestRecord, YesNo
    <2> QED BY <1>7, <2>2, TypeOfRequest DEF CheckDeleteDepartment
  <1>8. ASSUME NEW d \in Depts, CheckUpdateDepartment(s, u, d) PROVE HelpdeskTypeOK'
    <2>1. departments[d].name \in Names /\ statuses[d] \in [Rows -> Keys \cup {NoKey}]
      BY <1>8 DEF CheckUpdateDepartment, HelpdeskTypeOK
    <2>2. [kind |-> "update", id |-> d, department |-> departments[d].name,
           rows |-> statuses[d]] \in RequestRecord
      BY <2>1 DEF RequestRecord
    <2> QED BY <1>8, <2>2, TypeOfRequest DEF CheckUpdateDepartment
  <1> QED BY <1>1, <1>2, <1>3, <1>4, <1>5, <1>6, <1>7, <1>8

(* A filed ticket has all its fields, and one that is written has, too.    *)
LEMMA FiledTickets ==
  /\ \A x \in TicketRecord : x.state = "filed" =>
        /\ x.creator \in Agents /\ x.department \in Names /\ x.status \in Keys
        /\ x.handler \in Agents \cup {NoAgent} /\ TicketShaped(x)
  /\ \A u \in Agents, n \in Names, k \in Keys, h \in Agents \cup {NoAgent} :
        Ticket(u, n, k, h) \in TicketRecord
  BY DEF TicketRecord, NoTicket, Ticket, TicketShaped

(* The statement a request ends with writes a ticket.                      *)
LEMMA TypeOfWrite ==
  ASSUME HelpdeskInv, HelpdeskInv', HelpdeskTypeOK, NEW s \in Requests, WriteTicket(s)
  PROVE  HelpdeskTypeOK'
  <1> DEFINE r == request[s]
             t == request[s].ticket
             c == tickets[t].creator
             n == tickets[t].department
             k == tickets[t].status
             h == tickets[t].handler
  <1>1. /\ request' = [request EXCEPT ![s] = Idle] /\ r \in RequestRecord
        /\ UNCHANGED <<departments, statuses, lastRow, members, acl, edits, notes, tables>>
        /\ r.kind \in {"create", "assign", "transfer", "status"}
    BY DEF WriteTicket, End, adminVars, HelpdeskTypeOK
  <1>2. /\ t \in Tickets
        /\ r.kind = "create" => r.user \in Agents /\ r.department \in Names /\ r.status \in Keys
        /\ r.kind = "assign" => r.handler \in Agents \cup {NoAgent}
        /\ r.kind = "transfer" => r.department \in Names
        /\ r.kind = "status" => r.status \in Keys
    BY <1>1 DEF RequestRecord, Idle
  <1>3. request' \in [Requests -> RequestRecord]
    BY <1>1 DEF RequestRecord, HelpdeskTypeOK
  <1>4. /\ tickets[t] \in TicketRecord
        /\ r.kind # "create" =>
              /\ tickets[t].state = "filed" /\ TicketShaped(tickets[t])
              /\ c \in Agents /\ n \in Names /\ k \in Keys /\ h \in Agents \cup {NoAgent}
    <2>1. tickets[t] \in TicketRecord
      BY <1>2 DEF HelpdeskTypeOK
    <2>2. r.kind # "create" => tickets[t].state = "filed"
      BY <1>1 DEF HelpdeskInv, TicketStands, Filed
    <2> QED BY <2>1, <2>2, FiledTickets
  <1>5. PICK x \in TicketRecord : tickets' = [tickets EXCEPT ![t] = x]
    <2>1. CASE r.kind = "create"
      BY <1>2, <2>1, FiledTickets DEF WriteTicket
    <2>2. CASE r.kind = "assign"
      <3>1. tickets' = [tickets EXCEPT ![t].handler = r.handler]
        BY <2>2 DEF WriteTicket
      <3>2. [tickets[t] EXCEPT !.handler = r.handler] = Ticket(c, n, k, r.handler)
        BY <1>4, <2>2, HandlerChanges
      <3>3. tickets' = [tickets EXCEPT ![t] = Ticket(c, n, k, r.handler)]
        BY <3>1, <3>2
      <3> QED BY <1>2, <1>4, <2>2, <3>3, FiledTickets
    <2>3. CASE r.kind = "transfer"
      <3>1. tickets' = [tickets EXCEPT ![t].department = r.department, ![t].handler = NoAgent]
        BY <2>3 DEF WriteTicket
      <3>2. [tickets[t] EXCEPT !.department = r.department, !.handler = NoAgent] =
               Ticket(c, r.department, k, NoAgent)
        BY <1>4, <2>3, DepartmentChanges
      <3>3. tickets' = [tickets EXCEPT ![t] = Ticket(c, r.department, k, NoAgent)]
        BY <3>1, <3>2
      <3> QED BY <1>2, <1>4, <2>3, <3>3, FiledTickets
    <2>4. CASE r.kind = "status"
      <3>1. tickets' = [tickets EXCEPT ![t].status = r.status]
        BY <2>4 DEF WriteTicket
      <3>2. [tickets[t] EXCEPT !.status = r.status] = Ticket(c, n, r.status, h)
        BY <1>4, <2>4, StatusChanges
      <3>3. tickets' = [tickets EXCEPT ![t] = Ticket(c, n, r.status, h)]
        BY <3>1, <3>2
      <3> QED BY <1>2, <1>4, <2>4, <3>3, FiledTickets
    <2> QED BY <1>1, <2>1, <2>2, <2>3, <2>4
  <1>6. tickets' \in [Tickets -> TicketRecord]
    BY <1>2, <1>5 DEF HelpdeskTypeOK
  <1> QED BY <1>1, <1>3, <1>6, RestKeepsType DEF HelpdeskTypeOK, Exists

(* What Overtake leaves of a request has its type.                         *)
LEMMA OvertakenTyped ==
  ASSUME HelpdeskTypeOK, NEW old PROVE Overtake(old) \in [Requests -> RequestRecord]
  <1>1. ASSUME NEW r \in RequestRecord, r.kind \in {"create", "transfer", "delete"}
        PROVE  [r EXCEPT !.overtaken = "yes"] \in RequestRecord
    BY <1>1 DEF RequestRecord, YesNo, Idle
  <1>2. \A q \in Requests : request[q] \in RequestRecord
    BY DEF HelpdeskTypeOK
  <1> QED BY <1>1, <1>2 DEF Overtake

(* A department goes with its rows.                                        *)
LEMMA TypeOfDeletion ==
  ASSUME HelpdeskInv, HelpdeskInv', HelpdeskTypeOK, NEW s \in Requests, DeleteDepartment(s)
  PROVE  HelpdeskTypeOK'
  <1> DEFINE d == request[s].id
             name == departments[request[s].id].name
  <1>1. /\ edits' \in 0..MaxEdits /\ UNCHANGED <<lastRow, members, tickets, notes, tables>>
        /\ request[s].kind = "delete"
    BY DEF DeleteDepartment, Edit, HelpdeskTypeOK
  <1>2. d \in Depts /\ Idle \in RequestRecord
    BY <1>1 DEF HelpdeskInv, CountStands, RequestRecord
  <1>3. CASE ~Exists(d)
    <2>1. /\ request' = [request EXCEPT ![s] = Idle]
          /\ UNCHANGED <<departments, statuses, acl, raced>>
      BY <1>3 DEF DeleteDepartment, End
    <2>2. request' \in [Requests -> RequestRecord]
      BY <1>2, <2>1 DEF HelpdeskTypeOK
    <2> QED BY <1>1, <2>1, <2>2, RestKeepsType DEF HelpdeskTypeOK, Exists
  <1>4. CASE Exists(d)
    <2>1. /\ departments' = [departments EXCEPT ![d].state = "deleted"]
          /\ statuses' = [statuses EXCEPT ![d] = NoRows]
          /\ acl' = [acl EXCEPT ![d] = "open"]
          /\ request' = [Overtake(name) EXCEPT ![s] = Idle]
      BY <1>4 DEF DeleteDepartment
    <2>2. statuses' \in [Depts -> [Rows -> Keys \cup {NoKey}]]
      BY <1>2, <2>1 DEF HelpdeskTypeOK, NoRows
    <2>3. acl' \in [Depts -> {"open", "listed"}]
      BY <1>2, <2>1 DEF HelpdeskTypeOK
    <2>4. request' \in [Requests -> RequestRecord]
      BY <1>2, <2>1, OvertakenTyped
    <2>5. \A e \in Depts : Exists(e)' => Exists(e) /\ departments'[e] = departments[e]
      <3>1. departments'[d].state = "deleted" /\ \A e \in Depts : e # d =>
               departments'[e] = departments[e]
        BY <1>2, <2>1 DEF HelpdeskTypeOK, DeptRecord
      <3> QED BY <3>1 DEF Exists
    <2> QED BY <1>1, <2>2, <2>3, <2>4, <2>5, RestKeepsType DEF HelpdeskTypeOK
  <1> QED BY <1>3, <1>4

(* A department is added with the rows of its form.                        *)
LEMMA TypeOfAdding ==
  ASSUME HelpdeskInv', HelpdeskTypeOK, NEW u, NEW d \in Depts, NEW n \in Names,
         NEW state, NEW next \in Proposals, AddDepartment(u, d, n, state, next)
  PROVE  HelpdeskTypeOK'
  <1>1. /\ departments' = [departments EXCEPT ![d] = [name |-> n, state |-> state]]
        /\ statuses' = [statuses EXCEPT ![d] = RowsAfter(NoRows, NoRows, next)]
        /\ lastRow' = lastRow + NewRows(next)
        /\ edits' \in 0..MaxEdits /\ UNCHANGED <<members, acl, tickets, request, raced, notes, tables>>
    BY DEF AddDepartment, Edit, HelpdeskTypeOK
  <1>2. statuses' \in [Depts -> [Rows -> Keys \cup {NoKey}]]
    <2>1. NoRows \in [Rows -> Keys \cup {NoKey}]
      BY DEF NoRows
    <2>2. RowsAfter(NoRows, NoRows, next) \in [Rows -> Keys \cup {NoKey}]
      BY <2>1, RowsAreKeys
    <2> QED BY <1>1, <2>2 DEF HelpdeskTypeOK
  <1>3. lastRow' \in 0..MaxRow
    BY <1>1, ProposalsAreLists DEF HelpdeskTypeOK
  <1>4. \A e \in Depts : Exists(e)' => departments'[e].name \in Names
    <2>1. departments'[d].name = n /\ \A e \in Depts : e # d => departments'[e] = departments[e]
      BY <1>1 DEF HelpdeskTypeOK
    <2> QED BY <2>1 DEF HelpdeskTypeOK, Exists
  <1> QED BY <1>1, <1>2, <1>3, <1>4, RestKeepsType DEF HelpdeskTypeOK

(* A department is renamed and its statuses replaced: tickets get keys.    *)
LEMMA TypeOfRename ==
  ASSUME HelpdeskInv, HelpdeskInv', HelpdeskTypeOK, NEW s \in Requests,
         NEW n \in Names \cup {NoKey}, NEW state, NEW next, NEW default,
         UpdateDepartment(s, n, state, next, default),
         next # << >> => next \in Proposals /\ default \in Keys
  PROVE  HelpdeskTypeOK'
  <1> DEFINE d == request[s].id
             old == request[s].department
             name == departments[d].name
             to == IF n = NoKey THEN old ELSE n
             kept == IF n = NoKey THEN name ELSE n
  <1>1. /\ departments' = [departments EXCEPT ![d] = [name |-> kept, state |-> state]]
        /\ statuses' = (IF next = << >> THEN statuses
                        ELSE [statuses EXCEPT ![d] = RowsAfter(request[s].rows, @, next)])
        /\ lastRow' = lastRow + NewRows(next)
        /\ request' = [(IF kept = name THEN request ELSE Overtake(name)) EXCEPT ![s] = Idle]
        /\ Edit /\ UNCHANGED acl /\ request[s].kind = "update" /\ Exists(d)
    BY DEF UpdateDepartment
  <1>0. /\ edits' \in 0..MaxEdits /\ UNCHANGED <<notes, tables>>
        /\ d \in Depts
    BY <1>1, SMTT(30) DEF Edit, HelpdeskTypeOK, HelpdeskInv, TicketStands
  <1>a. Idle \in RequestRecord /\ kept \in Names /\ to \in Names
    <2>1. request[s] \in RequestRecord
      BY DEF HelpdeskTypeOK
    <2>2. request[s].department \in Names
      BY <1>1, <2>1 DEF RequestRecord, Idle
    <2>3. departments[d].name \in Names
      BY <1>0, <1>1 DEF HelpdeskTypeOK
    <2>4. Idle \in RequestRecord
      BY DEF RequestRecord
    <2> QED BY <2>2, <2>3, <2>4
  <1> HIDE DEF d, old, name, to, kept
  <1>2. statuses' \in [Depts -> [Rows -> Keys \cup {NoKey}]]
    <2>1. CASE next = << >>
      BY <1>1, <2>1 DEF HelpdeskTypeOK
    <2>2. CASE next # << >>
      <3>0. statuses[d] \in [Rows -> Keys \cup {NoKey}]
        BY <1>0 DEF HelpdeskTypeOK
      <3>1. RowsAfter(request[s].rows, statuses[d], next) \in [Rows -> Keys \cup {NoKey}]
        BY <2>2, <3>0, RowsAreKeys
      <3>2. statuses' = [statuses EXCEPT ![d] = RowsAfter(request[s].rows, statuses[d], next)]
        BY <1>1, <2>2
      <3> QED BY <3>1, <3>2 DEF HelpdeskTypeOK
    <2> QED BY <2>1, <2>2
  <1>3. lastRow' \in 0..MaxRow
    <2>1. CASE next = << >>
      <3>1. {i \in 1..Len(<< >>) : << >>[i].id = 0} = {}
        BY EmptySeq
      <3>2. NewRows(<< >>) = 0
        BY <3>1, FS_EmptySet DEF NewRows
      <3> QED BY <1>1, <2>1, <3>2 DEF HelpdeskTypeOK
    <2>2. CASE next # << >>
      BY <1>1, <2>2, ProposalsAreLists DEF HelpdeskTypeOK
    <2> QED BY <2>1, <2>2
  <1>4. \A e \in Depts : Exists(e)' => departments'[e].name \in Names
    <2>1. departments'[d].name = kept /\ \A e \in Depts : e # d => departments'[e] = departments[e]
      BY <1>0, <1>1 DEF HelpdeskTypeOK
    <2> QED BY <1>a, <2>1 DEF HelpdeskTypeOK, Exists
  <1>5. request' \in [Requests -> RequestRecord]
    BY <1>1, <1>a, OvertakenTyped DEF HelpdeskTypeOK
  <1>6. ASSUME NEW t \in Tickets PROVE tickets'[t] \in TicketRecord
    <2> DEFINE x == tickets[t]
               k == IF next = << >> THEN x.status
                    ELSE StatusAfter(request[s].rows, next, default, x.status)
    <2>1. tickets'[t] =
             IF t \notin Filed \/ Carry(old, to, x.department) # to THEN x
             ELSE [x EXCEPT !.department = to,
                            !.status = IF next = << >> THEN @
                                       ELSE StatusAfter(request[s].rows, next, default, @)]
      BY DEF UpdateDepartment, to, old
    <2>2. x \in TicketRecord
      BY DEF HelpdeskTypeOK
    <2>3. CASE t \notin Filed \/ Carry(old, to, x.department) # to
      BY <2>1, <2>2, <2>3
    <2>4. CASE ~(t \notin Filed \/ Carry(old, to, x.department) # to)
      <3>1. /\ x.state = "filed" /\ x.creator \in Agents /\ x.status \in Keys
            /\ x.handler \in Agents \cup {NoAgent} /\ TicketShaped(x)
        BY <2>2, <2>4, FiledTickets DEF Filed
      <3>2. tickets'[t] = [x EXCEPT !.department = to, !.status = k]
        BY <2>1, <2>4, Zenon
      <3>3. k \in Keys
        BY <3>1, RenamedIsAKey DEF StatusAfter
      <3> HIDE DEF k
      <3>4. tickets'[t] = Ticket(x.creator, to, k, x.handler)
        BY <3>1, <3>2, NameAndStatusChange
      <3> QED BY <1>a, <3>1, <3>3, <3>4, FiledTickets
    <2> QED BY <2>3, <2>4
  <1>7. tickets' \in [Tickets -> TicketRecord]
    BY <1>6 DEF UpdateDepartment
  <1> QED BY <1>0, <1>1, <1>2, <1>3, <1>4, <1>5, <1>7, RestKeepsType DEF HelpdeskTypeOK

(* ... or nothing is.                                                      *)
LEMMA TypeOfRollBack ==
  ASSUME HelpdeskInv', HelpdeskTypeOK, NEW s \in Requests, UpdateRollsBack(s)
  PROVE  HelpdeskTypeOK'
  <1>1. /\ request' = [request EXCEPT ![s] = Idle]
        /\ UNCHANGED <<departments, statuses, lastRow, members, acl, edits, tickets, notes,
                       raced, tables>>
    BY DEF UpdateRollsBack, End, adminVars
  <1>2. request' \in [Requests -> RequestRecord]
    BY <1>1 DEF HelpdeskTypeOK, RequestRecord
  <1> QED BY <1>1, <1>2, RestKeepsType DEF HelpdeskTypeOK, Exists

(* A change by an administrator.                                           *)
LEMMA TypeOfAdministration ==
  ASSUME HelpdeskInv', HelpdeskTypeOK, Administration
  PROVE  HelpdeskTypeOK'
  <1>1. PICK u \in Agents :
          \/ \E v \in Agents, appointment \in Appointments :
               SetHelpdeskUser(u, v, appointment) \/ UpdateHelpdeskUser(u, v, appointment)
          \/ \E v \in Agents : DeleteHelpdeskUser(u, v)
          \/ \E d \in Depts, n \in Names, state \in {"active", "inactive"} :
               \E next \in Proposals : AddDepartment(u, d, n, state, next)
          \/ \E d \in Depts, listed \in {"open", "listed"} :
               SetDepartmentPermissions(u, d, listed)
    BY DEF Administration
  <1>2. ASSUME NEW v, NEW appointment,
               SetHelpdeskUser(u, v, appointment) \/ DeleteHelpdeskUser(u, v)
        PROVE  HelpdeskTypeOK'
    <2>1. /\ edits' \in 0..MaxEdits
          /\ UNCHANGED <<departments, statuses, lastRow, acl, tickets, notes, request, tables>>
      BY <1>2 DEF SetHelpdeskUser, DeleteHelpdeskUser, Edit, HelpdeskTypeOK
    <2> QED BY <2>1, RestKeepsType DEF HelpdeskTypeOK, Exists
  <1>3. ASSUME NEW d \in Depts, NEW listed \in {"open", "listed"},
               SetDepartmentPermissions(u, d, listed)
        PROVE  HelpdeskTypeOK'
    <2>1. /\ edits' \in 0..MaxEdits /\ acl' = [acl EXCEPT ![d] = listed]
          /\ UNCHANGED <<departments, statuses, lastRow, members, tickets, notes, request, tables>>
      BY <1>3 DEF SetDepartmentPermissions, Edit, HelpdeskTypeOK
    <2>2. acl' \in [Depts -> {"open", "listed"}]
      BY <2>1 DEF HelpdeskTypeOK
    <2> QED BY <2>1, <2>2, RestKeepsType DEF HelpdeskTypeOK, Exists
  <1> QED BY <1>1, <1>2, <1>3, TypeOfAdding DEF UpdateHelpdeskUser

(* A request that read a department writes it.                             *)
LEMMA TypeOfUpdating ==
  ASSUME HelpdeskInv, HelpdeskInv', HelpdeskTypeOK, Updating
  PROVE  HelpdeskTypeOK'
  <1>1. PICK s \in Requests, n \in Names \cup {NoKey}, state \in {"active", "inactive"} :
          \/ UpdateDepartment(s, n, state, << >>, NoKey)
          \/ \E next \in Proposals : \E i \in 1..Len(next) :
               UpdateDepartment(s, n, state, next, next[i].key)
    BY DEF Updating
  <1>2. ASSUME NEW next \in Proposals, NEW i \in 1..Len(next),
               UpdateDepartment(s, n, state, next, next[i].key)
        PROVE  HelpdeskTypeOK'
    <2>1. next[i].key \in Keys
      BY ProposalsAreLists DEF Entries
    <2> QED BY <1>2, <2>1, TypeOfRename
  <1>3. CASE UpdateDepartment(s, n, state, << >>, NoKey)
    BY <1>3, TypeOfRename
  <1> QED BY <1>1, <1>2, <1>3

(* Every variable of the helpdesk has its type: a request that was checked *)
(* writes a status, a department and a handler that are some               *)
(* (updateDepartment, replaceDepartmentTicketStatuses), for any forms of   *)
(* up to two entries.                                                      *)
THEOREM HelpdeskTypeCorrect == HelpdeskSpec => []HelpdeskTypeOK
  <1>1. HelpdeskInit => HelpdeskTypeOK
    <2> SUFFICES ASSUME HelpdeskInit PROVE HelpdeskTypeOK
      OBVIOUS
    <2>1. HelpdeskInv
      BY HelpdeskInvInit
    <2>2. Idle \in RequestRecord /\ NoTicket \in TicketRecord
      BY DEF RequestRecord, TicketRecord
    <2>3. \A d \in Depts : ~Exists(d)
      BY DEF HelpdeskInit, Exists
    <2> QED BY <2>1, <2>2, <2>3
               DEF HelpdeskInit, HelpdeskInv, HelpdeskShaped,
                   HelpdeskTypeOK,
                                    DeptRecord, NoRows
  <1>2. HelpdeskInv /\ HelpdeskInv' /\ HelpdeskTypeOK /\ [HelpdeskNext]_helpdeskVars
           => HelpdeskTypeOK'
    <2> SUFFICES ASSUME HelpdeskInv, HelpdeskInv', HelpdeskTypeOK, [HelpdeskNext]_helpdeskVars
                 PROVE  HelpdeskTypeOK'
      OBVIOUS
    <2>1. CASE UNCHANGED helpdeskVars
      BY <2>1, RestKeepsType DEF helpdeskVars, HelpdeskTypeOK, Exists
    <2> QED BY <2>1, TypeOfTables, TypeOfTicketing, TypeOfWrite, TypeOfDeletion,
               TypeOfAdministration, TypeOfUpdating, TypeOfRollBack DEF HelpdeskNext
  <1> QED BY HelpdeskInvInit, HelpdeskInvStep, <1>1, <1>2, PTL DEF HelpdeskSpec

HIDE HelpdeskAssumption
=============================================================================
