---------------------------- MODULE NodeLifecycle ----------------------------
(***************************************************************************)
(* The status of ONE node as the tools of node-operations write it:        *)
(* move_node_status, submit_validation, submit_rma_ticket, complete_rma,   *)
(* reallocate_node and clone_and_allocate, over the tables node_status,    *)
(* node_actions and physical_node_actions.                                 *)
(*                                                                         *)
(* Each SDK call is a transaction of its own and one step.  A row carries  *)
(* the time its call took before it wrote, so rows may be inserted out of  *)
(* the order of their times.  The work of a reallocation is one step here  *)
(* (NodePipeline has it).  Of the node's onboard record only this matters: *)
(* whether there is one, and whether it has an IP address.                 *)
(***************************************************************************)
EXTENDS Integers, NodeStatus

CONSTANTS
  Ops,        \* agents, people and services that move the node or send it to repair
  Recyclers,  \* sessions of the recycler agent
  Targets,    \* Bound: the statuses asked of move_node_status
  Tickets,    \* Bound: tickets of the vendor
  MaxMoves,   \* Bound: calls the Ops begin
  MaxFaults   \* Bound: failed database calls, lost answers and killed sessions

ASSUME NodeAssumption ==
  /\ Targets \subseteq Status /\ MaxMoves \in Nat /\ MaxFaults \in Nat
  /\ "none" \notin Tickets /\ Ops \cap Recyclers = {}

Agents == Ops \cup Recyclers

VARIABLES
  actions,   \* rows of node_actions
  statuses,  \* rows of node_status
  latest,    \* the row of node_status with the greatest timestamp: _get_latest_record
  initiated, \* InitiateRMA rows of physical_node_actions: ticket and time
  completed, \* CompleteRMA rows; history: the status row each was decided on, and how
  vendor,    \* the state of each ticket at the vendor
  onboard,   \* the latest onboard record: "missing", "no_ip" or "found"
  call,      \* the call each agent is in
  clock,     \* the last time taken
  moves,     \* calls the Ops may still begin
  faults     \* faults left

tables == <<actions, statuses, latest, initiated, completed>>
vars   == <<actions, statuses, latest, initiated, completed, vendor, onboard, call, clock, moves,
            faults>>

\* raw: the caller has a physical client to fall back to.  blind: the caller has not seen the
\* node's status.  inner: an exception leads to insert_triaged_unknown.  stay and again, history
\* of a completion: the time of the row that was latest when it was decided, and whether a
\* completion decided on that row was stored by then.
Idle == [at |-> "idle", from |-> "new", to |-> "new", ts |-> 0, raw |-> FALSE, blind |-> FALSE,
         inner |-> FALSE, ticket |-> "none", stay |-> 0, again |-> FALSE]

Set(a, c) == call' = [call EXCEPT ![a] = c]

-----------------------------------------------------------------------------
(* Writes.                                                                 *)

\* Mutant: the row inserted last.
Inserted(row) == row
Later(row) == IF row.ts > latest.ts THEN row ELSE latest

AddAction(c, via) ==
  actions' = actions \cup
               {[ts |-> c.ts, from |-> c.from, to |-> c.to, via |-> via, blind |-> c.blind]}

AddStatus(c) ==
  LET row == [ts |-> c.ts, to |-> c.to] IN
  /\ statuses' = statuses \cup {row}
  /\ latest' = Later(row)

\* insert_allocated_ua and insert_triaged_unknown begin, whatever the node's status is by now.
FromReady(c, to) ==
  [c EXCEPT !.at = "action", !.from = "ready_ua", !.to = to, !.ts = clock + 1, !.raw = TRUE]
InsertAllocatedUA(a) == clock' = clock + 1 /\ Set(a, FromReady(call[a], "allocated_ua"))
InsertTriagedUnknown(a) ==
  clock' = clock + 1 /\ Set(a, FromReady([Idle EXCEPT !.blind = call[a].blind], "triaged_unknown"))

\* An error leaves the tool, or makes a reallocation move the node to triaged_unknown.
Raise(a) ==
  IF call[a].inner THEN InsertTriagedUnknown(a) ELSE Set(a, Idle) /\ UNCHANGED clock

\* The except branch of insert_status_transition and of its two siblings.
Rejected(a) ==
  IF call[a].raw THEN Set(a, [call[a] EXCEPT !.at = "raw"]) /\ UNCHANGED clock ELSE Raise(a)

Fault == faults > 0 /\ faults' = faults - 1

\* A transaction fails: nothing is stored, or the commit went through and its answer did not.
Fails(stored, table) == Fault /\ (stored \/ UNCHANGED table)

-----------------------------------------------------------------------------
(* insert_status_transition, insert_allocated_ua, insert_triaged_unknown.  *)

\* _resolve_current_status, which gives None when the read fails: the caller's from_status
\* stays.  The time of a call that will write nothing is not counted.
\* Mutant: the caller is believed.
Believed(c) == c.from
Corrected(c) == latest.to

Resolve(a) ==
  LET c == call[a]
      Continue(from, blind) ==
        /\ clock' = IF c.raw \/ IsValidAction(from, c.to) THEN clock + 1 ELSE clock
        /\ Set(a, [c EXCEPT !.at = "action", !.from = from, !.blind = blind, !.ts = clock'])
  IN
  /\ c.at = "resolve"
  /\ \/ Continue(Corrected(c), FALSE) /\ UNCHANGED faults
     \/ Continue(c.from, TRUE) /\ Fault
  /\ UNCHANGED <<tables, vendor, onboard, moves>>

\* update_node_action, whose is_valid_action checks the transition.
WriteAction(a) ==
  LET c == call[a]  valid == IsValidAction(c.from, c.to) IN
  /\ c.at = "action"
  /\ \/ /\ valid /\ AddAction(c, "sdk")
        /\ Set(a, [c EXCEPT !.at = "status"]) /\ UNCHANGED <<clock, faults>>
     \/ ~ valid /\ Rejected(a) /\ UNCHANGED <<actions, faults>>
     \/ valid /\ Fails(AddAction(c, "sdk"), actions) /\ Rejected(a)
  /\ UNCHANGED <<statuses, latest, initiated, completed, vendor, onboard, moves>>

\* update_node_status, which checks nothing.
WriteStatus(a) ==
  LET c == call[a] IN
  /\ c.at = "status"
  /\ \/ AddStatus(c) /\ Set(a, Idle) /\ UNCHANGED <<clock, faults>>
     \/ Fails(AddStatus(c), <<statuses, latest>>) /\ Rejected(a)
  /\ UNCHANGED <<actions, initiated, completed, vendor, onboard, moves>>

\* _execute_transaction of both rows.
\* Mutant: the action is taken to be there already.
RawStatusOnly(c) == AddStatus(c) /\ UNCHANGED actions
RawBoth(c) == AddAction(c, "raw") /\ AddStatus(c)

WriteRaw(a) ==
  LET c == call[a] IN
  /\ c.at = "raw"
  /\ \/ RawBoth(c) /\ Set(a, Idle) /\ UNCHANGED <<clock, faults>>
     \/ Fails(RawBoth(c), <<actions, statuses, latest>>) /\ Raise(a)
  /\ UNCHANGED <<initiated, completed, vendor, onboard, moves>>

-----------------------------------------------------------------------------
(* The tools.                                                              *)

Begins(a) == a \in Ops /\ call[a].at = "idle" /\ moves > 0 /\ moves' = moves - 1

\* move_node_status refuses to move FROM available, as the caller calls it; it has no
\* physical client.
Move(a) ==
  /\ Begins(a)
  /\ \E from \in Targets \ {"available"}, to \in Targets :
       Set(a, [Idle EXCEPT !.at = "resolve", !.from = from, !.to = to])
  /\ UNCHANGED <<tables, vendor, onboard, clock, faults>>

\* submit_validation while a young validation job runs; without one it only sends an alert.
Validate(a) ==
  /\ Begins(a)
  /\ Set(a, [Idle EXCEPT !.at = "resolve", !.from = "none", !.to = "validating", !.raw = TRUE])
  /\ UNCHANGED <<tables, vendor, onboard, clock, faults>>

\* submit_rma_ticket: the vendor's ticket first.
SubmitTicket(a) ==
  /\ Begins(a)
  /\ \E t \in Tickets :
       /\ vendor[t] = "none"
       /\ vendor' = [vendor EXCEPT ![t] = "repairing"]
       /\ \/ Set(a, [Idle EXCEPT !.at = "initiate", !.ticket = t]) /\ UNCHANGED faults
          \/ Fault /\ UNCHANGED call
  /\ UNCHANGED <<tables, onboard, clock>>

\* get_node_detail finds the latest onboard record, or nothing: the tool answers "not_found"
\* and writes nothing.  Then the time of the rows is taken.
HasRecord == onboard # "missing"
Detail(a, next) ==
  /\ \/ HasRecord /\ clock' = clock + 1 /\ Set(a, [next EXCEPT !.ts = clock + 1])
     \/ ~ HasRecord /\ Set(a, Idle) /\ UNCHANGED clock
  /\ UNCHANGED <<tables, vendor, onboard, moves, faults>>

\* submit_rma_ticket goes on: the record, and three rows in one transaction.
InitiateRMA(a) ==
  /\ call[a].at = "initiate"
  /\ Detail(a, [call[a] EXCEPT !.at = "initiating", !.from = "deallocated_ua", !.to = "ua",
                              !.blind = TRUE])

InsertRmaTransition(c) ==
  /\ initiated' = initiated \cup {[ticket |-> c.ticket, ts |-> c.ts]}
  /\ AddAction(c, "raw") /\ AddStatus(c)

StoreInitiate(a) ==
  LET Stored == InsertRmaTransition(call[a]) IN
  /\ call[a].at = "initiating"
  /\ (Stored /\ UNCHANGED faults) \/ Fails(Stored, <<initiated, actions, statuses, latest>>)
  /\ Set(a, Idle)
  /\ UNCHANGED <<completed, vendor, onboard, clock, moves>>

\* The vendor closes or rejects a ticket.
Vendor(t) ==
  /\ vendor[t] = "repairing"
  /\ \E s \in {"done", "rejected"} : vendor' = [vendor EXCEPT ![t] = s]
  /\ UNCHANGED <<tables, onboard, call, clock, moves, faults>>

\* The node is onboarded by hand.
Onboarded ==
  /\ onboard # "found" /\ onboard' = "found"
  /\ UNCHANGED <<tables, vendor, call, clock, moves, faults>>

\* get_ticket_id_for_node: the ticket of the latest InitiateRMA.
TicketOfNode == {i.ticket : i \in {j \in initiated : \A k \in initiated : k.ts <= j.ts}}

\* get_nodes_by_status: the node is in s by its latest row.
\* Mutant: by any row.
InEver(s) == \E r \in statuses : r.to = s
In(s) == latest.to = s

\* A call of complete_rma for ticket t, decided on the latest status.
Decided(t, blind) ==
  [Idle EXCEPT !.at = "complete", !.ticket = t, !.from = "ua", !.to = "ready_ua", !.blind = blind,
               !.stay = latest.ts, !.again = \E d \in completed : d.stay = latest.ts]

\* check_completed_tickets, and what ticket-check makes of its answer: complete_rma for a
\* terminal ticket, move_node_status to triaged_unknown for an abnormal or a missing one.
CheckTicket(a) ==
  /\ a \in Recyclers /\ call[a].at = "idle" /\ In("ua")
  /\ \/ \E t \in TicketOfNode : vendor[t] = "done" /\ Set(a, Decided(t, FALSE))
     \/ /\ \A t \in TicketOfNode : vendor[t] = "rejected"
        /\ Set(a, [Idle EXCEPT !.at = "resolve", !.from = "ua", !.to = "triaged_unknown"])
  /\ UNCHANGED <<tables, vendor, onboard, clock, moves, faults>>

\* complete_rma called without a poll: the tool asks for neither the node's status nor an
\* earlier CompleteRMA of the ticket.
CallComplete(a) ==
  /\ Begins(a)
  /\ \E t \in Tickets : vendor[t] # "none" /\ Set(a, Decided(t, TRUE))
  /\ UNCHANGED <<tables, vendor, onboard, clock, faults>>

\* complete_rma: the record, and three rows in one transaction, whatever the node's status is
\* by now.
CompleteRMA(a) ==
  call[a].at = "complete" /\ Detail(a, [call[a] EXCEPT !.at = "completing"])

InsertCompleteRma(c) ==
  /\ completed' = completed \cup {[ticket |-> c.ticket, ts |-> c.ts, stay |-> c.stay,
                                   again |-> c.again, blind |-> c.blind]}
  /\ AddAction(c, "raw") /\ AddStatus(c)

StoreComplete(a) ==
  LET Stored == InsertCompleteRma(call[a]) IN
  /\ call[a].at = "completing"
  /\ (Stored /\ UNCHANGED faults) \/ Fails(Stored, <<completed, actions, statuses, latest>>)
  /\ Set(a, Idle)
  /\ UNCHANGED <<initiated, vendor, onboard, clock, moves>>

\* The recycler calls reallocate_node for a node it saw in ready_ua; others call it as they see
\* fit: the tool itself asks for no status.
CheckReady(a) ==
  /\ a \in Recyclers /\ call[a].at = "idle" /\ In("ready_ua")
  /\ Set(a, [Idle EXCEPT !.at = "reallocate"])
  /\ UNCHANGED <<tables, vendor, onboard, clock, moves, faults>>

CallReallocate(a) ==
  /\ Begins(a) /\ Set(a, [Idle EXCEPT !.at = "reallocate", !.blind = TRUE])
  /\ UNCHANGED <<tables, vendor, onboard, clock, faults>>

\* reallocate_node reads the node's detail.  Without a record or an IP address it answers
\* "not_found".  If the read fails node_id is unbound, which the handler of the error swallows.
\* Nothing is written either way.
HasAddress == onboard = "found"
Reallocate(a) ==
  /\ call[a].at = "reallocate"
  /\ \/ HasAddress /\ Set(a, [call[a] EXCEPT !.at = "work", !.inner = TRUE]) /\ UNCHANGED faults
     \/ ~ HasAddress /\ Set(a, Idle) /\ UNCHANGED faults
     \/ Fault /\ Set(a, Idle)
  /\ UNCHANGED <<tables, vendor, onboard, clock, moves>>

\* Probe, power cycle, configuration and sysinfo.  Any of it may fail, and the node goes to
\* triaged_unknown.
\* Mutant: an error of the pipeline ends the call.
LeftAlone(a) == Set(a, Idle) /\ UNCHANGED clock
Abort(a) == Raise(a)

Work(a) ==
  /\ call[a].at = "work"
  /\ \/ Set(a, [call[a] EXCEPT !.at = "clone"]) /\ UNCHANGED clock
     \/ Abort(a)
  /\ UNCHANGED <<tables, vendor, onboard, moves, faults>>

\* clone_and_allocate, the last part of a reallocation as a tool of its own.
CloneAndAllocate(a) ==
  /\ Begins(a)
  /\ Set(a, [Idle EXCEPT !.at = "clone", !.blind = TRUE])
  /\ UNCHANGED <<tables, vendor, onboard, clock, faults>>

\* clone_onboard_record copies the latest record, or fails.
Clone(a) ==
  /\ call[a].at = "clone"
  /\ \/ HasRecord /\ InsertAllocatedUA(a) /\ UNCHANGED faults
     \/ ~ HasRecord /\ Raise(a) /\ UNCHANGED faults
     \/ Fault /\ Raise(a)
  /\ UNCHANGED <<tables, vendor, onboard, moves>>

\* The session of an agent is killed.
Killed(a) ==
  /\ call[a].at # "idle" /\ Fault /\ Set(a, Idle)
  /\ UNCHANGED <<tables, vendor, onboard, clock, moves>>

-----------------------------------------------------------------------------
Init ==
  /\ \E s \in Targets : latest = [ts |-> 0, to |-> s]
  /\ statuses = {latest} /\ actions = {} /\ initiated = {} /\ completed = {}
  /\ vendor = [t \in Tickets |-> "none"]
  /\ onboard \in {"missing", "no_ip", "found"}
  /\ call = [a \in Agents |-> Idle]
  /\ clock = 0 /\ moves = MaxMoves /\ faults = MaxFaults

Step(a) ==
  \/ Resolve(a) \/ WriteAction(a) \/ WriteStatus(a) \/ WriteRaw(a)
  \/ InitiateRMA(a) \/ StoreInitiate(a) \/ CheckTicket(a) \/ CompleteRMA(a) \/ StoreComplete(a)
  \/ CheckReady(a) \/ Reallocate(a) \/ Work(a) \/ Clone(a)

Begin(a) ==
  \/ Move(a) \/ Validate(a) \/ SubmitTicket(a) \/ CloneAndAllocate(a)
  \/ CallComplete(a) \/ CallReallocate(a)

Next ==
  \/ \E a \in Agents : Step(a) \/ Begin(a) \/ Killed(a)
  \/ \E t \in Tickets : Vendor(t)
  \/ Onboarded

Spec == Init /\ [][Next]_vars

\* A call goes on once begun, and the recycler's cron job comes back.
FairSpec == Spec /\ \A a \in Agents : WF_vars(Step(a))

-----------------------------------------------------------------------------
(* Properties.                                                             *)

Time == 0 .. clock
Ticket == Tickets \cup {"none"}
Call == [at : {"idle", "resolve", "action", "status", "raw", "initiate", "initiating", "complete",
              "completing", "reallocate", "work", "clone"},
         from : Status \cup {"none"}, to : Status, ts : Time, raw : BOOLEAN, blind : BOOLEAN,
         inner : BOOLEAN, ticket : Ticket, stay : Time, again : BOOLEAN]

TypeOK ==
  /\ actions \subseteq [ts : Time, from : Status \cup {"none"}, to : Status,
                        via : {"sdk", "raw"}, blind : BOOLEAN]
  /\ statuses \subseteq [ts : Time, to : Status]
  /\ latest \in statuses /\ \A r \in statuses : r.ts <= latest.ts
  /\ initiated \subseteq [ticket : Ticket, ts : Time]
  /\ completed \subseteq [ticket : Ticket, ts : Time, stay : Time, again : BOOLEAN, blind : BOOLEAN]
  /\ vendor \in [Tickets -> {"none", "repairing", "done", "rejected"}]
  /\ onboard \in {"missing", "no_ip", "found"}
  /\ call \in [Agents -> Call]
  /\ clock \in Nat /\ moves \in 0 .. MaxMoves /\ faults \in 0 .. MaxFaults

\* "no half-written state": a node never gets a status that no action explains, wherever a
\* call failed, fell back to SQL or was killed.  (An action without its status is possible.)
StatusHasAction ==
  \A r \in statuses : r.ts = 0 \/ \E x \in actions : x.ts = r.ts /\ x.to = r.to

\* "callers don't need to know the exact current state": the status an action says the node
\* came from is one the node had before, however many agents write at once, unless the read
\* of the current status failed, or nobody read it: submit_rma_ticket and clone_and_allocate, and
\* complete_rma and reallocate_node called without a poll, name a status they did not look at.
FromWasReal ==
  \A x \in actions : x.blind \/ \E r \in statuses : r.ts < x.ts /\ r.to = x.from

\* A recycler completes a ticket for a stay of the node in ua, and never decides to complete a
\* stay that was completed already, by itself, by another session or by a call without a poll:
\* not after a lost answer, a restart, a late commit or a move of the node.
StayCompletedOnce ==
  \A c \in completed :
    c.blind \/ (~ c.again /\ \E r \in statuses : r.ts = c.stay /\ r.to = "ua")

\* A node whose onboard record can be found does not stay in ua once the vendor closed the ticket
\* it is there for (unless it is sent to repair again); one whose record has an address does not
\* stay in ready_ua: it is allocated or goes back to triage.
Repaired == latest.to = "ua" /\ \E t \in TicketOfNode : vendor[t] = "done"
RepairedNodeReturns ==
  /\ (Repaired /\ HasRecord) ~> ~ Repaired
  /\ (In("ready_ua") /\ HasAddress) ~> ~ In("ready_ua")

\* complete_rma: "move node ua -> ready_ua".
CompletedInUa == [][completed' # completed => latest.to = "ua"]_vars

\* insert_status_transition: "they either both succeed or both roll back": an action has its
\* status, or a call that is still going to write it.
NothingHalfWritten ==
  \A x \in actions :
    \/ \E r \in statuses : r.ts = x.ts /\ r.to = x.to
    \/ \E a \in Agents : call[a].at # "idle" /\ call[a].ts = x.ts

\* check_completed_tickets: "anomalous: ticket repairStatus is abnormal (rejected/cancelled/
\* on-hold).  Call move_node_status to escalate to triaged_unknown."
Anomalous == latest.to = "ua" /\ \E t \in TicketOfNode : vendor[t] = "rejected"
AnomalousEscalated == Anomalous ~> ~ In("ua")
=============================================================================
