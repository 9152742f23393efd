------------------------ MODULE NodeLifecycleProofs ------------------------
(***************************************************************************)
(* The history of a node is consistent: no status without its action, no   *)
(* action from a status the node never had, no stay in ua completed twice; *)
(* for any number of agents, tickets, calls and faults.                    *)
(***************************************************************************)
EXTENDS NodeLifecycle, TLAPS

USE NodeAssumption

-----------------------------------------------------------------------------
(* Types.  Time only grows, and with it every set that is built from it.   *)

ActionRow == [ts : Time, from : Status \cup {"none"}, to : Status, via : {"sdk", "raw"},
              blind : BOOLEAN]
StatusRow == [ts : Time, to : Status]

ActionsOK == actions \subseteq ActionRow
StatusesOK == statuses \subseteq StatusRow /\ latest \in statuses /\ \A r \in statuses : r.ts <= latest.ts
RepairsOK ==
  /\ initiated \subseteq [ticket : Ticket, ts : Time]
  /\ completed \subseteq [ticket : Ticket, ts : Time, stay : Time, again : BOOLEAN, blind : BOOLEAN]
TablesOK == ActionsOK /\ StatusesOK /\ RepairsOK
CallsOK == call \in [Agents -> Call]
BoundsOK ==
  /\ vendor \in [Tickets -> {"none", "repairing", "done", "rejected"}]
  /\ onboard \in {"missing", "no_ip", "found"}
  /\ moves \in 0 .. MaxMoves /\ faults \in 0 .. MaxFaults

LEMMA TypeParts == TypeOK <=> TablesOK /\ CallsOK /\ BoundsOK /\ clock \in Nat
BY DEF TypeOK, TablesOK, ActionsOK, ActionRow, StatusesOK, StatusRow, RepairsOK, CallsOK, BoundsOK

LEMMA TypePartsNext == TablesOK' /\ CallsOK' /\ BoundsOK' /\ clock' \in Nat => TypeOK'
BY DEF TypeOK, TablesOK, ActionsOK, ActionRow, StatusesOK, StatusRow, RepairsOK, CallsOK, BoundsOK

Grows == clock \in Nat /\ clock' \in Nat /\ clock <= clock'

LEMMA Ticks == clock \in Nat => (clock' = clock + 1 \/ clock' = clock => Grows)
BY DEF Grows

LEMMA TimeGrows == Grows => Time \subseteq Time'
BY DEF Grows, Time

\* The rows there are keep their types.
LEMMA ActionsGrow == Grows /\ ActionsOK /\ UNCHANGED actions => ActionsOK'
BY TimeGrows DEF ActionsOK, ActionRow
LEMMA StatusesGrow == Grows /\ StatusesOK /\ UNCHANGED <<statuses, latest>> => StatusesOK'
BY TimeGrows DEF StatusesOK, StatusRow
LEMMA RepairsGrow == Grows /\ RepairsOK /\ UNCHANGED <<initiated, completed>> => RepairsOK'
BY TimeGrows DEF RepairsOK
LEMMA CallGrows == Grows => Call \subseteq Call'
BY TimeGrows DEF Call
LEMMA CallsGrow == Grows /\ CallsOK /\ UNCHANGED call => CallsOK'
BY CallGrows DEF CallsOK

LEMMA TablesGrow == Grows /\ TablesOK /\ UNCHANGED tables => TablesOK'
BY ActionsGrow, StatusesGrow, RepairsGrow DEF TablesOK, tables

\* A call goes on with c.
LEMMA SetType ==
  ASSUME Grows, CallsOK, NEW a \in Agents, NEW c, c \in Call', Set(a, c)
  PROVE  CallsOK'
BY CallGrows DEF CallsOK, Set

LEMMA IdleType == clock \in Nat => Idle \in Call
BY DEF Idle, Call, Status, Time, Ticket

LEMMA IdleTypeNext == clock' \in Nat => Idle \in Call'
BY DEF Idle, Call, Status, Time, Ticket

\* Rows are added.
LEMMA AddActionType ==
  ASSUME Grows, ActionsOK, NEW c, c \in Call', NEW via \in {"sdk", "raw"}, AddAction(c, via)
  PROVE  ActionsOK'
BY TimeGrows DEF ActionsOK, ActionRow, AddAction, Call

LEMMA AddStatusType ==
  ASSUME Grows, StatusesOK, NEW c, c \in Call', AddStatus(c)
  PROVE  StatusesOK'
<1>1. statuses' \subseteq StatusRow'
  BY TimeGrows DEF StatusesOK, StatusRow, AddStatus, Call
<1>2. latest.ts \in Nat /\ c.ts \in Nat /\ \A r \in statuses : r.ts \in Nat
  BY DEF StatusesOK, StatusRow, Call, Time, Grows
<1>3. latest' \in statuses' /\ \A r \in statuses' : r.ts <= latest'.ts
  BY <1>2 DEF StatusesOK, AddStatus, Later
<1> QED BY <1>1, <1>3 DEF StatusesOK

\* An error leaves the tool, or begins the move to triaged_unknown.
LEMMA FromReadyType ==
  ASSUME clock \in Nat, NEW c \in Call, NEW to \in Status, clock' = clock + 1
  PROVE  FromReady(c, to) \in Call'
<1>1. Grows /\ clock + 1 \in Time'
  BY Ticks DEF Time
<1>2. c \in Call'
  BY <1>1, CallGrows
<1> QED BY <1>1, <1>2 DEF FromReady, Call, Status

LEMMA RaiseType ==
  ASSUME clock \in Nat, CallsOK, NEW a \in Agents, Raise(a)
  PROVE  Grows /\ CallsOK'
<1>1. CASE call[a].inner
  <2> DEFINE d == [Idle EXCEPT !.blind = call[a].blind]
  <2>1. clock' = clock + 1 /\ Set(a, FromReady(d, "triaged_unknown"))
    BY <1>1 DEF Raise, InsertTriagedUnknown
  <2>2. d \in Call
    BY IdleType DEF CallsOK, Call
  <2>3. FromReady(d, "triaged_unknown") \in Call'
    BY <2>1, <2>2, FromReadyType DEF Status, Triaged
  <2> QED BY <2>1, <2>3, Ticks, SetType
<1>2. CASE ~ call[a].inner
  <2>1. Set(a, Idle) /\ clock' = clock
    BY <1>2 DEF Raise
  <2> QED BY <2>1, IdleTypeNext, Ticks, SetType
<1> QED BY <1>1, <1>2

LEMMA RejectedType ==
  ASSUME clock \in Nat, CallsOK, NEW a \in Agents, Rejected(a)
  PROVE  Grows /\ CallsOK'
<1>1. CASE call[a].raw
  <2>1. Set(a, [call[a] EXCEPT !.at = "raw"]) /\ clock' = clock
    BY <1>1 DEF Rejected
  <2>2. [call[a] EXCEPT !.at = "raw"] \in Call'
    BY <2>1 DEF CallsOK, Call, Time
  <2> QED BY <2>1, <2>2, Ticks, SetType
<1>2. CASE ~ call[a].raw
  BY <1>2, RaiseType DEF Rejected
<1> QED BY <1>1, <1>2

LEMMA FaultType ==
  ASSUME BoundsOK, Fault \/ UNCHANGED faults
  PROVE  faults' \in 0 .. MaxFaults
BY DEF BoundsOK, Fault

LEMMA BeginsType ==
  ASSUME BoundsOK, NEW a, Begins(a)
  PROVE  a \in Agents /\ moves' \in 0 .. MaxMoves
BY DEF BoundsOK, Begins, Agents

-----------------------------------------------------------------------------
(* Types, action by action.                                                *)

LEMMA TypeInit == Init => TypeOK
<1> SUFFICES ASSUME Init PROVE TypeOK
  OBVIOUS
<1>1. call \in [Agents -> Call]
  BY IdleType DEF Init
<1>2. latest \in [ts : Time, to : Status] /\ latest.ts = 0
  BY DEF Init, Time
<1> QED BY <1>1, <1>2 DEF Init, TypeOK

LEMMA ResolveType ==
  ASSUME TypeOK, NEW a \in Agents, Resolve(a)
  PROVE  TypeOK'
<1> DEFINE c == call[a]
<1>1. TablesOK /\ CallsOK /\ BoundsOK /\ clock \in Nat /\ c \in Call
  BY TypeParts DEF CallsOK
<1>2. clock' = clock + 1 \/ clock' = clock
  BY DEF Resolve
<1>3. Grows
  BY <1>1, <1>2, Ticks
<1>4. ASSUME NEW from \in Status \cup {"none"}, NEW blind \in BOOLEAN
      PROVE  [c EXCEPT !.at = "action", !.from = from, !.blind = blind, !.ts = clock'] \in Call'
  <2>1. c \in Call' /\ clock' \in Time'
    BY <1>1, <1>3, CallGrows DEF Grows, Time
  <2> QED BY <2>1 DEF Call
<1>5. Corrected(c) \in Status \cup {"none"} /\ c.from \in Status \cup {"none"}
  BY <1>1 DEF Corrected, TablesOK, StatusesOK, StatusRow, Call
<1>6. CallsOK'
  BY <1>1, <1>3, <1>4, <1>5, SetType DEF Resolve
<1>7. TablesOK'
  BY <1>1, <1>3, TablesGrow DEF Resolve
<1>8. BoundsOK'
  BY <1>1, FaultType DEF Resolve, BoundsOK
<1> QED BY <1>3, <1>6, <1>7, <1>8, TypePartsNext DEF Grows

LEMMA WriteActionType ==
  ASSUME TypeOK, NEW a \in Agents, WriteAction(a)
  PROVE  TypeOK'
<1> DEFINE c == call[a]
<1>1. TablesOK /\ CallsOK /\ BoundsOK /\ clock \in Nat /\ c \in Call
  BY TypeParts DEF CallsOK
<1>2. Grows /\ CallsOK'
  <2>1. CASE Rejected(a)
    BY <1>1, <2>1, RejectedType
  <2>2. CASE Set(a, [c EXCEPT !.at = "status"]) /\ clock' = clock
    <3>1. [c EXCEPT !.at = "status"] \in Call'
      BY <1>1, <2>2 DEF Call, Time
    <3> QED BY <1>1, <2>2, <3>1, Ticks, SetType
  <2> QED BY <2>1, <2>2 DEF WriteAction
<1>3. c \in Call'
  BY <1>1, <1>2, CallGrows
<1>4. ActionsOK'
  <2>1. AddAction(c, "sdk") \/ UNCHANGED actions
    BY DEF WriteAction, Fails
  <2> QED BY <1>1, <1>2, <1>3, <2>1, AddActionType, ActionsGrow DEF TablesOK
<1>5. TablesOK'
  BY <1>1, <1>2, <1>4, StatusesGrow, RepairsGrow DEF WriteAction, TablesOK
<1>6. BoundsOK'
  BY <1>1, FaultType DEF WriteAction, Fails, BoundsOK
<1> QED BY <1>2, <1>5, <1>6, TypePartsNext DEF Grows

LEMMA WriteStatusType ==
  ASSUME TypeOK, NEW a \in Agents, WriteStatus(a)
  PROVE  TypeOK'
<1> DEFINE c == call[a]
<1>1. TablesOK /\ CallsOK /\ BoundsOK /\ clock \in Nat /\ c \in Call
  BY TypeParts DEF CallsOK
<1>2. Grows /\ CallsOK'
  <2>1. CASE Rejected(a)
    BY <1>1, <2>1, RejectedType
  <2>2. CASE Set(a, Idle) /\ clock' = clock
    BY <1>1, <2>2, IdleTypeNext, Ticks, SetType
  <2> QED BY <2>1, <2>2 DEF WriteStatus
<1>3. c \in Call'
  BY <1>1, <1>2, CallGrows
<1>4. StatusesOK'
  <2>1. AddStatus(c) \/ UNCHANGED <<statuses, latest>>
    BY DEF WriteStatus, Fails
  <2> QED BY <1>1, <1>2, <1>3, <2>1, AddStatusType, StatusesGrow DEF TablesOK
<1>5. TablesOK'
  BY <1>1, <1>2, <1>4, ActionsGrow, RepairsGrow DEF WriteStatus, TablesOK
<1>6. BoundsOK'
  BY <1>1, FaultType DEF WriteStatus, Fails, BoundsOK
<1> QED BY <1>2, <1>5, <1>6, TypePartsNext DEF Grows

LEMMA WriteRawType ==
  ASSUME TypeOK, NEW a \in Agents, WriteRaw(a)
  PROVE  TypeOK'
<1> DEFINE c == call[a]
<1>1. TablesOK /\ CallsOK /\ BoundsOK /\ clock \in Nat /\ c \in Call
  BY TypeParts DEF CallsOK
<1>2. Grows /\ CallsOK'
  <2>1. CASE Raise(a)
    BY <1>1, <2>1, RaiseType
  <2>2. CASE Set(a, Idle) /\ clock' = clock
    BY <1>1, <2>2, IdleTypeNext, Ticks, SetType
  <2> QED BY <2>1, <2>2 DEF WriteRaw
<1>3. c \in Call'
  BY <1>1, <1>2, CallGrows
<1>4. ActionsOK' /\ StatusesOK'
  <2>1. (AddAction(c, "raw") /\ AddStatus(c)) \/ UNCHANGED <<actions, statuses, latest>>
    BY DEF WriteRaw, Fails, RawBoth
  <2> QED BY <1>1, <1>2, <1>3, <2>1, AddActionType, AddStatusType, ActionsGrow, StatusesGrow
          DEF TablesOK
<1>5. TablesOK'
  BY <1>1, <1>2, <1>4, RepairsGrow DEF WriteRaw, TablesOK
<1>6. BoundsOK'
  BY <1>1, FaultType DEF WriteRaw, Fails, BoundsOK
<1> QED BY <1>2, <1>5, <1>6, TypePartsNext DEF Grows

LEMMA DecidedType ==
  ASSUME clock \in Nat, TablesOK, NEW t \in Ticket, NEW blind \in BOOLEAN
  PROVE  Decided(t, blind) \in Call
<1>1. Idle \in Call /\ latest.ts \in Time
  BY IdleType DEF TablesOK, StatusesOK, StatusRow
<1>2. (\E d \in completed : d.stay = latest.ts) \in BOOLEAN
  OBVIOUS
<1> QED BY ZenonT(60), <1>1, <1>2 DEF Decided, Call, Status

\* The beginnings.
LEMMA BeginType ==
  ASSUME TypeOK, NEW a \in Agents, Begin(a)
  PROVE  TypeOK'
<1>1. TablesOK /\ CallsOK /\ BoundsOK /\ clock \in Nat /\ call[a] \in Call
  BY TypeParts DEF CallsOK
<1>2. clock' = clock /\ UNCHANGED tables
  BY DEF Begin, Move, Validate, SubmitTicket, CloneAndAllocate, CallComplete, CallReallocate
<1>3. Grows /\ Idle \in Call'
  BY <1>1, <1>2, Ticks, IdleTypeNext
<1>4. CallsOK'
  <2>1. CASE Move(a)
    <3>1. PICK from \in Targets \ {"available"}, to \in Targets :
            Set(a, [Idle EXCEPT !.at = "resolve", !.from = from, !.to = to])
      BY <2>1 DEF Move
    <3>2. [Idle EXCEPT !.at = "resolve", !.from = from, !.to = to] \in Call'
      BY <1>3 DEF Call
    <3> QED BY <1>1, <1>3, <3>1, <3>2, SetType
  <2>2. CASE Validate(a)
    <3>1. [Idle EXCEPT !.at = "resolve", !.from = "none", !.to = "validating", !.raw = TRUE]
            \in Call'
      BY <1>3 DEF Call, Status
    <3> QED BY <1>1, <1>3, <2>2, <3>1, SetType DEF Validate
  <2>3. CASE SubmitTicket(a)
    <3>1. \A t \in Tickets : [Idle EXCEPT !.at = "initiate", !.ticket = t] \in Call'
      BY <1>3 DEF Call, Ticket
    <3> QED BY <1>1, <1>3, <2>3, <3>1, SetType, CallsGrow DEF SubmitTicket
  <2>4. CASE CloneAndAllocate(a)
    <3>1. [Idle EXCEPT !.at = "clone", !.blind = TRUE] \in Call'
      BY <1>3 DEF Call
    <3> QED BY <1>1, <1>3, <2>4, <3>1, SetType DEF CloneAndAllocate
  <2>5. CASE CallComplete(a)
    <3>1. PICK t \in Tickets : Set(a, Decided(t, TRUE))
      BY <2>5 DEF CallComplete
    <3> QED BY <1>1, <1>3, <3>1, DecidedType, CallGrows, SetType DEF Ticket
  <2>6. CASE CallReallocate(a)
    <3>1. [Idle EXCEPT !.at = "reallocate", !.blind = TRUE] \in Call'
      BY <1>3 DEF Call
    <3> QED BY <1>1, <1>3, <2>6, <3>1, SetType DEF CallReallocate
  <2> QED BY <2>1, <2>2, <2>3, <2>4, <2>5, <2>6 DEF Begin
<1>5. TablesOK'
  BY <1>1, <1>2, <1>3, TablesGrow
<1>6. BoundsOK'
  <2>1. moves' \in 0 .. MaxMoves
    BY <1>1, BeginsType DEF Begin, Move, Validate, SubmitTicket, CloneAndAllocate,
          CallComplete, CallReallocate
  <2>2. faults' \in 0 .. MaxFaults
    BY <1>1, FaultType DEF Begin, Move, Validate, SubmitTicket, CloneAndAllocate, CallComplete,
           CallReallocate
  <2>3. vendor' \in [Tickets -> {"none", "repairing", "done", "rejected"}]
    <3>1. CASE SubmitTicket(a)
      BY <1>1, <3>1 DEF SubmitTicket, BoundsOK
    <3>2. CASE ~ SubmitTicket(a)
      BY <1>1, <3>2 DEF Begin, Move, Validate, CloneAndAllocate, CallComplete, CallReallocate,
                        BoundsOK
    <3> QED BY <3>1, <3>2
  <2>4. onboard' = onboard
    BY DEF Begin, Move, Validate, SubmitTicket, CloneAndAllocate, CallComplete, CallReallocate
  <2> QED BY <1>1, <2>1, <2>2, <2>3, <2>4 DEF BoundsOK
<1> QED BY <1>3, <1>4, <1>5, <1>6, TypePartsNext DEF Grows

\* The two transactions of a repair write an action and a status of one time.
LEMMA RepairRows ==
  ASSUME Grows, TablesOK, NEW c, c \in Call', AddAction(c, "raw"), AddStatus(c)
  PROVE  ActionsOK' /\ StatusesOK'
BY AddActionType, AddStatusType DEF TablesOK

\* A tool that reads the node's record and takes the time goes on with what it is given.
LEMMA DetailType ==
  ASSUME TypeOK, NEW a \in Agents, NEW c \in Call, Detail(a, c)
  PROVE  TypeOK'
<1>1. TablesOK /\ CallsOK /\ BoundsOK /\ clock \in Nat
  BY TypeParts
<1>2. Grows /\ Idle \in Call'
  BY <1>1, Ticks, IdleTypeNext DEF Detail, Grows
<1>3. clock' = clock + 1 => [c EXCEPT !.ts = clock + 1] \in Call'
  <2>1. c \in Call' /\ (clock' = clock + 1 => clock + 1 \in Time')
    BY <1>1, <1>2, CallGrows DEF Time
  <2> QED BY <2>1 DEF Call
<1>4. CallsOK'
  BY <1>1, <1>2, <1>3, SetType DEF Detail
<1>5. TablesOK' /\ BoundsOK'
  BY <1>1, <1>2, TablesGrow DEF Detail, BoundsOK
<1> QED BY <1>2, <1>4, <1>5, TypePartsNext DEF Grows

LEMMA InitiateType ==
  ASSUME TypeOK, NEW a \in Agents, InitiateRMA(a) \/ CompleteRMA(a)
  PROVE  TypeOK'
<1> DEFINE c == call[a]
<1>1. c \in Call
  BY DEF TypeOK
<1>2. [c EXCEPT !.at = "initiating", !.from = "deallocated_ua", !.to = "ua", !.blind = TRUE]
        \in Call
  BY <1>1 DEF Call, Status
<1>3. [c EXCEPT !.at = "completing"] \in Call
  BY <1>1 DEF Call
<1> QED BY <1>2, <1>3, DetailType DEF InitiateRMA, CompleteRMA

LEMMA StoreInitiateType ==
  ASSUME TypeOK, NEW a \in Agents, StoreInitiate(a)
  PROVE  TypeOK'
<1> DEFINE c == call[a]
<1>1. TablesOK /\ CallsOK /\ BoundsOK /\ clock \in Nat /\ c \in Call
  BY TypeParts DEF CallsOK
<1>2. Grows /\ Idle \in Call' /\ c \in Call'
  BY <1>1, Ticks, IdleTypeNext, CallGrows DEF StoreInitiate, Grows
<1>3. CallsOK'
  BY <1>1, <1>2, SetType DEF StoreInitiate
<1>4. TablesOK'
  <2>1. CASE UNCHANGED <<initiated, actions, statuses, latest>>
    BY <1>1, <1>2, <2>1, TablesGrow DEF StoreInitiate, tables
  <2>2. CASE InsertRmaTransition(c)
    <3>1. ActionsOK' /\ StatusesOK'
      BY <1>1, <1>2, <2>2, RepairRows DEF InsertRmaTransition
    <3>2. initiated' = initiated \cup {[ticket |-> c.ticket, ts |-> c.ts]}
      BY <2>2 DEF InsertRmaTransition
    <3>3. [ticket |-> c.ticket, ts |-> c.ts] \in [ticket : Ticket, ts : Time']
      BY <1>2 DEF Call
    <3>4. RepairsOK'
      BY <1>1, <1>2, <3>2, <3>3, TimeGrows DEF StoreInitiate, TablesOK, RepairsOK
    <3> QED BY <3>1, <3>4 DEF TablesOK
  <2> QED BY <2>1, <2>2 DEF StoreInitiate, Fails
<1>5. BoundsOK'
  BY <1>1, FaultType DEF StoreInitiate, Fails, BoundsOK
<1> QED BY <1>2, <1>3, <1>4, <1>5, TypePartsNext DEF Grows

LEMMA StoreCompleteType ==
  ASSUME TypeOK, NEW a \in Agents, StoreComplete(a)
  PROVE  TypeOK'
<1> DEFINE c == call[a]
<1>1. TablesOK /\ CallsOK /\ BoundsOK /\ clock \in Nat /\ c \in Call
  BY TypeParts DEF CallsOK
<1>2. Grows /\ Idle \in Call' /\ c \in Call'
  BY <1>1, Ticks, IdleTypeNext, CallGrows DEF StoreComplete, Grows
<1>3. CallsOK'
  BY <1>1, <1>2, SetType DEF StoreComplete
<1>4. TablesOK'
  <2>1. CASE UNCHANGED <<completed, actions, statuses, latest>>
    BY <1>1, <1>2, <2>1, TablesGrow DEF StoreComplete, tables
  <2>2. CASE InsertCompleteRma(c)
    <3> DEFINE new == [ticket |-> c.ticket, ts |-> c.ts, stay |-> c.stay, again |-> c.again,
                       blind |-> c.blind]
    <3>1. ActionsOK' /\ StatusesOK'
      BY <1>1, <1>2, <2>2, RepairRows DEF InsertCompleteRma
    <3>2. completed' = completed \cup {new}
      BY <2>2 DEF InsertCompleteRma
    <3>3. new \in [ticket : Ticket, ts : Time', stay : Time', again : BOOLEAN, blind : BOOLEAN]
      BY <1>2 DEF Call
    <3>4. RepairsOK'
      BY <1>1, <1>2, <3>2, <3>3, TimeGrows DEF StoreComplete, TablesOK, RepairsOK
    <3> QED BY <3>1, <3>4 DEF TablesOK
  <2> QED BY <2>1, <2>2 DEF StoreComplete, Fails
<1>5. BoundsOK'
  BY <1>1, FaultType DEF StoreComplete, Fails, BoundsOK
<1> QED BY <1>2, <1>3, <1>4, <1>5, TypePartsNext DEF Grows

\* The steps that write no row.
LEMMA RecyclerType ==
  ASSUME TypeOK, NEW a \in Agents,
         \/ CheckTicket(a) \/ CheckReady(a) \/ Reallocate(a) \/ Work(a) \/ Clone(a)
         \/ Killed(a)
  PROVE  TypeOK'
<1> DEFINE c == call[a]
<1>1. TablesOK /\ CallsOK /\ BoundsOK /\ clock \in Nat /\ c \in Call
  BY TypeParts DEF CallsOK
<1>2. UNCHANGED tables
  BY DEF CheckTicket, CheckReady, Reallocate, Work, Clone, Killed
<1>3. BoundsOK'
  BY <1>1, FaultType DEF CheckTicket, CheckReady, Reallocate, Work, Clone, Killed, BoundsOK
<1>4. ASSUME clock' = clock, NEW d \in Call, Set(a, d)
      PROVE  Grows /\ CallsOK'
  BY <1>1, <1>4, Ticks, CallGrows, SetType
<1>5. Grows /\ CallsOK'
  <2>1. CASE CheckTicket(a)
    <3>1. Idle \in Call /\ \A t \in TicketOfNode : t \in Ticket
      BY <1>1, IdleType DEF TablesOK, RepairsOK, TicketOfNode
    <3>2. \A t \in TicketOfNode : Decided(t, FALSE) \in Call
      BY <1>1, <3>1, DecidedType
    <3>3. [Idle EXCEPT !.at = "resolve", !.from = "ua", !.to = "triaged_unknown"] \in Call
      BY <3>1 DEF Call, Status, Triaged
    <3>4. clock' = clock
      BY <2>1 DEF CheckTicket
    <3>5. \E d \in Call : Set(a, d)
      BY <2>1, <3>2, <3>3 DEF CheckTicket
    <3> QED BY <1>4, <3>4, <3>5
  <2>2. CASE Reallocate(a)
    <3>1. Idle \in Call /\ [c EXCEPT !.at = "work", !.inner = TRUE] \in Call
      BY <1>1, IdleType DEF Call
    <3>2. clock' = clock
      BY <2>2 DEF Reallocate
    <3> QED BY <1>4, <2>2, <3>1, <3>2 DEF Reallocate
  <2>6. CASE CheckReady(a)
    <3>1. [Idle EXCEPT !.at = "reallocate"] \in Call
      BY <1>1, IdleType DEF Call
    <3> QED BY <1>4, <2>6, <3>1 DEF CheckReady
  <2>3. CASE Work(a)
    <3>1. CASE Raise(a)
      BY <1>1, <3>1, RaiseType
    <3>2. CASE Set(a, [c EXCEPT !.at = "clone"]) /\ clock' = clock
      <4>1. [c EXCEPT !.at = "clone"] \in Call
        BY <1>1 DEF Call
      <4> QED BY <1>4, <3>2, <4>1
    <3> QED BY <2>3, <3>1, <3>2 DEF Work, Abort
  <2>4. CASE Clone(a)
    <3>1. CASE Raise(a)
      BY <1>1, <3>1, RaiseType
    <3>2. CASE InsertAllocatedUA(a)
      <4>1. FromReady(c, "allocated_ua") \in Call'
        BY <1>1, <3>2, FromReadyType DEF InsertAllocatedUA, Status
      <4> QED BY <1>1, <3>2, <4>1, Ticks, SetType DEF InsertAllocatedUA
    <3> QED BY <2>4, <3>1, <3>2 DEF Clone
  <2>5. CASE Killed(a)
    BY <1>1, <1>4, <2>5, IdleType DEF Killed
  <2> QED BY <2>1, <2>2, <2>3, <2>4, <2>5, <2>6
<1>6. TablesOK'
  BY <1>1, <1>2, <1>5, TablesGrow
<1> QED BY <1>3, <1>5, <1>6, TypePartsNext DEF Grows

LEMMA TypeStep == TypeOK /\ [Next]_vars => TypeOK'
<1> SUFFICES ASSUME TypeOK, [Next]_vars PROVE TypeOK'
  OBVIOUS
<1>1. CASE UNCHANGED vars
  BY <1>1 DEF vars, TypeOK, Time, Call, Ticket
<1>2. CASE \E t \in Tickets : Vendor(t)
  BY <1>2 DEF Vendor, tables, TypeOK, Time, Call, Ticket
<1>3. CASE Onboarded
  BY <1>3 DEF Onboarded, tables, TypeOK, Time, Call, Ticket
<1> QED
  BY <1>1, <1>2, <1>3, ResolveType, WriteActionType, WriteStatusType, WriteRawType,
     InitiateType, StoreInitiateType, StoreCompleteType, RecyclerType, BeginType
  DEF Next, Step

\* Every variable keeps its type; the latest status is the row with the greatest time.
THEOREM TypeCorrect == Spec => []TypeOK
<1> QED BY TypeInit, TypeStep, PTL DEF Spec

-----------------------------------------------------------------------------
(* No status without its action.                                           *)

Explained(r) == r.ts = 0 \/ \E x \in actions : x.ts = r.ts /\ x.to = r.to

\* A call writes its status after its action.
ExplainedInv ==
  /\ \A r \in statuses : Explained(r)
  /\ \A a \in Agents : call[a].at = "status" => Explained(call[a])

\* A call goes on with c, at another place than before its status; rows that are added to the
\* statuses are explained.
LEMMA SetExplained ==
  ASSUME CallsOK, ExplainedInv, NEW a \in Agents, NEW c, c.at # "status", Set(a, c),
         actions \subseteq actions', \A r \in statuses' : r \in statuses \/ Explained(r)'
  PROVE  ExplainedInv'
<1>1. \A r \in statuses' : Explained(r)'
  BY DEF ExplainedInv, Explained
<1>2. ASSUME NEW b \in Agents, call'[b].at = "status"
      PROVE  Explained(call[b])'
  <2>1. b # a /\ call'[b] = call[b]
    BY <1>2 DEF CallsOK, Set
  <2> QED BY <1>2, <2>1 DEF ExplainedInv, Explained
<1> QED BY <1>1, <1>2 DEF ExplainedInv

\* The same for the ways a step goes on.
LEMMA IdleExplained ==
  ASSUME CallsOK, ExplainedInv, NEW a \in Agents, Set(a, Idle),
         actions \subseteq actions', \A r \in statuses' : r \in statuses \/ Explained(r)'
  PROVE  ExplainedInv'
<1>1. Idle.at # "status"
  BY DEF Idle
<1> QED BY <1>1, SetExplained

LEMMA RaiseExplained ==
  ASSUME CallsOK, ExplainedInv, NEW a \in Agents, Raise(a),
         actions \subseteq actions', \A r \in statuses' : r \in statuses \/ Explained(r)'
  PROVE  ExplainedInv'
<1>1. FromReady([Idle EXCEPT !.blind = call[a].blind], "triaged_unknown").at # "status"
  BY DEF FromReady, Idle
<1> QED BY <1>1, SetExplained, IdleExplained DEF Raise, InsertTriagedUnknown

LEMMA RejectedExplained ==
  ASSUME CallsOK, ExplainedInv, NEW a \in Agents, Rejected(a),
         actions \subseteq actions', \A r \in statuses' : r \in statuses \/ Explained(r)'
  PROVE  ExplainedInv'
<1>1. [call[a] EXCEPT !.at = "raw"].at # "status"
  BY DEF CallsOK, Call
<1> QED BY <1>1, SetExplained, RaiseExplained DEF Rejected

LEMMA AddedAction ==
  ASSUME NEW c, NEW via, AddAction(c, via)
  PROVE  \E x \in actions' : x.ts = c.ts /\ x.to = c.to
<1> DEFINE x == [ts |-> c.ts, from |-> c.from, to |-> c.to, via |-> via, blind |-> c.blind]
<1>1. x \in actions' /\ x.ts = c.ts /\ x.to = c.to
  BY DEF AddAction
<1> QED BY <1>1

\* A row that is added with its action.
LEMMA AddedExplained ==
  ASSUME NEW c, NEW via, AddAction(c, via), AddStatus(c)
  PROVE  actions \subseteq actions' /\ \A r \in statuses' : r \in statuses \/ Explained(r)'
<1>1. \A r \in statuses' : r \in statuses \/ (r.ts = c.ts /\ r.to = c.to)
  BY DEF AddStatus
<1>2. \E x \in actions' : x.ts = c.ts /\ x.to = c.to
  BY AddedAction
<1> QED BY <1>1, <1>2 DEF AddAction, Explained

LEMMA WriteActionExplained ==
  ASSUME TypeOK, ExplainedInv, NEW a \in Agents, WriteAction(a)
  PROVE  ExplainedInv'
<1> DEFINE c == call[a]
<1>1. CallsOK /\ c \in Call
  BY DEF TypeOK, CallsOK
<1>2. actions \subseteq actions' /\ statuses' = statuses
  BY DEF WriteAction, Fails, AddAction
<1>3. CASE Rejected(a)
  BY <1>1, <1>2, <1>3, RejectedExplained
<1>4. CASE AddAction(c, "sdk") /\ Set(a, [c EXCEPT !.at = "status"])
  <2>1. call'[a].ts = c.ts /\ call'[a].to = c.to
    BY <1>1, <1>4 DEF Set, CallsOK, Call
  <2>2. Explained(call[a])'
    BY <1>4, <2>1, AddedAction DEF Explained
  <2>3. ASSUME NEW b \in Agents, b # a, call'[b].at = "status"
        PROVE  Explained(call[b])'
    BY <1>1, <1>2, <1>4, <2>3 DEF Set, CallsOK, ExplainedInv, Explained
  <2> QED BY <1>2, <2>2, <2>3 DEF ExplainedInv, Explained
<1> QED BY <1>3, <1>4 DEF WriteAction

LEMMA WriteStatusExplained ==
  ASSUME TypeOK, ExplainedInv, NEW a \in Agents, WriteStatus(a)
  PROVE  ExplainedInv'
<1>1. CallsOK /\ Explained(call[a])
  BY DEF TypeOK, CallsOK, WriteStatus, ExplainedInv
<1>2. actions' = actions
  BY DEF WriteStatus
<1>3. \A r \in statuses' : r \in statuses \/ Explained(r)'
  BY <1>1, <1>2 DEF WriteStatus, Fails, AddStatus, Explained
<1> QED BY <1>1, <1>2, <1>3, RejectedExplained, IdleExplained DEF WriteStatus

LEMMA WriteRawExplained ==
  ASSUME TypeOK, ExplainedInv, NEW a \in Agents, WriteRaw(a)
  PROVE  ExplainedInv'
<1>1. CallsOK
  BY DEF TypeOK, CallsOK
<1>2. RawBoth(call[a]) \/ UNCHANGED <<actions, statuses>>
  BY DEF WriteRaw, Fails
<1>3. actions \subseteq actions' /\ \A r \in statuses' : r \in statuses \/ Explained(r)'
  BY <1>2, AddedExplained DEF RawBoth
<1> QED BY <1>1, <1>3, RaiseExplained, IdleExplained DEF WriteRaw

LEMMA RepairExplained ==
  ASSUME TypeOK, ExplainedInv, NEW a \in Agents, StoreInitiate(a) \/ StoreComplete(a)
  PROVE  ExplainedInv'
<1>1. CallsOK /\ Set(a, Idle)
  BY DEF TypeOK, CallsOK, StoreInitiate, StoreComplete
<1>2. \/ UNCHANGED <<actions, statuses>>
      \/ InsertRmaTransition(call[a]) \/ InsertCompleteRma(call[a])
  BY DEF StoreInitiate, StoreComplete, Fails
<1>3. actions \subseteq actions' /\ \A r \in statuses' : r \in statuses \/ Explained(r)'
  BY <1>2, AddedExplained DEF InsertRmaTransition, InsertCompleteRma
<1> QED BY <1>1, <1>3, IdleExplained

LEMMA OtherExplained ==
  ASSUME TypeOK, ExplainedInv, NEW a \in Agents,
         \/ Resolve(a) \/ CheckTicket(a) \/ CheckReady(a) \/ Reallocate(a) \/ Work(a)
         \/ Clone(a) \/ InitiateRMA(a) \/ CompleteRMA(a) \/ Begin(a) \/ Killed(a)
  PROVE  ExplainedInv'
<1> DEFINE c == call[a]
<1>1. CallsOK /\ c \in Call
  BY DEF TypeOK, CallsOK
<1>2. actions' = actions /\ statuses' = statuses
  BY DEF Resolve, CheckTicket, CheckReady, Reallocate, Work, Clone, InitiateRMA, CompleteRMA,
         Detail, Killed, Begin, Move, Validate, SubmitTicket, CloneAndAllocate, CallComplete,
         CallReallocate, tables
<1>3. ASSUME UNCHANGED call PROVE ExplainedInv'
  BY <1>2, <1>3 DEF ExplainedInv, Explained
<1>4. ASSUME NEW d \in Call, NEW at, at # "status", Set(a, [d EXCEPT !.at = at])
      PROVE  ExplainedInv'
  <2>1. [d EXCEPT !.at = at].at # "status"
    BY <1>4 DEF Call
  <2> QED BY <1>1, <1>2, <1>4, <2>1, SetExplained
<1>5. CASE Resolve(a)
  <2>1. ASSUME NEW from, NEW blind,
               Set(a, [c EXCEPT !.at = "action", !.from = from, !.blind = blind, !.ts = clock'])
        PROVE  ExplainedInv'
    <3>1. [c EXCEPT !.at = "action", !.from = from, !.blind = blind, !.ts = clock'].at # "status"
      BY <1>1 DEF Call
    <3> QED BY <1>1, <1>2, <2>1, <3>1, SetExplained
  <2> QED BY <1>5, <2>1 DEF Resolve
<1>6. CASE CheckTicket(a)
  <2>1. \A t : Decided(t, FALSE).at # "status"
    BY DEF Decided, Idle
  <2>2. [Idle EXCEPT !.at = "resolve", !.from = "ua", !.to = "triaged_unknown"].at # "status"
    BY DEF Idle
  <2> QED BY <1>1, <1>2, <1>6, <2>1, <2>2, SetExplained DEF CheckTicket
<1>7. CASE Reallocate(a) \/ CheckReady(a)
  <2>1. [c EXCEPT !.at = "work", !.inner = TRUE].at # "status"
        /\ [Idle EXCEPT !.at = "reallocate"].at # "status"
    BY <1>1 DEF Idle, Call
  <2> QED BY <1>1, <1>2, <1>7, <2>1, SetExplained, IdleExplained DEF Reallocate, CheckReady
<1>12. CASE InitiateRMA(a) \/ CompleteRMA(a)
  <2>1. \A ts : [[c EXCEPT !.at = "initiating", !.from = "deallocated_ua", !.to = "ua",
                           !.blind = TRUE] EXCEPT !.ts = ts].at # "status"
    BY <1>1 DEF Call
  <2>2. \A ts : [[c EXCEPT !.at = "completing"] EXCEPT !.ts = ts].at # "status"
    BY <1>1 DEF Call
  <2> QED BY <1>1, <1>2, <1>12, <2>1, <2>2, SetExplained, IdleExplained
          DEF InitiateRMA, CompleteRMA, Detail
<1>8. CASE Work(a)
  BY <1>1, <1>2, <1>4, <1>8, RaiseExplained DEF Work, Abort
<1>9. CASE Clone(a)
  <2>1. FromReady(c, "allocated_ua").at # "status"
    BY <1>1 DEF FromReady, Call
  <2> QED BY <1>1, <1>2, <1>9, <2>1, SetExplained, RaiseExplained DEF Clone, InsertAllocatedUA
<1>10. CASE Killed(a)
  BY <1>1, <1>2, <1>10, IdleExplained DEF Killed
<1>11. CASE Begin(a)
  <2>1. \A from, to : [Idle EXCEPT !.at = "resolve", !.from = from, !.to = to].at # "status"
    BY DEF Idle
  <2>2. [Idle EXCEPT !.at = "resolve", !.from = "none", !.to = "validating", !.raw = TRUE].at
          # "status"
    BY DEF Idle
  <2>3. \A t : [Idle EXCEPT !.at = "initiate", !.ticket = t].at # "status"
    BY DEF Idle
  <2>4. [Idle EXCEPT !.at = "clone", !.blind = TRUE].at # "status"
    BY DEF Idle
  <2>5. \A t : Decided(t, TRUE).at # "status"
    BY DEF Decided, Idle
  <2>6. [Idle EXCEPT !.at = "reallocate", !.blind = TRUE].at # "status"
    BY DEF Idle
  <2> QED BY <1>1, <1>2, <1>3, <1>11, <2>1, <2>2, <2>3, <2>4, <2>5, <2>6, SetExplained
          DEF Begin, Move, Validate, SubmitTicket, CloneAndAllocate, CallComplete,
              CallReallocate
<1> QED BY <1>5, <1>6, <1>7, <1>8, <1>9, <1>10, <1>11, <1>12

\* A node never gets a status without the action that explains it, wherever a call fails, falls
\* back to SQL or is killed: the action is written first, or both in one transaction.
THEOREM StatusExplained == Spec => []StatusHasAction
<1>1. Init => ExplainedInv
  BY DEF Init, ExplainedInv, Explained, Idle
<1>2. TypeOK /\ ExplainedInv /\ [Next]_vars => ExplainedInv'
  <2>1. ExplainedInv /\ (UNCHANGED vars \/ Onboarded \/ \E t \in Tickets : Vendor(t))
          => ExplainedInv'
    BY DEF vars, Vendor, Onboarded, tables, ExplainedInv, Explained
  <2> QED BY <2>1, WriteActionExplained, WriteStatusExplained, WriteRawExplained,
             RepairExplained, OtherExplained DEF Next, Step
<1>3. ExplainedInv => StatusHasAction
  BY DEF ExplainedInv, Explained, StatusHasAction
<1> QED BY <1>1, <1>2, <1>3, TypeCorrect, PTL DEF Spec

-----------------------------------------------------------------------------
(* No action from a status the node never had.                             *)

\* S: the rows of node_status.
From(S, x) == x.blind \/ \E r \in S : r.ts < x.ts /\ r.to = x.from
Had(S, status) == \E r \in S : r.to = status

\* What a call knows: where the row it is about to write comes from, and the status it began in.
Knows(S, c) ==
  /\ c.at \in {"status", "raw", "initiating", "completing"} => From(S, c)
  /\ c.at = "action" /\ (c.raw \/ IsValidAction(c.from, c.to)) => From(S, c)
  /\ c.inner \/ c.at \in {"reallocate", "work", "clone"} => c.blind \/ Had(S, "ready_ua")
  /\ c.at = "resolve" => ~ c.inner
  /\ c.at = "complete" =>
       c.from = "ua" /\ (c.blind \/ \E r \in S : r.ts = c.stay /\ r.to = "ua")

SourceInv ==
  /\ \A x \in actions : From(statuses, x)
  /\ \A a \in Agents : Knows(statuses, call[a])

\* Statuses stay.
LEMMA KnowsGrows ==
  ASSUME NEW S, NEW T, S \subseteq T, NEW c, Knows(S, c)
  PROVE  Knows(T, c)
BY DEF Knows, From, Had

LEMMA SetKnows ==
  ASSUME CallsOK, SourceInv, NEW a \in Agents, NEW c, Set(a, c), Knows(statuses', c),
         statuses \subseteq statuses', \A x \in actions' : x \in actions \/ From(statuses', x)
  PROVE  SourceInv'
<1>1. \A b \in Agents : Knows(statuses', call'[b])
  BY KnowsGrows DEF CallsOK, Set, SourceInv
<1>2. \A x \in actions' : From(statuses', x)
  BY DEF SourceInv, From
<1> QED BY <1>1, <1>2 DEF SourceInv

LEMMA IdleKnows ==
  ASSUME CallsOK, SourceInv, NEW a \in Agents, Set(a, Idle),
         statuses \subseteq statuses', \A x \in actions' : x \in actions \/ From(statuses', x)
  PROVE  SourceInv'
<1>1. Knows(statuses', Idle)
  BY DEF Knows, Idle
<1> QED BY <1>1, SetKnows

\* insert_allocated_ua and insert_triaged_unknown begin for a node that was ready_ua.
LEMMA FromReadyKnows ==
  ASSUME TypeOK, NEW S, statuses \subseteq S, NEW c \in Call, NEW to \in Status,
         c.blind \/ Had(statuses, "ready_ua")
  PROVE  Knows(S, FromReady(c, to))
<1>1. \A r \in statuses : r.ts < clock + 1
  BY DEF TypeOK, Time
<1> DEFINE d == FromReady(c, to)
<1>2. d.at = "action" /\ d.from = "ready_ua" /\ d.ts = clock + 1
      /\ d.blind = c.blind /\ d.inner = c.inner
  BY DEF FromReady, Call
<1>3. From(S, d)
  BY <1>1, <1>2 DEF From, Had
<1>4. d.blind \/ Had(S, "ready_ua")
  BY <1>2 DEF Had
<1> QED BY <1>2, <1>3, <1>4 DEF Knows

LEMMA RaiseKnows ==
  ASSUME TypeOK, SourceInv, NEW a \in Agents, Raise(a),
         statuses \subseteq statuses', \A x \in actions' : x \in actions \/ From(statuses', x)
  PROVE  SourceInv'
<1>1. CallsOK
  BY DEF TypeOK, CallsOK
<1>2. CASE call[a].inner
  <2> DEFINE d == [Idle EXCEPT !.blind = call[a].blind]
  <2>1. Set(a, FromReady(d, "triaged_unknown"))
    BY <1>2 DEF Raise, InsertTriagedUnknown
  <2>2. d.blind \/ Had(statuses, "ready_ua")
    BY <1>2 DEF SourceInv, Knows, Idle
  <2>3. Idle \in Call /\ call[a].blind \in BOOLEAN /\ "triaged_unknown" \in Status
    BY IdleType DEF TypeOK, Status, Triaged, Call
  <2>5. d \in Call
    BY <2>3 DEF Call
  <2>4. Knows(statuses', FromReady(d, "triaged_unknown"))
    BY <2>2, <2>3, <2>5, FromReadyKnows
  <2> QED BY <1>1, <2>1, <2>4, SetKnows
<1>3. CASE ~ call[a].inner
  BY <1>1, <1>3, IdleKnows DEF Raise
<1> QED BY <1>2, <1>3

LEMMA RejectedKnows ==
  ASSUME TypeOK, SourceInv, NEW a \in Agents, Rejected(a), call[a].at \in {"action", "status"},
         statuses \subseteq statuses', \A x \in actions' : x \in actions \/ From(statuses', x)
  PROVE  SourceInv'
<1> DEFINE c == call[a]
<1>1. CallsOK /\ c \in Call /\ Knows(statuses', c)
  BY KnowsGrows DEF TypeOK, CallsOK, SourceInv
<1>2. CASE c.raw
  <2> DEFINE d == [c EXCEPT !.at = "raw"]
  <2>1. d.at = "raw" /\ d.inner = c.inner /\ d.blind = c.blind /\ d.ts = c.ts /\ d.from = c.from
    BY <1>1 DEF Call
  <2>2. From(statuses', c) /\ (c.inner => c.blind \/ Had(statuses', "ready_ua"))
    BY <1>1, <1>2 DEF Knows
  <2>3. Knows(statuses', d)
    BY <2>1, <2>2 DEF Knows, From
  <2> QED BY <1>1, <1>2, <2>3, SetKnows DEF Rejected
<1>3. CASE ~ c.raw
  BY <1>3, RaiseKnows DEF Rejected
<1> QED BY <1>2, <1>3

\* The read of the current status.
LEMMA ResolveKnows ==
  ASSUME TypeOK, SourceInv, NEW a \in Agents, Resolve(a)
  PROVE  SourceInv'
<1> DEFINE c == call[a]
           d(from, blind) == [c EXCEPT !.at = "action", !.from = from, !.blind = blind,
                                       !.ts = clock']
<1>1. CallsOK /\ c \in Call /\ Knows(statuses, c) /\ UNCHANGED <<statuses, actions>>
  BY DEF TypeOK, CallsOK, SourceInv, Resolve, tables
<1>2. \A from, blind :
        /\ d(from, blind).at = "action" /\ d(from, blind).from = from
        /\ d(from, blind).blind = blind /\ d(from, blind).ts = clock'
        /\ d(from, blind).inner = c.inner /\ d(from, blind).raw = c.raw
        /\ d(from, blind).to = c.to
  BY <1>1 DEF Call
<1>3. ~ c.inner
  BY <1>1 DEF Knows, Resolve
<1>4. CASE Set(a, d(c.from, TRUE))
  <2>1. Knows(statuses', d(c.from, TRUE))
    BY <1>2, <1>3 DEF Knows, From
  <2> QED BY <1>1, <1>4, <2>1, SetKnows
<1>5. CASE /\ Set(a, d(latest.to, FALSE))
           /\ clock' = IF c.raw \/ IsValidAction(latest.to, c.to) THEN clock + 1 ELSE clock
  <2> DEFINE e == d(latest.to, FALSE)
  <2>1. latest \in statuses' /\ latest.ts < clock + 1
    BY <1>1 DEF TypeOK, Time
  <2>2. c.raw \/ IsValidAction(latest.to, c.to) => From(statuses', e)
    BY <1>2, <1>5, <2>1 DEF From
  <2>3. Knows(statuses', e)
    BY <1>2, <1>3, <2>2 DEF Knows
  <2> QED BY <1>1, <1>5, <2>3, SetKnows
<1> QED BY <1>4, <1>5 DEF Resolve, Corrected

\* The rows that are written come from where the call knows they do.
LEMMA WritesKnow ==
  ASSUME TypeOK, SourceInv, NEW a \in Agents, WriteAction(a) \/ WriteStatus(a) \/ WriteRaw(a)
  PROVE  SourceInv'
<1> DEFINE c == call[a]
<1>1. CallsOK /\ c \in Call /\ Knows(statuses, c)
  BY DEF TypeOK, CallsOK, SourceInv
<1>2. ASSUME NEW via, AddAction(c, via), From(statuses, c), statuses \subseteq statuses'
      PROVE  \A x \in actions' : x \in actions \/ From(statuses', x)
  BY <1>2 DEF AddAction, From
<1>3. CASE WriteAction(a)
  <2>1. statuses' = statuses
    BY <1>3 DEF WriteAction
  <2>2. AddAction(c, "sdk") => From(statuses, c) \/ ~ IsValidAction(c.from, c.to)
    BY <1>1, <1>3 DEF WriteAction, Knows
  <2>3. \A x \in actions' : x \in actions \/ From(statuses', x)
    BY <1>2, <1>3, <2>1, <2>2 DEF WriteAction, Fails
  <2>4. CASE Rejected(a)
    BY <1>3, <2>1, <2>3, <2>4, RejectedKnows DEF WriteAction
  <2>5. CASE Set(a, [c EXCEPT !.at = "status"]) /\ IsValidAction(c.from, c.to)
    <3> DEFINE d == [c EXCEPT !.at = "status"]
    <3>1. d.at = "status" /\ d.inner = c.inner /\ d.blind = c.blind /\ d.ts = c.ts /\ d.from = c.from
      BY <1>1 DEF Call
    <3>2. Knows(statuses', d)
      BY <1>1, <1>3, <2>1, <2>5, <3>1 DEF WriteAction, Knows, From
    <3> QED BY <1>1, <2>1, <2>3, <2>5, <3>2, SetKnows
  <2> QED BY <1>3, <2>4, <2>5 DEF WriteAction
<1>4. CASE WriteStatus(a)
  <2>1. actions' = actions /\ statuses \subseteq statuses'
    BY <1>4 DEF WriteStatus, Fails, AddStatus
  <2> QED BY <1>1, <1>4, <2>1, RejectedKnows, IdleKnows DEF WriteStatus
<1>5. CASE WriteRaw(a)
  <2>1. RawBoth(c) \/ UNCHANGED <<actions, statuses>>
    BY <1>5 DEF WriteRaw, Fails
  <2>2. statuses \subseteq statuses'
    BY <2>1 DEF RawBoth, AddStatus
  <2>3. \A x \in actions' : x \in actions \/ From(statuses', x)
    BY <1>1, <1>2, <1>5, <2>1, <2>2 DEF WriteRaw, RawBoth, Knows
  <2> QED BY <1>1, <1>5, <2>2, <2>3, RaiseKnows, IdleKnows DEF WriteRaw
<1> QED BY <1>3, <1>4, <1>5

LEMMA RepairKnows ==
  ASSUME TypeOK, SourceInv, NEW a \in Agents, StoreInitiate(a) \/ StoreComplete(a)
  PROVE  SourceInv'
<1> DEFINE c == call[a]
<1>1. CallsOK /\ Set(a, Idle) /\ From(statuses, c)
  BY DEF TypeOK, CallsOK, SourceInv, Knows, StoreInitiate, StoreComplete
<1>2. \/ UNCHANGED <<actions, statuses>>
      \/ AddAction(c, "raw") /\ AddStatus(c)
  BY DEF StoreInitiate, StoreComplete, Fails, InsertRmaTransition, InsertCompleteRma
<1>3. statuses \subseteq statuses' /\ \A x \in actions' : x \in actions \/ From(statuses', x)
  BY <1>1, <1>2 DEF AddStatus, AddAction, From
<1> QED BY <1>1, <1>3, IdleKnows

\* A tool takes the time of its rows after it read, or was given, where the node comes from.
LEMMA DetailKnows ==
  ASSUME TypeOK, SourceInv, NEW a \in Agents, InitiateRMA(a) \/ CompleteRMA(a)
  PROVE  SourceInv'
<1> DEFINE c == call[a]
           i == [[c EXCEPT !.at = "initiating", !.from = "deallocated_ua", !.to = "ua",
                           !.blind = TRUE] EXCEPT !.ts = clock + 1]
           d == [[c EXCEPT !.at = "completing"] EXCEPT !.ts = clock + 1]
<1>1. CallsOK /\ c \in Call /\ Knows(statuses, c) /\ UNCHANGED <<actions, statuses>>
  BY DEF TypeOK, CallsOK, SourceInv, InitiateRMA, CompleteRMA, Detail, tables
<1>2. CASE Set(a, Idle)
  BY <1>1, <1>2, IdleKnows
<1>3. CASE Set(a, i)
  <2>1. Knows(statuses', i)
    BY <1>1 DEF Call, Knows, From
  <2> QED BY <1>1, <1>3, <2>1, SetKnows
<1>4. CASE Set(a, d) /\ CompleteRMA(a)
  <2>1. /\ d.at = "completing" /\ d.ts = clock + 1 /\ d.from = c.from /\ d.blind = c.blind
        /\ d.inner = c.inner
    BY <1>1 DEF Call
  <2>2. \A r \in statuses : r.ts < clock + 1
    BY DEF TypeOK, Time
  <2>3. From(statuses', d)
    BY <1>1, <1>4, <2>1, <2>2 DEF Knows, From, CompleteRMA
  <2>4. Knows(statuses', d)
    BY <1>1, <2>1, <2>3 DEF Knows
  <2> QED BY <1>1, <1>4, <2>4, SetKnows
<1> QED BY <1>2, <1>3, <1>4 DEF InitiateRMA, CompleteRMA, Detail

LEMMA OthersKnow ==
  ASSUME TypeOK, SourceInv, NEW a \in Agents,
         \/ CheckTicket(a) \/ CheckReady(a) \/ Reallocate(a) \/ Work(a) \/ Clone(a) \/ Begin(a)
         \/ Killed(a)
  PROVE  SourceInv'
<1> DEFINE c == call[a]
<1>1. CallsOK /\ c \in Call /\ Knows(statuses, c) /\ clock \in Nat
  BY DEF TypeOK, CallsOK, SourceInv
<1>2. UNCHANGED <<actions, statuses>>
  BY DEF CheckTicket, CheckReady, Reallocate, Work, Clone, Killed, Begin, Move, Validate,
         SubmitTicket, CloneAndAllocate, CallComplete, CallReallocate, tables
<1>3. ASSUME UNCHANGED call PROVE SourceInv'
  BY <1>2, <1>3 DEF SourceInv
<1>4. ASSUME NEW d, Knows(statuses', d), Set(a, d) PROVE SourceInv'
  BY <1>1, <1>2, <1>4, SetKnows
<1>5. CASE CheckTicket(a)
  <2>1. \A t : Knows(statuses', Decided(t, FALSE))
    BY ZenonT(60), <1>2, <1>5 DEF CheckTicket, In, Decided, Idle, Knows, TypeOK
  <2>2. Knows(statuses', [Idle EXCEPT !.at = "resolve", !.from = "ua", !.to = "triaged_unknown"])
    BY DEF Idle, Knows
  <2> QED BY <1>4, <1>5, <2>1, <2>2 DEF CheckTicket
<1>11. CASE CheckReady(a)
  <2>1. Had(statuses', "ready_ua")
    BY <1>2, <1>11 DEF CheckReady, In, Had, TypeOK
  <2>2. Knows(statuses', [Idle EXCEPT !.at = "reallocate"])
    BY <2>1 DEF Idle, Knows
  <2> QED BY <1>4, <1>11, <2>2 DEF CheckReady
<1>6. CASE Reallocate(a)
  <2> DEFINE d == [c EXCEPT !.at = "work", !.inner = TRUE]
  <2>1. c.blind \/ Had(statuses', "ready_ua")
    BY <1>1, <1>2, <1>6 DEF Reallocate, Knows
  <2>2. Knows(statuses', d)
    BY <1>1, <2>1 DEF Call, Knows
  <2> QED BY <1>1, <1>2, <1>4, <1>6, <2>2, IdleKnows DEF Reallocate
<1>7. CASE Work(a)
  <2>1. CASE Raise(a)
    BY <1>2, <2>1, RaiseKnows
  <2>2. CASE Set(a, [c EXCEPT !.at = "clone"])
    <3> DEFINE d == [c EXCEPT !.at = "clone"]
    <3>1. d.at = "clone" /\ d.inner = c.inner /\ d.blind = c.blind
      BY <1>1 DEF Call
    <3>2. Knows(statuses', d)
      BY <1>1, <1>2, <1>7, <3>1 DEF Work, Knows
    <3> QED BY <1>4, <2>2, <3>2
  <2> QED BY <1>7, <2>1, <2>2 DEF Work, Abort
<1>8. CASE Clone(a)
  <2>1. c.blind \/ Had(statuses, "ready_ua")
    BY <1>1, <1>8 DEF Clone, Knows
  <2>3. Knows(statuses', FromReady(c, "allocated_ua"))
    BY <1>1, <1>2, <2>1, FromReadyKnows DEF Status
  <2> QED BY <1>2, <1>4, <1>8, <2>3, RaiseKnows DEF Clone, InsertAllocatedUA
<1>9. CASE Killed(a)
  BY <1>1, <1>2, <1>9, IdleKnows DEF Killed
<1>10. CASE Begin(a)
  <2>1. \A from, to : Knows(statuses', [Idle EXCEPT !.at = "resolve", !.from = from, !.to = to])
    BY DEF Idle, Knows
  <2>2. Knows(statuses', [Idle EXCEPT !.at = "resolve", !.from = "none", !.to = "validating",
                                      !.raw = TRUE])
    BY DEF Idle, Knows
  <2>3. \A t : Knows(statuses', [Idle EXCEPT !.at = "initiate", !.ticket = t])
    BY DEF Idle, Knows
  <2>4. Knows(statuses', [Idle EXCEPT !.at = "clone", !.blind = TRUE])
    BY DEF Idle, Knows
  <2>5. \A t : Knows(statuses', Decided(t, TRUE))
    BY DEF Decided, Idle, Knows
  <2>6. Knows(statuses', [Idle EXCEPT !.at = "reallocate", !.blind = TRUE])
    BY DEF Idle, Knows
  <2> QED BY <1>3, <1>4, <1>10, <2>1, <2>2, <2>3, <2>4, <2>5, <2>6
          DEF Begin, Move, Validate, SubmitTicket, CloneAndAllocate, CallComplete,
              CallReallocate
<1> QED BY <1>5, <1>6, <1>7, <1>8, <1>9, <1>10, <1>11

LEMMA SourceStep == TypeOK /\ SourceInv /\ [Next]_vars => SourceInv'
<1>1. SourceInv /\ (UNCHANGED vars \/ Onboarded \/ \E t \in Tickets : Vendor(t)) => SourceInv'
  BY DEF vars, Vendor, Onboarded, tables, SourceInv
<1> QED BY <1>1, ResolveKnows, WritesKnow, RepairKnows, DetailKnows, OthersKnow DEF Next, Step

LEMMA SourceInit == Init => SourceInv
BY DEF Init, SourceInv, Knows, Idle

\* However many agents write at once, the status an action names as the one before is one the
\* node had before, unless its reader was blind: between the read and the write the node may
\* move, but what was read stays in its history with an earlier time.
THEOREM SourcesReal == Spec => []FromWasReal
<1>1. SourceInv => FromWasReal
  BY DEF SourceInv, From, FromWasReal
<1> QED BY <1>1, SourceInit, SourceStep, TypeCorrect, PTL DEF Spec

-----------------------------------------------------------------------------
(* No stay in ua is completed again.                                       *)

Completing(a) == call[a].at \in {"complete", "completing"}

\* A completion moves the node out of the stay it was decided on, and what is decided by a poll
\* is decided on a stay nobody completed.
StayInv ==
  /\ \A d \in completed : d.stay < d.ts /\ d.ts <= latest.ts
  /\ \A a \in Agents : Completing(a) =>
       call[a].blind \/ (~ call[a].again /\ \E r \in statuses : r.ts = call[a].stay /\ r.to = "ua")
  /\ \A a \in Agents : call[a].at = "completing" => call[a].stay < call[a].ts
  /\ StayCompletedOnce

\* The latest row is never replaced by an earlier one.
LEMMA LatestGrows ==
  ASSUME TypeOK, TypeOK', statuses \subseteq statuses'
  PROVE  latest.ts <= latest'.ts
BY DEF TypeOK

\* Nobody newly decides to complete, or goes on with it.
Quiet == \A b \in Agents : call'[b].at \in {"complete", "completing"} => call'[b] = call[b]

LEMMA SetQuiet ==
  ASSUME CallsOK, NEW a \in Agents, NEW c, c.at \notin {"complete", "completing"}, Set(a, c)
  PROVE  Quiet
BY DEF Quiet, CallsOK, Set

LEMMA QuietStay ==
  ASSUME TypeOK, TypeOK', StayInv, Quiet, completed' = completed, statuses \subseteq statuses'
  PROVE  StayInv'
<1>1. latest.ts <= latest'.ts /\ latest.ts \in Nat /\ latest'.ts \in Nat
      /\ \A d \in completed : d.ts \in Nat
  BY LatestGrows DEF TypeOK, Time
<1>2. \A d \in completed' : d.stay < d.ts /\ d.ts <= latest'.ts
  BY <1>1 DEF StayInv
<1>3. \A a \in Agents : call'[a].at \in {"complete", "completing"} =>
        \/ call'[a].blind
        \/ ~ call'[a].again /\ \E r \in statuses' : r.ts = call'[a].stay /\ r.to = "ua"
  BY DEF StayInv, Quiet, Completing
<1>4. \A a \in Agents : call'[a].at = "completing" => call'[a].stay < call'[a].ts
  BY DEF StayInv, Quiet
<1>5. StayCompletedOnce'
  BY DEF StayInv, StayCompletedOnce
<1> QED BY <1>2, <1>3, <1>4, <1>5 DEF StayInv, Completing

LEMMA RaiseQuiet ==
  ASSUME CallsOK, NEW a \in Agents, Raise(a) \/ Set(a, Idle)
  PROVE  Quiet
<1>1. /\ FromReady([Idle EXCEPT !.blind = call[a].blind], "triaged_unknown").at = "action"
      /\ Idle.at = "idle"
  BY DEF FromReady, Idle
<1> QED BY <1>1, SetQuiet DEF Raise, InsertTriagedUnknown

LEMMA RejectedQuiet ==
  ASSUME CallsOK, NEW a \in Agents, Rejected(a)
  PROVE  Quiet
<1>1. [call[a] EXCEPT !.at = "raw"].at = "raw"
  BY DEF CallsOK, Call
<1> QED BY <1>1, SetQuiet, RaiseQuiet DEF Rejected

LEMMA WritesStay ==
  ASSUME TypeOK, TypeOK', StayInv, NEW a \in Agents,
         WriteAction(a) \/ WriteStatus(a) \/ WriteRaw(a) \/ StoreInitiate(a)
  PROVE  StayInv'
<1>1. CallsOK /\ completed' = completed
  BY DEF TypeOK, CallsOK, WriteAction, WriteStatus, WriteRaw, StoreInitiate
<1>2. statuses \subseteq statuses'
  BY DEF WriteAction, WriteStatus, WriteRaw, StoreInitiate, Fails, RawBoth,
         InsertRmaTransition, AddStatus
<1>3. [call[a] EXCEPT !.at = "status"].at = "status"
  BY <1>1 DEF CallsOK, Call
<1>4. Quiet
  BY <1>1, <1>3, SetQuiet, RaiseQuiet, RejectedQuiet
  DEF WriteAction, WriteStatus, WriteRaw, StoreInitiate
<1> QED BY <1>1, <1>2, <1>4, QuietStay

LEMMA OthersStay ==
  ASSUME TypeOK, TypeOK', StayInv, NEW a \in Agents,
         \/ Resolve(a) \/ InitiateRMA(a) \/ CheckReady(a) \/ Reallocate(a) \/ Work(a) \/ Clone(a)
         \/ Move(a) \/ Validate(a) \/ SubmitTicket(a) \/ CloneAndAllocate(a)
         \/ CallReallocate(a) \/ Killed(a)
  PROVE  StayInv'
<1> DEFINE c == call[a]
<1>1. CallsOK /\ c \in Call
  BY DEF TypeOK, CallsOK
<1>2. UNCHANGED <<completed, statuses>>
  BY DEF Resolve, InitiateRMA, Detail, CheckReady, Reallocate, Work, Clone, Killed, Move,
         Validate, SubmitTicket, CloneAndAllocate, CallReallocate, tables
<1>3. SUFFICES Quiet
  BY <1>2, QuietStay
<1>4. CASE UNCHANGED call
  BY <1>4 DEF Quiet
<1>5. CASE Resolve(a)
  <2>1. \A from, blind :
          [c EXCEPT !.at = "action", !.from = from, !.blind = blind, !.ts = clock'].at = "action"
    BY <1>1 DEF Call
  <2> QED BY <1>1, <1>5, <2>1, SetQuiet DEF Resolve
<1>6. CASE InitiateRMA(a)
  <2>1. \A ts : [[c EXCEPT !.at = "initiating", !.from = "deallocated_ua", !.to = "ua",
                           !.blind = TRUE] EXCEPT !.ts = ts].at = "initiating"
    BY <1>1 DEF Call
  <2> QED BY <1>1, <1>6, <2>1, SetQuiet, RaiseQuiet DEF InitiateRMA, Detail
<1>7. CASE CheckReady(a) \/ Reallocate(a) \/ CallReallocate(a)
  <2>1. /\ [Idle EXCEPT !.at = "reallocate"].at = "reallocate"
        /\ [Idle EXCEPT !.at = "reallocate", !.blind = TRUE].at = "reallocate"
        /\ [c EXCEPT !.at = "work", !.inner = TRUE].at = "work"
    BY <1>1 DEF Idle, Call
  <2> QED BY <1>1, <1>7, <2>1, SetQuiet, RaiseQuiet DEF CheckReady, Reallocate, CallReallocate
<1>8. CASE Work(a)
  <2>1. [c EXCEPT !.at = "clone"].at = "clone"
    BY <1>1 DEF Call
  <2> QED BY <1>1, <1>8, <2>1, SetQuiet, RaiseQuiet DEF Work, Abort
<1>9. CASE Clone(a)
  <2>1. FromReady(c, "allocated_ua").at = "action"
    BY <1>1 DEF FromReady, Call
  <2> QED BY <1>1, <1>9, <2>1, SetQuiet, RaiseQuiet DEF Clone, InsertAllocatedUA
<1>10. CASE Killed(a)
  BY <1>1, <1>10, RaiseQuiet DEF Killed
<1>11. CASE Move(a) \/ Validate(a) \/ SubmitTicket(a) \/ CloneAndAllocate(a)
  <2>1. \A from, to : [Idle EXCEPT !.at = "resolve", !.from = from, !.to = to].at = "resolve"
    BY DEF Idle
  <2>2. [Idle EXCEPT !.at = "resolve", !.from = "none", !.to = "validating", !.raw = TRUE].at
          = "resolve"
    BY DEF Idle
  <2>3. \A t : [Idle EXCEPT !.at = "initiate", !.ticket = t].at = "initiate"
    BY DEF Idle
  <2>4. [Idle EXCEPT !.at = "clone", !.blind = TRUE].at = "clone"
    BY DEF Idle
  <2> QED BY <1>1, <1>4, <1>11, <2>1, <2>2, <2>3, <2>4, SetQuiet
          DEF Move, Validate, SubmitTicket, CloneAndAllocate
<1> QED BY <1>5, <1>6, <1>7, <1>8, <1>9, <1>10, <1>11

\* A call that is decided to complete is blind, or decided on the latest status, ua, which no
\* completion was decided on: that would have moved latest on.
LEMMA DecidedStay ==
  ASSUME TypeOK, TypeOK', StayInv, NEW a \in Agents, CheckTicket(a) \/ CallComplete(a)
  PROVE  StayInv'
<1>1. CallsOK /\ UNCHANGED <<completed, statuses, latest>>
  BY DEF TypeOK, CallsOK, CheckTicket, CallComplete, tables
<1>2. \A d \in completed : d.stay # latest.ts
  BY DEF StayInv, TypeOK, Time
<1>3. ASSUME NEW t, NEW blind, Set(a, Decided(t, blind)), blind \/ In("ua")
      PROVE  StayInv'
  <2>1. call'[a] = Decided(t, blind)
    BY <1>1, <1>3 DEF Set, CallsOK
  <2>2. /\ call'[a].at = "complete" /\ call'[a].blind = blind /\ ~ call'[a].again
        /\ call'[a].stay = latest.ts
    BY <1>2, <2>1 DEF Decided, Idle
  <2>3. \A b \in Agents : b # a => call'[b] = call[b]
    BY <1>1, <1>3 DEF Set, CallsOK
  <2>4. blind \/ \E r \in statuses' : r.ts = latest.ts /\ r.to = "ua"
    BY <1>1, <1>3 DEF In, TypeOK
  <2>5. ASSUME NEW b \in Agents, call'[b].at \in {"complete", "completing"}
        PROVE  \/ call'[b].blind
               \/ ~ call'[b].again /\ \E r \in statuses' : r.ts = call'[b].stay /\ r.to = "ua"
    BY <1>1, <2>2, <2>3, <2>4, <2>5 DEF StayInv, Completing
  <2>6. \A b \in Agents : call'[b].at = "completing" => call'[b].stay < call'[b].ts
    BY <2>2, <2>3 DEF StayInv
  <2> QED BY <1>1, <2>5, <2>6 DEF StayInv, StayCompletedOnce, Completing
<1>4. CASE Set(a, [Idle EXCEPT !.at = "resolve", !.from = "ua", !.to = "triaged_unknown"])
  <2>1. [Idle EXCEPT !.at = "resolve", !.from = "ua", !.to = "triaged_unknown"].at = "resolve"
    BY DEF Idle
  <2> QED BY <1>1, <1>4, <2>1, SetQuiet, QuietStay
<1> QED BY <1>3, <1>4 DEF CheckTicket, CallComplete

\* The time of a completion is taken after its stay began.
LEMMA CompleteStay ==
  ASSUME TypeOK, TypeOK', StayInv, NEW a \in Agents, CompleteRMA(a)
  PROVE  StayInv'
<1> DEFINE c == call[a]
           d == [[c EXCEPT !.at = "completing"] EXCEPT !.ts = clock + 1]
<1>1. CallsOK /\ c \in Call /\ UNCHANGED <<completed, statuses, latest>> /\ c.at = "complete"
  BY DEF TypeOK, CallsOK, CompleteRMA, Detail, tables
<1>2. CASE Set(a, Idle)
  BY <1>1, <1>2, RaiseQuiet, QuietStay
<1>3. CASE Set(a, d)
  <2>1. /\ d.ts = clock + 1 /\ d.stay = c.stay /\ d.again = c.again /\ d.blind = c.blind
        /\ c.stay < clock + 1
    BY <1>1 DEF Call, Time, TypeOK
  <2>2. call'[a] = d /\ \A b \in Agents : b # a => call'[b] = call[b]
    BY <1>1, <1>3 DEF Set, CallsOK
  <2>3. ASSUME NEW b \in Agents, call'[b].at \in {"complete", "completing"}
        PROVE  \/ call'[b].blind
               \/ ~ call'[b].again /\ \E r \in statuses' : r.ts = call'[b].stay /\ r.to = "ua"
    <3>1. CASE b = a
      BY ZenonT(60), <1>1, <2>1, <2>2, <3>1 DEF StayInv, Completing
    <3>2. CASE b # a
      BY <1>1, <2>2, <2>3, <3>2 DEF StayInv, Completing
    <3> QED BY <3>1, <3>2
  <2>4. ASSUME NEW b \in Agents, call'[b].at = "completing" PROVE call'[b].stay < call'[b].ts
    <3>1. CASE b = a
      BY <2>1, <2>2, <3>1
    <3>2. CASE b # a
      BY <2>2, <2>4, <3>2 DEF StayInv
    <3> QED BY <3>1, <3>2
  <2> QED BY <1>1, <2>3, <2>4 DEF StayInv, StayCompletedOnce, Completing
<1> QED BY <1>2, <1>3 DEF CompleteRMA, Detail

\* A stored completion is later than the stay it ends.
LEMMA StoreStay ==
  ASSUME TypeOK, TypeOK', StayInv, NEW a \in Agents, StoreComplete(a)
  PROVE  StayInv'
<1> DEFINE c == call[a]
           new == [ticket |-> c.ticket, ts |-> c.ts, stay |-> c.stay, again |-> c.again,
                   blind |-> c.blind]
<1>1. CallsOK /\ c \in Call /\ Set(a, Idle) /\ c.at = "completing" /\ Completing(a)
  BY DEF TypeOK, CallsOK, StoreComplete, Completing
<1>2. Quiet
  BY <1>1, RaiseQuiet
<1>3. CASE UNCHANGED <<completed, statuses>>
  BY <1>2, <1>3, QuietStay
<1>4. CASE InsertCompleteRma(c)
  <2>1. completed' = completed \cup {new} /\ statuses \subseteq statuses'
        /\ \E r \in statuses' : r.ts = c.ts
    BY <1>4 DEF InsertCompleteRma, AddStatus
  <2>2. latest.ts <= latest'.ts /\ c.ts <= latest'.ts /\ latest.ts \in Nat /\ latest'.ts \in Nat
        /\ \A d \in completed : d.ts \in Nat
    BY <2>1, LatestGrows DEF TypeOK, Time
  <2>3. \A d \in completed' : d.stay < d.ts /\ d.ts <= latest'.ts
    BY <1>1, <2>1, <2>2 DEF StayInv
  <2>4. StayCompletedOnce'
    BY <1>1, <2>1 DEF StayInv, StayCompletedOnce
  <2>5. ASSUME NEW b \in Agents, call'[b].at \in {"complete", "completing"}
        PROVE  \/ call'[b].blind
               \/ ~ call'[b].again /\ \E r \in statuses' : r.ts = call'[b].stay /\ r.to = "ua"
    BY <1>2, <2>1, <2>5 DEF StayInv, Quiet, Completing
  <2>6. \A b \in Agents : call'[b].at = "completing" => call'[b].stay < call'[b].ts
    BY <1>2 DEF StayInv, Quiet
  <2> QED BY <2>3, <2>4, <2>5, <2>6 DEF StayInv, Completing
<1> QED BY <1>3, <1>4 DEF StoreComplete, Fails

LEMMA StayStep == TypeOK /\ TypeOK' /\ StayInv /\ [Next]_vars => StayInv'
<1> SUFFICES ASSUME TypeOK, TypeOK', StayInv, [Next]_vars PROVE StayInv'
  OBVIOUS
<1>1. CASE UNCHANGED vars \/ Onboarded \/ \E t \in Tickets : Vendor(t)
  BY <1>1, QuietStay DEF vars, Vendor, Onboarded, tables, Quiet
<1> QED BY <1>1, WritesStay, OthersStay, DecidedStay, CompleteStay, StoreStay
        DEF Next, Step, Begin

\* No recycler decides to complete a stay that was completed, whatever is killed, answered late,
\* called without a poll, committed late or moved in between: a completion moves the latest
\* status on, and with it what a later poll decides on.
THEOREM StayNotCompletedAgain == Spec => []StayCompletedOnce
<1>1. Init => StayInv
  BY DEF Init, StayInv, StayCompletedOnce, Completing, Idle
<1>2. StayInv => StayCompletedOnce
  BY DEF StayInv
<1> QED BY <1>1, <1>2, StayStep, TypeCorrect, PTL DEF Spec
=============================================================================
