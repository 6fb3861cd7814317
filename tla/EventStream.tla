---------------------------- MODULE EventStream ----------------------------
(***************************************************************************)
(* The events of a run on their way to the desktop.  All runs append to    *)
(* one table; the desktop opens a view of a run, buys a ticket, opens a    *)
(* socket for the run with the last id it has applied, and gets pages of   *)
(* later events; the socket may drop with a page half sent and messages on *)
(* the wire, the ticket may expire, and the user may go elsewhere.  A      *)
(* coordinator that restarts has a new port and a new session token, and   *)
(* no tickets: the desktop, when it has noticed, closes the view.          *)
(***************************************************************************)
EXTENDS Naturals, Sequences, SequencesExt

CONSTANTS
  Runs,        \* run ids
  Watched,     \* the run that the desktop opens
  Tickets,     \* random tickets
  PageSize,    \* events per query, 100 in the code
  MaxEvents,   \* bound: events of all runs
  MaxDrops     \* bound: drops of a socket, restarts of the coordinator,
               \* and views that the user closes

ASSUME WatchedAssumption == Watched \in Runs
ASSUME StreamAssumption  == PageSize \in Nat \ {0} /\ MaxEvents \in Nat /\ MaxDrops \in Nat

VARIABLES
  events,    \* the events table: the run of each event, by its id
  store,     \* the ticket store: the tickets that are neither used nor expired
  boundTo,   \* history: the run each ticket was issued for, or none yet
  opened,    \* history: the runs whose sockets a ticket has opened
  socket,    \* the ticket in hand, an open socket, or neither
  cursor,    \* the server's cursor
  page,      \* ids that were fetched and not sent
  wire,      \* ids that were sent and have not arrived
  viewing,   \* whether the desktop has a view of the run
  current,   \* whether it has the address and token of this coordinator
  applied,   \* the ids that it has applied in this view
  drops      \* drops, restarts and closings so far

ticketVars == <<store, boundTo, opened>>
viewVars   == <<viewing, current>>
streamVars == <<events, ticketVars, socket, cursor, page, wire, viewVars, applied, drops>>

NoTicket == "none"
Unissued == "unissued"

ASSUME TicketAssumption ==
  Tickets \cap {NoTicket, Unissued} = {} /\ Runs \cap {NoTicket, Unissued} = {}

Ids == 1..MaxEvents

Sockets == [open: BOOLEAN, ticket: Tickets \cup {NoTicket}]
Shut    == [open |-> FALSE, ticket |-> NoTicket]

(* The members of a set of numbers in their order.                         *)
InOrder(S) ==
  CHOOSE s \in [1..Cardinality(S) -> S] :
    ToSet(s) = S /\ \A i, j \in DOMAIN s : i < j => s[i] < s[j]

(* The ids of the run's events after a cursor, the first page of them.      *)
After(run, id) == InOrder({i \in 1..Len(events) : i > id /\ events[i] = run})
FirstOf(ids) == SubSeq(ids, 1, IF Len(ids) < PageSize THEN Len(ids) ELSE PageSize)

LastEventId == IF applied = <<>> THEN 0 ELSE Last(applied)

-----------------------------------------------------------------------------
StreamInit ==
  /\ events = <<>>
  /\ store = {}
  /\ boundTo = [t \in Tickets |-> Unissued]
  /\ opened = [t \in Tickets |-> <<>>]
  /\ socket = Shut
  /\ cursor = 0
  /\ page = <<>> /\ wire = <<>>
  /\ viewing = FALSE /\ current = TRUE /\ applied = <<>>
  /\ drops = 0

AppendEvent(run) ==
  /\ Len(events) < MaxEvents
  /\ events' = Append(events, run)
  /\ UNCHANGED <<ticketVars, socket, cursor, page, wire, viewVars, applied, drops>>

(* A view asks for a ticket whenever it has no socket: in vain as long as   *)
(* it asks a coordinator that is gone.                                     *)
Issue(t) ==
  /\ viewing /\ current
  /\ socket = Shut
  /\ boundTo[t] = Unissued
  /\ store' = store \cup {t}
  /\ boundTo' = [boundTo EXCEPT ![t] = Watched]
  /\ socket' = [open |-> FALSE, ticket |-> t]
  /\ UNCHANGED <<events, opened, cursor, page, wire, viewVars, applied, drops>>

Expire(t) ==
  /\ t \in store
  /\ store' = store \ {t}
  /\ UNCHANGED <<events, boundTo, opened, socket, cursor, page, wire, viewVars, applied, drops>>

(* Presenting a ticket uses it up, whatever it opens.  Its mutant leaves    *)
(* the ticket until it expires.                                            *)
PeekTicket(t, run) == store' = store
Consume(t, run) == store' = store \ {t}

Opens(t, run) == t \in store /\ boundTo[t] = run

Connect(t) ==
  /\ socket = [open |-> FALSE, ticket |-> t]
  /\ Consume(t, Watched)
  /\ IF Opens(t, Watched)
     THEN /\ opened' = [opened EXCEPT ![t] = Append(@, Watched)]
          /\ socket' = [open |-> TRUE, ticket |-> NoTicket]
          /\ cursor' = LastEventId
     ELSE socket' = Shut /\ UNCHANGED <<opened, cursor>>
  /\ UNCHANGED <<events, boundTo, page, wire, viewVars, applied, drops>>

(* A ticket that was presented before, or that is for another run, is       *)
(* presented by another caller.                                            *)
Present(t, run) ==
  /\ boundTo[t] # Unissued
  /\ socket.ticket # t
  /\ Consume(t, run)
  /\ opened' = IF Opens(t, run) THEN [opened EXCEPT ![t] = Append(@, run)] ELSE opened
  /\ UNCHANGED <<events, boundTo, socket, cursor, page, wire, viewVars, applied, drops>>

(* A query, once the page before has been sent.                            *)
FetchPage ==
  /\ socket.open
  /\ page = <<>>
  /\ After(Watched, cursor) # <<>>
  /\ page' = FirstOf(After(Watched, cursor))
  /\ UNCHANGED <<events, ticketVars, socket, cursor, wire, viewVars, applied, drops>>

(* Mutant: the cursor goes to the newest event.                            *)
ToNewest(id) == cursor' = Len(events)
Advance(id) == cursor' = id

SendEvent ==
  /\ socket.open
  /\ page # <<>>
  /\ wire' = Append(wire, Head(page))
  /\ Advance(Head(page))
  /\ page' = Tail(page)
  /\ UNCHANGED <<events, ticketVars, socket, viewVars, applied, drops>>

(* applyRunEvent: an event that is not newer than the last is ignored; the  *)
(* mutant takes the next id only, which may be another run's.              *)
Adjacent(id) == id = LastEventId + 1
Newer(id) == id > LastEventId

Receive ==
  /\ wire # <<>>
  /\ applied' = IF Newer(Head(wire)) THEN Append(applied, Head(wire)) ELSE applied
  /\ wire' = Tail(wire)
  /\ UNCHANGED <<events, ticketVars, socket, cursor, page, viewVars, drops>>

(* What was on the wire may have arrived or not.                           *)
Drop ==
  /\ socket.open
  /\ drops < MaxDrops
  /\ socket' = Shut
  /\ page' = <<>> /\ wire' = <<>>
  /\ drops' = drops + 1
  /\ UNCHANGED <<events, ticketVars, cursor, viewVars, applied>>

(* The desktop loads the run into its store: with its project, as the       *)
(* latest one that has not ended, from the history, or when it starts it.  *)
OpenRun ==
  /\ ~viewing
  /\ viewing' = TRUE
  /\ UNCHANGED <<events, ticketVars, socket, cursor, page, wire, current, applied, drops>>

(* The effect behind the view is disposed of, with its socket and whatever  *)
(* was under way to it; one that is opened later starts from no event.     *)
CloseView ==
  /\ viewing' = FALSE
  /\ socket' = Shut
  /\ page' = <<>> /\ wire' = <<>> /\ applied' = <<>>

(* The user opens another run or another project.                          *)
CloseRun ==
  /\ viewing
  /\ drops < MaxDrops
  /\ CloseView
  /\ drops' = drops + 1
  /\ UNCHANGED <<events, ticketVars, cursor, current>>

(* Another process, with another port and token and no tickets.  A view     *)
(* stays, without its socket: the desktop does not know yet.               *)
RestartServer ==
  /\ drops < MaxDrops
  /\ store' = {}
  /\ current' = FALSE
  /\ socket' = IF socket.open THEN Shut ELSE socket
  /\ page' = <<>> /\ wire' = <<>>
  /\ drops' = drops + 1
  /\ UNCHANGED <<events, boundTo, opened, cursor, viewing, applied>>

(* Every two seconds the desktop asks its supervisor for the coordinator's  *)
(* address and token: with new ones it begins anew, without project or run. *)
SyncRuntime ==
  /\ ~current
  /\ current' = TRUE
  /\ CloseView
  /\ UNCHANGED <<events, ticketVars, cursor, drops>>

Reconnecting == \E t \in Tickets : Issue(t) \/ Connect(t)
Streaming    == FetchPage \/ SendEvent \/ Receive

StreamStep ==
  \/ \E run \in Runs : AppendEvent(run)
  \/ Reconnecting \/ Streaming
  \/ \E t \in Tickets : Expire(t) \/ \E run \in Runs : Present(t, run)
  \/ OpenRun \/ CloseRun
  \/ Drop \/ RestartServer \/ SyncRuntime

StreamTypeOK ==
  /\ events \in Seq(Runs) /\ Len(events) <= MaxEvents
  /\ store \subseteq Tickets
  /\ boundTo \in [Tickets -> Runs \cup {Unissued}]
  /\ \A t \in Tickets : ToSet(opened[t]) \subseteq Runs
  /\ socket \in Sockets
  /\ cursor \in {0} \cup Ids
  /\ ToSet(page) \cup ToSet(wire) \cup ToSet(applied) \subseteq Ids
  /\ viewing \in BOOLEAN /\ current \in BOOLEAN
  /\ drops \in 0..MaxDrops

-----------------------------------------------------------------------------
(* Within one view of its run the desktop applies the events of the run,    *)
(* each once and in order, from the first on, across pages, sockets and    *)
(* tickets; nothing but a view that was closed, by the user or because the *)
(* coordinator is another one, makes it start over: the stream implements  *)
(* EventLog.                                                               *)
Log == INSTANCE EventLog WITH
         Event <- Ids, happened <- After(Watched, 0), viewing <- viewing, seen <- applied
StreamImplements == Log!EventLogSpec

(* Time and again the desktop has applied every event of the run it shows,  *)
(* or shows it no longer, unless it has lost its socket and all tickets of *)
(* the instance are spent; no view waits for ever for a coordinator that   *)
(* is gone.                                                                *)
ClientCatchesUp ==
  []<>(\/ ~viewing
       \/ applied = After(Watched, 0)
       \/ current /\ socket = Shut /\ \A t \in Tickets : boundTo[t] # Unissued)

(* A ticket opens one socket at most, of the run it was issued for.        *)
TicketOpensOnce ==
  \A t \in Tickets : Len(opened[t]) <= 1 /\ ToSet(opened[t]) \subseteq {boundTo[t]}
=============================================================================
