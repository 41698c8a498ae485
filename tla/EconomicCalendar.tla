-------------------------- MODULE EconomicCalendar --------------------------
(***************************************************************************)
(* Economic events, the fundamental agent that looks for one that blocks,  *)
(* and the clients of the stream that are told.  A call's database         *)
(* statement and its emission are separate steps: other calls, and clients *)
(* that come and go, step in between.                                      *)
(***************************************************************************)
EXTENDS RealtimeStream, FiniteSets

CONSTANTS
  EventIds,       \* ids a row may get
  EventCalls,     \* calls of the service
  DtoRows,        \* events as users type them
  Queries,        \* currencies and moments that are evaluated
  WindowMinutes,
  OtherEvents,    \* events of other services
  MaxOthers,      \* bound: such emissions
  NoEvent

ASSUME CalendarAssumption ==
  /\ NoEvent \notin EventIds
  /\ {WindowMinutes, MaxOthers} \subseteq Nat
  /\ \A r \in DtoRows : r.impact \in {"LOW", "MEDIUM", "HIGH"} /\ r.time \in Nat

VARIABLES
  calendar,        \* the EconomicEvent rows, NoEvent where there is none
  eventCalls,      \* what a call is about to do
  written,         \* history: what was written or found, in that order
  since            \* history: how much of it there was when a client connected

calendarVars == <<streamVars, calendar, eventCalls, written, since>>

Idle == [step |-> "idle", event |-> "none", id |-> NoEvent, emits |-> <<>>]

\* Names are trimmed and written in capitals.
normalizeCurrency(spelled) == [spelled EXCEPT !.plain = TRUE]

Stored(dto) == [dto EXCEPT !.currency = normalizeCurrency(@)]

Calendars == [EventIds -> {Stored(r) : r \in DtoRows} \cup {NoEvent}]

CalendarTypeOK ==
  /\ StreamTypeOK
  /\ calendar \in Calendars
  /\ \A k \in EventCalls : eventCalls[k].step \in {"idle", "write", "emit", "done"}
  /\ \A c \in Clients : since[c] <= Len(written)

CalendarInit ==
  /\ StreamInit
  /\ calendar \in Calendars
  /\ eventCalls = [k \in EventCalls |-> Idle]
  /\ written = <<>>
  /\ since = [c \in Clients |-> 0]

-----------------------------------------------------------------------------
(* Calls                                                                   *)

\* The statement of call k succeeded: what it has to tell follows.
Wrote(k, emits) ==
  /\ eventCalls' = [eventCalls EXCEPT ![k] = [@ EXCEPT !.step = "emit", !.emits = emits]]
  /\ written' = written \o emits
  /\ UNCHANGED <<streamVars, since>>

Ends(k) == eventCalls' = [eventCalls EXCEPT ![k] = [Idle EXCEPT !.step = "done"]]

createEvent(k, id, dto) ==
  /\ eventCalls[k].step = "idle"
  /\ calendar[id] = NoEvent
  /\ ~\E n \in DOMAIN written : written[n].id = id      \* ids are used once
  /\ calendar' = [calendar EXCEPT ![id] = Stored(dto)]
  /\ Wrote(k, <<[event |-> "ECONOMIC_EVENT_CREATED", id |-> id]>>)

\* A row that is not there ends the call with an error and no change.
ensureExists(k, id, event) ==
  /\ eventCalls[k].step = "idle"
  /\ calendar[id] # NoEvent
  /\ eventCalls' = [eventCalls EXCEPT
       ![k] = [Idle EXCEPT !.step = "write", !.event = event, !.id = id]]
  /\ UNCHANGED <<streamVars, calendar, written, since>>

Writes(k, event) == eventCalls[k].step = "write" /\ eventCalls[k].event = event

\* The statement refuses a row that is gone by now.
RowGone(k) ==
  /\ eventCalls[k].step = "write"
  /\ calendar[eventCalls[k].id] = NoEvent
  /\ Ends(k)
  /\ UNCHANGED <<streamVars, calendar, written, since>>

\* Fields that are left out keep their value: the row may become any row.
updateEvent(k, dto) ==
  LET id == eventCalls[k].id IN
  /\ Writes(k, "ECONOMIC_EVENT_UPDATED")
  /\ calendar[id] # NoEvent
  /\ calendar' = [calendar EXCEPT ![id] = Stored(dto)]
  /\ Wrote(k, <<[event |-> "ECONOMIC_EVENT_UPDATED", id |-> id]>>)

deleteEvent(k) ==
  LET id == eventCalls[k].id IN
  /\ Writes(k, "ECONOMIC_EVENT_DELETED")
  /\ calendar[id] # NoEvent
  /\ calendar' = [calendar EXCEPT ![id] = NoEvent]
  /\ Wrote(k, <<[event |-> "ECONOMIC_EVENT_DELETED", id |-> id]>>)

\* The earliest events of high impact in the window around now, its ends included.
findBlockingEvent(currency, now) ==
  LET found == {id \in EventIds :
        /\ calendar[id] # NoEvent
        /\ calendar[id].currency = normalizeCurrency(currency)
        /\ calendar[id].impact = "HIGH"
        /\ now <= calendar[id].time + WindowMinutes
        /\ calendar[id].time <= now + WindowMinutes}
  IN  {id \in found : \A other \in found : calendar[id].time <= calendar[other].time}

evaluateFundamental(k, q) ==
  LET blocking == findBlockingEvent(q.currency, q.now)
      Evaluated(id) == [event |-> "FUNDAMENTAL_EVALUATED", id |-> id]
  IN
  /\ eventCalls[k].step = "idle"
  /\ \/ blocking = {} /\ Wrote(k, <<Evaluated(NoEvent)>>)
     \/ \E id \in blocking :
          Wrote(k, <<Evaluated(id), [event |-> "FUNDAMENTAL_BLOCK", id |-> id]>>)
  /\ UNCHANGED calendar

\* The event of a call, or its two, are emitted in one go.
emitEvents(k) ==
  LET emits == eventCalls[k].emits
      told == Delivered(received, emits[1].event, emits[1].id)
  IN
  /\ eventCalls[k].step = "emit"
  /\ received' = IF Len(emits) = 1 THEN told
                 ELSE Delivered(told, emits[2].event, emits[2].id)
  /\ Ends(k)
  /\ UNCHANGED <<listeners, calendar, written, since>>

Others == {n \in DOMAIN written : written[n].event \in OtherEvents}

\* Another service emits an event.
EmitElsewhere(e) ==
  /\ Cardinality(Others) < MaxOthers
  /\ received' = Delivered(received, e, NoEvent)
  /\ written' = Append(written, [event |-> e, id |-> NoEvent])
  /\ UNCHANGED <<listeners, calendar, eventCalls, since>>

Connect(c) ==
  /\ stream(c)
  /\ since' = [since EXCEPT ![c] = Len(written)]
  /\ UNCHANGED <<calendar, eventCalls, written>>

Disconnect(c) ==
  /\ unsubscribe(c)
  /\ since' = [since EXCEPT ![c] = 0]
  /\ UNCHANGED <<calendar, eventCalls, written>>

\* The process dies: calls end where they are, and every connection is lost.
ProcessDies ==
  /\ listeners' = {} /\ received' = NobodyConnected
  /\ eventCalls' = [k \in EventCalls |-> [Idle EXCEPT !.step = "done"]]
  /\ since' = [c \in Clients |-> 0]
  /\ UNCHANGED <<calendar, written>>

CalendarNext ==
  \/ \E k \in EventCalls :
       \/ \E id \in EventIds, dto \in DtoRows : createEvent(k, id, dto)
       \/ \E id \in EventIds : \/ ensureExists(k, id, "ECONOMIC_EVENT_UPDATED")
                               \/ ensureExists(k, id, "ECONOMIC_EVENT_DELETED")
       \/ \E dto \in DtoRows : updateEvent(k, dto)
       \/ deleteEvent(k) \/ RowGone(k) \/ emitEvents(k)
       \/ \E q \in Queries : evaluateFundamental(k, q)
  \/ \E e \in OtherEvents : EmitElsewhere(e)
  \/ \E c \in Clients : Connect(c) \/ Disconnect(c)
  \/ ProcessDies

CalendarSpec == CalendarInit /\ [][CalendarNext]_calendarVars

-----------------------------------------------------------------------------
(* Properties                                                              *)

Message(w) == [type |-> Forwards[w.event], id |-> w.id]

CountOf(x, s) == Cardinality({n \in DOMAIN s : s[n] = x})

\* The calls that wrote w and have still to emit it.
Waiting(w) ==
  {k \in EventCalls : \E n \in DOMAIN eventCalls[k].emits : eventCalls[k].emits[n] = w}

\* What a connected client has been told is what was written while it was there:
\* each write once, unless its call has still to emit it, and nothing twice.  What
\* other clients do makes no difference.  A write of before may be told late.
ClientsHear ==
  \A c \in {x \in Clients : Connected(x)} :
    \A w \in {written[n] : n \in DOMAIN written} :
      LET heard == CountOf(Message(w), received[c])
          total == CountOf(w, written)
          mine == Cardinality({n \in (since[c] + 1)..Len(written) : written[n] = w})
          waiting == Cardinality(Waiting(w))
      IN  w.event \in Forwarded => mine - waiting <= heard /\ heard <= total - waiting
=============================================================================
