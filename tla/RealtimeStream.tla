--------------------------- MODULE RealtimeStream ---------------------------
(***************************************************************************)
(* The server-sent events of the dashboard: every connected client has a   *)
(* listener of its own for each forwarded event of the internal bus, and   *)
(* gets one message per event.                                             *)
(***************************************************************************)
EXTENDS Naturals, Sequences

CONSTANT Clients

VARIABLES
  listeners,      \* of each forwarded event: a client's are added, and removed, together
  received        \* the messages of a client, <<>> when it is not connected

streamVars == <<listeners, received>>

\* The events of the bus that are forwarded.
SystemEvents ==
  {"SIGNAL_CREATED", "JOB_COMPLETED", "JOB_FAILED", "SIGNAL_STATUS_UPDATED",
   "SUPERVISOR_DECIDED", "PAPER_TRADE_OPENED", "PAPER_TRADE_CLOSED",
   "KILL_SWITCH_CHANGED", "SYSTEM_LOG_CREATED"}

CalendarEvents ==
  {"ECONOMIC_EVENT_CREATED", "ECONOMIC_EVENT_UPDATED", "ECONOMIC_EVENT_DELETED",
   "FUNDAMENTAL_EVALUATED", "FUNDAMENTAL_BLOCK"}

AssistedEvents ==
  {"ASSISTED_APPROVAL_REQUIRED", "ASSISTED_SIGNAL_APPROVED", "ASSISTED_SIGNAL_REJECTED",
   "ASSISTED_EXECUTION_STARTED", "ASSISTED_EXECUTION_COMPLETED",
   "ASSISTED_EXECUTION_FAILED"}

LiveEvents ==
  {"LIVE_EXECUTION_REQUESTED", "LIVE_EXECUTION_BLOCKED", "LIVE_EXECUTION_SUCCESS",
   "LIVE_EXECUTION_FAILED", "LIVE_TRADE_OPENED"}

Forwarded == SystemEvents \cup CalendarEvents \cup AssistedEvents \cup LiveEvents

\* The message an event is sent as: most keep their name.
Forwards == [e \in Forwarded |->
  CASE e = "SIGNAL_STATUS_UPDATED" -> "SIGNAL_UPDATED"
    [] e = "SUPERVISOR_DECIDED" -> "SUPERVISOR_DECISION"
    [] e = "PAPER_TRADE_OPENED" -> "TRADE_OPENED"
    [] e = "PAPER_TRADE_CLOSED" -> "TRADE_CLOSED"
    [] e = "KILL_SWITCH_CHANGED" -> "KILL_SWITCH_UPDATED"
    [] e = "SYSTEM_LOG_CREATED" -> "SYSTEM_LOG"
    [] OTHER -> e]

Heartbeat == [type |-> "HEARTBEAT", id |-> "none"]

StreamTypeOK ==
  /\ listeners \subseteq Clients
  /\ \A c \in Clients : \A k \in DOMAIN received[c] :
       received[c][k].type \in {Forwards[e] : e \in Forwarded} \cup {"HEARTBEAT"}

NobodyConnected == [c \in Clients |-> <<>>]

StreamInit == listeners = {} /\ received = NobodyConnected

Connected(c) == received[c] # <<>>

\* The emission of e about id calls the listeners e has, one after the other
\* and with nothing in between.
Delivered(old, e, id) ==
  [c \in Clients |->
     IF e \in Forwarded /\ c \in listeners
     THEN Append(old[c], [type |-> Forwards[e], id |-> id]) ELSE old[c]]

\* The first message is a heartbeat; later ones say nothing and are left out.
stream(c) ==
  /\ ~Connected(c)
  /\ listeners' = listeners \cup {c}
  /\ received' = [received EXCEPT ![c] = <<Heartbeat>>]

\* Variant: everyone's listeners are removed.
RemoveAll(c) ==
  /\ Connected(c)
  /\ listeners' = {}
  /\ received' = [received EXCEPT ![c] = <<>>]

\* The client goes: its own listeners are removed.
unsubscribe(c) ==
  /\ Connected(c)
  /\ listeners' = listeners \ {c}
  /\ received' = [received EXCEPT ![c] = <<>>]
=============================================================================
