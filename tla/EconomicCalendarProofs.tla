----------------------- MODULE EconomicCalendarProofs -----------------------
(***************************************************************************)
(* Every connected client of the stream hears of every change of the       *)
(* calendar and every evaluation once, for any number of clients, calls    *)
(* and events.                                                             *)
(*                                                                         *)
(* The argument counts.  For an event w, a client has heard of it, calls   *)
(* are waiting to emit it, and it was written a number of times: before    *)
(* the client came, and since.  A write adds one to what was written and   *)
(* one to what waits; an emission takes one from what waits and gives one  *)
(* to what each client heard, because no two events are sent as the same   *)
(* message and no call emits an event twice.                               *)
(***************************************************************************)
EXTENDS EconomicCalendar, FiniteSetTheorems, SequenceTheorems, TLAPS

\* What is written of: the event of a call or of another service, and its row.
Entries == [event : CalendarEvents \cup OtherEvents, id : EventIds \cup {NoEvent}]

\* What a call may have to emit.
Emissions ==
  {s \in Seq(Entries) :
     /\ Len(s) \in {1, 2}
     /\ \A n \in DOMAIN s : s[n].event \in CalendarEvents
     /\ Len(s) = 2 => s[1] # s[2]}

Sendable == [type : {Forwards[e] : e \in Forwarded} \cup {"HEARTBEAT"},
             id : EventIds \cup {NoEvent, "none"}]

CallStates ==
  [step : {"idle", "write", "emit", "done"},
   event : {"none", "ECONOMIC_EVENT_UPDATED", "ECONOMIC_EVENT_DELETED"},
   id : EventIds \cup {NoEvent}, emits : Emissions \cup {<<>>}]

Typed ==
  /\ listeners \subseteq Clients
  /\ received \in [Clients -> Seq(Sendable)]
  /\ \A c \in Clients : c \in listeners <=> Connected(c)
  /\ calendar \in Calendars
  /\ eventCalls \in [EventCalls -> CallStates]
  /\ \A k \in EventCalls :
       /\ eventCalls[k].step = "emit" <=> eventCalls[k].emits # <<>>
       /\ eventCalls[k].step = "write" => eventCalls[k].id \in EventIds
  /\ written \in Seq(Entries)
  /\ since \in [Clients -> Nat]
  /\ \A c \in Clients : since[c] <= Len(written)

-----------------------------------------------------------------------------
(* Counting in sequences.                                                  *)

\* How often w is in s after the first lo places, and whether it is in s at all.
From(lo, w, s) == Cardinality({n \in (lo + 1)..Len(s) : s[n] = w})
Among(w, s) == IF \E n \in DOMAIN s : s[n] = w THEN 1 ELSE 0

LEMMA FromFinite ==
  ASSUME NEW S, NEW s \in Seq(S), NEW lo \in Nat, NEW w
  PROVE  IsFiniteSet({n \in (lo + 1)..Len(s) : s[n] = w})
<1>1. Len(s) \in Nat
  BY LenProperties
<1>2. IsFiniteSet((lo + 1)..Len(s))
  BY <1>1, FS_Interval
<1> QED
  BY <1>2, FS_Subset

LEMMA FromType ==
  ASSUME NEW S, NEW s \in Seq(S), NEW lo \in Nat, NEW w
  PROVE  From(lo, w, s) \in Nat
<1>1. IsFiniteSet({n \in (lo + 1)..Len(s) : s[n] = w})
  BY FromFinite
<1> QED
  BY <1>1, FS_CardinalityType DEF From

LEMMA CountFrom ==
  ASSUME NEW S, NEW s \in Seq(S), NEW w
  PROVE  CountOf(w, s) = From(0, w, s)
<1>1. DOMAIN s = 1..Len(s)
  BY LenProperties
<1> QED
  BY <1>1 DEF CountOf, From

LEMMA AppendCount ==
  ASSUME NEW S, NEW s \in Seq(S), NEW x \in S, NEW w, NEW lo \in 0..Len(s)
  PROVE  From(lo, w, Append(s, x)) = From(lo, w, s) + (IF x = w THEN 1 ELSE 0)
<1> DEFINE long == Append(s, x)
           before == {n \in (lo + 1)..Len(s) : s[n] = w}
           after == {n \in (lo + 1)..Len(long) : long[n] = w}
<1>1. /\ Len(s) \in Nat /\ lo \in Nat /\ Len(long) = Len(s) + 1
      /\ \A n \in 1..Len(s) : long[n] = s[n]
      /\ long[Len(s) + 1] = x
  BY LenProperties, AppendProperties
<1>2. IsFiniteSet(before) /\ Cardinality(before) \in Nat
  <2>1. IsFiniteSet(before)
    BY <1>1, FromFinite
  <2> QED
    BY <2>1, FS_CardinalityType
<1>3. From(lo, w, s) = Cardinality(before) /\ From(lo, w, long) = Cardinality(after)
  BY DEF From
<1> HIDE DEF long
<1>4. Len(s) + 1 \notin before
  BY <1>1
<1>5. CASE x = w
  <2>1. after = before \cup {Len(s) + 1}
    BY <1>1, <1>5
  <2>2. Cardinality(after) = Cardinality(before) + 1
    BY <1>2, <1>4, <2>1, FS_AddElement
  <2> QED
    BY <1>3, <1>5, <2>2 DEF long
<1>6. CASE x # w
  <2>1. after = before
    BY <1>1, <1>6
  <2>2. Cardinality(after) = Cardinality(before)
    BY <2>1
  <2> HIDE DEF before, after
  <2> QED
    BY <1>2, <1>3, <1>6, <2>2 DEF long
<1> QED
  BY <1>5, <1>6

\* A call emits one event or two.
LEMMA EmissionShape ==
  ASSUME NEW e \in Emissions
  PROVE  /\ e \in Seq(Entries)
         /\ \/ Len(e) = 1 /\ DOMAIN e = {1} /\ e[1] \in Entries
            \/ /\ Len(e) = 2 /\ DOMAIN e = {1, 2} /\ e[1] # e[2]
               /\ e[1] \in Entries /\ e[2] \in Entries
<1>1. e \in Seq(Entries) /\ Len(e) \in {1, 2} /\ (Len(e) = 2 => e[1] # e[2])
  BY DEF Emissions
<1>2. DOMAIN e = 1..Len(e) /\ \A n \in 1..Len(e) : e[n] \in Entries
  BY <1>1, LenProperties, ElementOfSeq
<1> QED
  BY <1>1, <1>2

\* A call adds what it emits, once.
LEMMA EmissionCount ==
  ASSUME NEW s \in Seq(Entries), NEW e \in Emissions, NEW w, NEW lo \in 0..Len(s)
  PROVE  /\ s \o e \in Seq(Entries) /\ Len(s) <= Len(s \o e)
         /\ From(lo, w, s \o e) = From(lo, w, s) + Among(w, e)
<1>1. /\ s \o e \in Seq(Entries) /\ Len(s \o e) = Len(s) + Len(e)
      /\ \A n \in 1..Len(s) + Len(e) :
           (s \o e)[n] = IF n <= Len(s) THEN s[n] ELSE e[n - Len(s)]
  BY EmissionShape, ConcatProperties
<1>2. Len(s) \in Nat /\ lo \in Nat /\ From(lo, w, s) \in Nat
  <2>1. Len(s) \in Nat
    BY LenProperties
  <2> QED
    BY <2>1, FromType
<1>3. CASE Len(e) = 1 /\ DOMAIN e = {1} /\ e[1] \in Entries
  <2>1. /\ Append(s, e[1]) \in Seq(Entries) /\ Len(Append(s, e[1])) = Len(s) + 1
        /\ \A n \in 1..Len(s) : Append(s, e[1])[n] = s[n]
        /\ Append(s, e[1])[Len(s) + 1] = e[1]
    BY <1>3, AppendProperties
  <2>2. s \o e = Append(s, e[1])
    BY <1>1, <1>2, <1>3, <2>1, SeqEqual
  <2> QED
    BY <1>1, <1>2, <1>3, <2>2, AppendCount DEF Among
<1>4. CASE Len(e) = 2 /\ DOMAIN e = {1, 2} /\ e[1] # e[2] /\ e[1] \in Entries /\ e[2] \in Entries
  <2> DEFINE one == Append(s, e[1])
             two == Append(one, e[2])
  <2>1. /\ one \in Seq(Entries) /\ Len(one) = Len(s) + 1
        /\ \A n \in 1..Len(s) : one[n] = s[n]
        /\ one[Len(s) + 1] = e[1]
    BY <1>4, AppendProperties
  <2>2. /\ two \in Seq(Entries) /\ Len(two) = Len(one) + 1
        /\ \A n \in 1..Len(one) : two[n] = one[n]
        /\ two[Len(one) + 1] = e[2]
    BY <1>4, <2>1, AppendProperties
  <2>3. From(lo, w, one) = From(lo, w, s) + (IF e[1] = w THEN 1 ELSE 0)
    BY <1>4, AppendCount
  <2>4. From(lo, w, two) = From(lo, w, one) + (IF e[2] = w THEN 1 ELSE 0)
    <3>1. lo \in 0..Len(one)
      BY <1>2, <2>1
    <3> HIDE DEF one
    <3> QED
      BY <1>4, <2>1, <3>1, AppendCount
  <2> HIDE DEF one, two
  <2>5. s \o e = two
    <3>1. \A n \in 1..Len(s \o e) : (s \o e)[n] = two[n]
      BY <1>1, <1>2, <1>4, <2>1, <2>2
    <3>2. Len(s \o e) = Len(two)
      BY <1>1, <1>2, <1>4, <2>1, <2>2
    <3> QED
      BY <1>1, <2>2, <3>1, <3>2, SeqEqual
  <2>6. Among(w, e) = (IF e[1] = w THEN 1 ELSE 0) + (IF e[2] = w THEN 1 ELSE 0)
    BY <1>4 DEF Among
  <2> QED
    BY <1>1, <1>2, <1>4, <2>3, <2>4, <2>5, <2>6
<1> QED
  BY <1>3, <1>4, EmissionShape

-----------------------------------------------------------------------------
(* Messages.                                                               *)

\* No two events are sent as the same message.
LEMMA ForwardsInjective ==
  ASSUME NEW e \in Forwarded, NEW f \in Forwarded, Forwards[e] = Forwards[f]
  PROVE  e = f
BY DEF Forwards, Forwarded, SystemEvents, CalendarEvents, AssistedEvents, LiveEvents

LEMMA NoneIsHeartbeat ==
  ASSUME NEW e \in Forwarded
  PROVE  Forwards[e] # "HEARTBEAT"
BY DEF Forwards, Forwarded, SystemEvents, CalendarEvents, AssistedEvents, LiveEvents

\* The entries that clients hear of.
Told == {w \in Entries : w.event \in Forwarded}

LEMMA MessageInjective ==
  ASSUME NEW v \in Told, NEW w \in Told, Message(v) = Message(w)
  PROVE  v = w
<1>1. v.event = w.event /\ v.id = w.id
  BY ForwardsInjective DEF Told, Message
<1> QED
  BY <1>1 DEF Told, Entries

LEMMA MessageType ==
  ASSUME NEW w \in Told
  PROVE  Message(w) \in Sendable /\ Message(w) # Heartbeat
BY NoneIsHeartbeat DEF Told, Message, Sendable, Entries, Heartbeat

LEMMA HeartbeatType == Heartbeat \in Sendable
BY DEF Heartbeat, Sendable

LEMMA EmissionTold ==
  ASSUME NEW e \in Emissions
  PROVE  \A n \in DOMAIN e : e[n] \in Told
BY EmissionShape DEF Told, Forwarded, Emissions

-----------------------------------------------------------------------------
(* Types.                                                                  *)

LEMMA CallTypes ==
  /\ Idle \in CallStates /\ [Idle EXCEPT !.step = "done"] \in CallStates
  /\ Idle.emits = <<>> /\ [Idle EXCEPT !.step = "done"].emits = <<>>
  /\ [Idle EXCEPT !.step = "done"].step = "done" /\ Idle.step = "idle"
BY DEF Idle, CallStates

LEMMA EmissionTypes ==
  /\ \A x \in Entries : x.event \in CalendarEvents => <<x>> \in Emissions
  /\ \A x, y \in Entries :
       x.event \in CalendarEvents /\ y.event \in CalendarEvents /\ x # y => <<x, y>> \in Emissions
  /\ <<>> \notin Emissions
BY DEF Emissions

\* What the writing steps of a call do to it.
LEMMA WroteType ==
  ASSUME Typed, NEW k \in EventCalls, NEW e \in Emissions, Wrote(k, e), calendar' \in Calendars
  PROVE  Typed'
<1>1. /\ eventCalls' = [eventCalls EXCEPT ![k] = [@ EXCEPT !.step = "emit", !.emits = e]]
      /\ written' = written \o e
      /\ UNCHANGED <<listeners, received, since>>
  BY DEF Wrote, streamVars
<1>2. written' \in Seq(Entries) /\ Len(written') = Len(written) + Len(e) /\ Len(e) \in Nat
      /\ Len(written) \in Nat
  BY <1>1, EmissionShape, ConcatProperties, LenProperties DEF Typed
<1>3. /\ eventCalls' \in [EventCalls -> CallStates]
      /\ \A j \in EventCalls :
           /\ eventCalls'[j].step = "emit" <=> eventCalls'[j].emits # <<>>
           /\ eventCalls'[j].step = "write" => eventCalls'[j].id \in EventIds
  BY <1>1, EmissionTypes DEF Typed, CallStates
<1> QED
  BY <1>1, <1>2, <1>3 DEF Typed, Connected

LEMMA EndsType ==
  ASSUME Typed, NEW k \in EventCalls, Ends(k)
  PROVE  /\ eventCalls' \in [EventCalls -> CallStates]
         /\ \A j \in EventCalls :
              /\ eventCalls'[j].step = "emit" <=> eventCalls'[j].emits # <<>>
              /\ eventCalls'[j].step = "write" => eventCalls'[j].id \in EventIds
BY CallTypes DEF Typed, Ends

\* An emission of an event that clients hear of, and of one they do not.
LEMMA DeliveredType ==
  ASSUME Typed, NEW old \in [Clients -> Seq(Sendable)], NEW w \in Entries,
         \A c \in Clients : c \in listeners <=> old[c] # <<>>,
         NEW new, new = Delivered(old, w.event, w.id)
  PROVE  /\ new \in [Clients -> Seq(Sendable)]
         /\ \A c \in Clients : c \in listeners <=> new[c] # <<>>
         /\ \A c \in listeners : w \in Told => new[c] = Append(old[c], Message(w))
         /\ w \notin Told => new = old
<1>1. CASE w \in Told
  <2>1. Message(w) \in Sendable /\ w.event \in Forwarded
    BY <1>1, MessageType DEF Told
  <2>2. ASSUME NEW c \in Clients
        PROVE  /\ old[c] \in Seq(Sendable)
               /\ Append(old[c], Message(w)) \in Seq(Sendable)
               /\ Append(old[c], Message(w)) # <<>>
    <3>1. old[c] \in Seq(Sendable)
      OBVIOUS
    <3> HIDE DEF Message
    <3> QED
      BY <2>1, <3>1, AppendProperties
  <2>3. new = [c \in Clients |-> IF c \in listeners THEN Append(old[c], Message(w)) ELSE old[c]]
    BY <2>1 DEF Delivered, Message
  <2>4. listeners \subseteq Clients
    BY DEF Typed
  <2>5. \A c \in Clients :
          new[c] = IF c \in listeners THEN Append(old[c], Message(w)) ELSE old[c]
    BY <2>3
  <2>6. new \in [Clients -> Seq(Sendable)]
    BY <2>2, <2>3
  <2> QED
    BY <1>1, <2>2, <2>4, <2>5, <2>6
<1>2. CASE w \notin Told
  <2>1. new = [c \in Clients |-> old[c]]
    BY <1>2 DEF Delivered, Told
  <2> QED
    BY <1>2, <2>1
<1> QED
  BY <1>1, <1>2

\* The steps of a call that write, as one.
Writing(k) ==
  \/ \E id \in EventIds, dto \in DtoRows : createEvent(k, id, dto)
  \/ \E dto \in DtoRows : updateEvent(k, dto)
  \/ deleteEvent(k)
  \/ \E q \in Queries : evaluateFundamental(k, q)

LEMMA WritingWrote ==
  ASSUME Typed, NEW k \in EventCalls, Writing(k)
  PROVE  /\ calendar' \in Calendars /\ eventCalls[k].emits = <<>>
         /\ \E e \in Emissions : Wrote(k, e)
<1> USE DEF Typed, Calendars
<1>1. \A name \in CalendarEvents, id \in EventIds \cup {NoEvent} :
        <<[event |-> name, id |-> id]>> \in Emissions
  BY EmissionTypes DEF Entries
<1>2. /\ "ECONOMIC_EVENT_CREATED" \in CalendarEvents /\ "ECONOMIC_EVENT_UPDATED" \in CalendarEvents
      /\ "ECONOMIC_EVENT_DELETED" \in CalendarEvents /\ "FUNDAMENTAL_EVALUATED" \in CalendarEvents
      /\ "FUNDAMENTAL_BLOCK" \in CalendarEvents
  BY DEF CalendarEvents
<1>3. ASSUME NEW id \in EventIds, NEW dto \in DtoRows, createEvent(k, id, dto)
      PROVE  /\ calendar' \in Calendars /\ eventCalls[k].emits = <<>>
             /\ \E e \in Emissions : Wrote(k, e)
  BY <1>1, <1>2, <1>3 DEF createEvent
<1>4. ASSUME NEW dto \in DtoRows, updateEvent(k, dto)
      PROVE  /\ calendar' \in Calendars /\ eventCalls[k].emits = <<>>
             /\ \E e \in Emissions : Wrote(k, e)
  <2>1. eventCalls[k].id \in EventIds
    BY <1>4 DEF updateEvent, Writes
  <2> QED
    BY <1>1, <1>2, <1>4, <2>1 DEF updateEvent, Writes
<1>5. CASE deleteEvent(k)
  <2>1. eventCalls[k].id \in EventIds
    BY <1>5 DEF deleteEvent, Writes
  <2> QED
    BY <1>1, <1>2, <1>5, <2>1 DEF deleteEvent, Writes
<1>6. ASSUME NEW q \in Queries, evaluateFundamental(k, q)
      PROVE  /\ calendar' \in Calendars /\ eventCalls[k].emits = <<>>
             /\ \E e \in Emissions : Wrote(k, e)
  <2>1. eventCalls[k].emits = <<>> /\ calendar' = calendar
    BY <1>6 DEF evaluateFundamental
  <2>2. \A id \in EventIds :
          <<[event |-> "FUNDAMENTAL_EVALUATED", id |-> id],
            [event |-> "FUNDAMENTAL_BLOCK", id |-> id]>> \in Emissions
    BY <1>2, EmissionTypes DEF Entries
  <2>3. \A id : id \in findBlockingEvent(q.currency, q.now) => id \in EventIds
    BY DEF findBlockingEvent
  <2> QED
    BY <1>1, <1>2, <1>6, <2>1, <2>2, <2>3 DEF evaluateFundamental
<1> QED
  BY <1>3, <1>4, <1>5, <1>6 DEF Writing

\* What a listener hears of one emission.
LEMMA HeardOne ==
  ASSUME NEW s \in Seq(Sendable), NEW v \in Told, NEW w \in Told
  PROVE  /\ Append(s, Message(v)) \in Seq(Sendable)
         /\ CountOf(Message(w), s) \in Nat
         /\ CountOf(Message(w), Append(s, Message(v)))
              = CountOf(Message(w), s) + (IF v = w THEN 1 ELSE 0)
<1>1. Message(v) \in Sendable /\ (Message(v) = Message(w) <=> v = w)
  BY MessageType, MessageInjective
<1> HIDE DEF Message
<1>2. Append(s, Message(v)) \in Seq(Sendable) /\ 0 \in 0..Len(s)
  BY <1>1, AppendProperties, LenProperties
<1>3. From(0, Message(w), Append(s, Message(v)))
        = From(0, Message(w), s) + (IF Message(v) = Message(w) THEN 1 ELSE 0)
  BY <1>1, <1>2, AppendCount
<1>4. /\ CountOf(Message(w), s) = From(0, Message(w), s)
      /\ CountOf(Message(w), Append(s, Message(v))) = From(0, Message(w), Append(s, Message(v)))
  BY <1>2, CountFrom
<1>5. From(0, Message(w), s) \in Nat
  BY FromType
<1> QED
  BY <1>1, <1>2, <1>3, <1>4, <1>5

\* An emitting call tells every connected client each of its events once.
LEMMA EmitDelivers ==
  ASSUME Typed, NEW k \in EventCalls, emitEvents(k)
  PROVE  /\ eventCalls[k].emits \in Emissions
         /\ received' \in [Clients -> Seq(Sendable)]
         /\ \A c \in Clients : c \in listeners <=> received'[c] # <<>>
         /\ \A c \in listeners, w \in Told :
              CountOf(Message(w), received'[c])
                = CountOf(Message(w), received[c]) + Among(w, eventCalls[k].emits)
<1> DEFINE e == eventCalls[k].emits
           told == Delivered(received, e[1].event, e[1].id)
           both == Delivered(told, e[2].event, e[2].id)
<1>1. e \in Emissions
  BY DEF Typed, CallStates, emitEvents
<1>2. /\ received \in [Clients -> Seq(Sendable)] /\ listeners \subseteq Clients
      /\ \A c \in Clients : c \in listeners <=> received[c] # <<>>
  BY DEF Typed, Connected
<1>3. received' = IF Len(e) = 1 THEN told ELSE both
  BY DEF emitEvents
<1> HIDE DEF e
<1>4. e[1] \in Told /\ e[1] \in Entries
  BY <1>1, EmissionShape, EmissionTold DEF Told
<1>5. /\ told \in [Clients -> Seq(Sendable)]
      /\ \A c \in Clients : c \in listeners <=> told[c] # <<>>
      /\ \A c \in listeners : told[c] = Append(received[c], Message(e[1]))
  BY <1>2, <1>4, DeliveredType
<1> HIDE DEF told
<1>6. ASSUME NEW c \in listeners, NEW w \in Told
      PROVE  CountOf(Message(w), told[c])
               = CountOf(Message(w), received[c]) + (IF e[1] = w THEN 1 ELSE 0)
  <2>1. received[c] \in Seq(Sendable)
    BY <1>2
  <2>2. CountOf(Message(w), Append(received[c], Message(e[1])))
          = CountOf(Message(w), received[c]) + (IF e[1] = w THEN 1 ELSE 0)
    BY <1>4, <2>1, HeardOne
  <2>3. told[c] = Append(received[c], Message(e[1]))
    BY <1>5
  <2> QED
    BY <2>2, <2>3
<1>7. CASE Len(e) = 1
  <2>1. \A w \in Told : Among(w, e) = IF e[1] = w THEN 1 ELSE 0
    BY <1>1, <1>7, EmissionShape DEF Among
  <2>2. received' = told
    BY <1>3, <1>7
  <2> QED
    BY <1>1, <1>5, <1>6, <2>1, <2>2 DEF e
<1>8. CASE Len(e) # 1
  <2>1. e[2] \in Told /\ e[2] \in Entries /\ e[1] # e[2] /\ DOMAIN e = {1, 2}
    BY <1>1, <1>8, EmissionShape, EmissionTold DEF Told
  <2>2. /\ both \in [Clients -> Seq(Sendable)]
        /\ \A c \in Clients : c \in listeners <=> both[c] # <<>>
        /\ \A c \in listeners : both[c] = Append(told[c], Message(e[2]))
    BY <1>5, <2>1, DeliveredType
  <2>3. ASSUME NEW c \in listeners, NEW w \in Told
        PROVE  CountOf(Message(w), both[c])
                 = CountOf(Message(w), received[c]) + Among(w, e)
    <3> HIDE DEF both
    <3>1. told[c] \in Seq(Sendable) /\ received[c] \in Seq(Sendable)
      BY <1>2, <1>5
    <3>2. CountOf(Message(w), both[c])
            = CountOf(Message(w), told[c]) + (IF e[2] = w THEN 1 ELSE 0)
      <4>1. CountOf(Message(w), Append(told[c], Message(e[2])))
              = CountOf(Message(w), told[c]) + (IF e[2] = w THEN 1 ELSE 0)
        BY <2>1, <3>1, HeardOne
      <4>2. both[c] = Append(told[c], Message(e[2]))
        BY <2>2
      <4> QED
        BY <4>1, <4>2
    <3>3. CountOf(Message(w), received[c]) \in Nat
      BY <3>1, HeardOne
    <3>4. Among(w, e) = (IF e[1] = w THEN 1 ELSE 0) + (IF e[2] = w THEN 1 ELSE 0)
      BY <2>1 DEF Among
    <3> QED
      BY <1>6, <3>2, <3>3, <3>4
  <2>4. received' = both
    BY <1>3, <1>8
  <2> HIDE DEF both
  <2> QED
    BY <1>1, <2>2, <2>3, <2>4 DEF e
<1> QED
  BY <1>7, <1>8

LEMMA TypedStep == Typed /\ [CalendarNext]_calendarVars => Typed'
<1> SUFFICES ASSUME Typed, [CalendarNext]_calendarVars PROVE Typed'
  OBVIOUS
<1> USE DEF streamVars
<1>1. ASSUME NEW k \in EventCalls, Writing(k) PROVE Typed'
  BY <1>1, WritingWrote, WroteType
<1>2. ASSUME NEW k \in EventCalls, NEW id \in EventIds,
             NEW event \in {"ECONOMIC_EVENT_UPDATED", "ECONOMIC_EVENT_DELETED"},
             ensureExists(k, id, event)
      PROVE  Typed'
  <2>1. /\ eventCalls' \in [EventCalls -> CallStates]
        /\ \A j \in EventCalls :
             /\ eventCalls'[j].step = "emit" <=> eventCalls'[j].emits # <<>>
             /\ eventCalls'[j].step = "write" => eventCalls'[j].id \in EventIds
    BY <1>2 DEF Typed, ensureExists, CallStates, Idle
  <2> QED
    BY <1>2, <2>1 DEF Typed, ensureExists, Connected
<1>3. ASSUME NEW k \in EventCalls, RowGone(k) PROVE Typed'
  BY <1>3, EndsType DEF RowGone, Typed, Connected
<1>4. ASSUME NEW k \in EventCalls, emitEvents(k) PROVE Typed'
  <2>1. Ends(k) /\ UNCHANGED <<listeners, calendar, written, since>>
    BY <1>4 DEF emitEvents
  <2> QED
    BY <1>4, <2>1, EmitDelivers, EndsType DEF Typed, Connected
<1>5. ASSUME NEW e \in OtherEvents, EmitElsewhere(e) PROVE Typed'
  <2> DEFINE w == [event |-> e, id |-> NoEvent]
  <2>1. w \in Entries
    BY DEF Entries
  <2>2. /\ received' = Delivered(received, w.event, w.id)
        /\ written' = Append(written, w)
        /\ UNCHANGED <<listeners, calendar, eventCalls, since>>
    BY <1>5 DEF EmitElsewhere
  <2> HIDE DEF w
  <2>3. /\ received \in [Clients -> Seq(Sendable)]
        /\ \A c \in Clients : c \in listeners <=> received[c] # <<>>
    BY DEF Typed, Connected
  <2>4. /\ received' \in [Clients -> Seq(Sendable)]
        /\ \A c \in Clients : c \in listeners <=> received'[c] # <<>>
    BY <2>1, <2>2, <2>3, DeliveredType
  <2>5. written' \in Seq(Entries) /\ Len(written') = Len(written) + 1 /\ Len(written) \in Nat
    BY <2>1, <2>2, AppendProperties, LenProperties DEF Typed
  <2> QED
    BY <2>2, <2>4, <2>5 DEF Typed, Connected
<1>6. ASSUME NEW c \in Clients, Connect(c) PROVE Typed'
  <2>1. <<Heartbeat>> \in Seq(Sendable) /\ <<Heartbeat>> # <<>>
    BY HeartbeatType
  <2>2. Len(written) \in Nat
    BY LenProperties DEF Typed
  <2> QED
    BY <1>6, <2>1, <2>2 DEF Connect, stream, Typed, Connected
<1>7. ASSUME NEW c \in Clients, Disconnect(c) PROVE Typed'
  <2>1. <<>> \in Seq(Sendable) /\ Len(written) \in Nat
    BY LenProperties, EmptySeq DEF Typed
  <2> QED
    BY <1>7, <2>1 DEF Disconnect, unsubscribe, Typed, Connected
<1>8. CASE ProcessDies
  <2>1. <<>> \in Seq(Sendable) /\ Len(written) \in Nat
    BY LenProperties, EmptySeq DEF Typed
  <2>2. /\ eventCalls' \in [EventCalls -> CallStates]
        /\ \A j \in EventCalls :
             /\ eventCalls'[j].step = "emit" <=> eventCalls'[j].emits # <<>>
             /\ eventCalls'[j].step = "write" => eventCalls'[j].id \in EventIds
    BY <1>8, CallTypes DEF ProcessDies
  <2>3. /\ listeners' = {} /\ received' = [c \in Clients |-> <<>>]
        /\ since' = [c \in Clients |-> 0] /\ UNCHANGED <<calendar, written>>
    BY <1>8 DEF ProcessDies, NobodyConnected
  <2>4. /\ received' \in [Clients -> Seq(Sendable)]
        /\ \A c \in Clients : received'[c] = <<>> /\ since'[c] = 0
    BY <2>1, <2>3
  <2> QED
    BY <2>1, <2>2, <2>3, <2>4 DEF Typed, Connected
<1>9. CASE UNCHANGED calendarVars
  BY <1>9 DEF calendarVars, Typed, Connected
<1> QED
  BY <1>1, <1>2, <1>3, <1>4, <1>5, <1>6, <1>7, <1>8, <1>9 DEF CalendarNext, Writing

-----------------------------------------------------------------------------
(* What clients hear.                                                      *)

Busy == {k \in EventCalls : eventCalls[k].emits # <<>>}

Waits(w) == Cardinality(Waiting(w))
Heard(c, w) == CountOf(Message(w), received[c])

\* What was written of w waits no more than once, and client c has heard the rest:
\* no less than what was written since it came, no more than all that was written.
Counted(w) == Waits(w) <= From(0, w, written)

Hears(c, w) ==
  /\ From(since[c], w, written) <= Heard(c, w) + Waits(w)
  /\ Heard(c, w) + Waits(w) <= From(0, w, written)

HearInv ==
  /\ IsFiniteSet(Busy)
  /\ \A w \in Told : Counted(w)
  /\ \A c \in listeners, w \in Told : Hears(c, w)

LEMMA WaitingType ==
  ASSUME Typed, IsFiniteSet(Busy), NEW w
  PROVE  IsFiniteSet(Waiting(w)) /\ Waits(w) \in Nat
<1>1. Waiting(w) \subseteq Busy
  BY DEF Waiting, Busy
<1>2. IsFiniteSet(Waiting(w))
  BY <1>1, FS_Subset
<1> QED
  BY <1>2, FS_CardinalityType DEF Waits

LEMMA Counts ==
  ASSUME Typed, NEW c \in Clients, NEW w \in Told
  PROVE  /\ Heard(c, w) \in Nat /\ From(0, w, written) \in Nat
         /\ since[c] \in Nat /\ since[c] \in 0..Len(written) /\ 0 \in 0..Len(written)
         /\ From(since[c], w, written) \in Nat
<1>1. /\ received[c] \in Seq(Sendable) /\ written \in Seq(Entries)
      /\ since[c] \in Nat /\ since[c] <= Len(written)
  BY DEF Typed
<1>2. Len(written) \in Nat
  BY <1>1, LenProperties
<1>3. CountOf(Message(w), received[c]) = From(0, Message(w), received[c])
  BY <1>1, CountFrom
<1> QED
  BY <1>1, <1>2, <1>3, FromType DEF Heard

\* A step that neither writes nor emits, and that a client does not come with.
LEMMA HearUnchanged ==
  ASSUME Typed, HearInv, UNCHANGED <<received, written, since>>, listeners' \subseteq listeners,
         \A k \in EventCalls : eventCalls'[k].emits = eventCalls[k].emits
  PROVE  HearInv'
<1>1. Busy' = Busy /\ \A w : Waiting(w)' = Waiting(w)
  BY DEF Busy, Waiting
<1>2. \A w : Waits(w)' = Waits(w)
  BY <1>1 DEF Waits
<1>3. \A c, w : Heard(c, w)' = Heard(c, w)
  BY DEF Heard
<1> QED
  BY <1>1, <1>2, <1>3 DEF HearInv, Counted, Hears

LEMMA HearWrote ==
  ASSUME Typed, HearInv, NEW k \in EventCalls, NEW e \in Emissions,
         eventCalls[k].emits = <<>>, Wrote(k, e)
  PROVE  HearInv'
<1>1. /\ eventCalls'[k].emits = e
      /\ \A j \in EventCalls : j # k => eventCalls'[j] = eventCalls[j]
      /\ written' = written \o e
      /\ UNCHANGED <<listeners, received, since>>
  BY DEF Wrote, streamVars, Typed, CallStates
<1>2. Busy' \subseteq Busy \cup {k}
  BY <1>1 DEF Busy
<1>3. IsFiniteSet(Busy')
  <2>1. IsFiniteSet(Busy \cup {k})
    BY FS_AddElement DEF HearInv
  <2> QED
    BY <1>2, <2>1, FS_Subset
<1>4. ASSUME NEW w PROVE Waits(w)' = Waits(w) + Among(w, e)
  <2>1. k \notin Waiting(w) /\ IsFiniteSet(Waiting(w)) /\ Waits(w) \in Nat
    <3>1. DOMAIN eventCalls[k].emits = {}
      OBVIOUS
    <3>2. k \notin Waiting(w)
      BY <3>1 DEF Waiting
    <3> QED
      BY <3>2, WaitingType DEF HearInv
  <2>2. CASE \E n \in DOMAIN e : e[n] = w
    <3>1. Waiting(w)' = Waiting(w) \cup {k}
      BY <1>1, <2>2 DEF Waiting
    <3>2. Cardinality(Waiting(w) \cup {k}) = Cardinality(Waiting(w)) + 1
      BY <2>1, FS_AddElement
    <3> QED
      BY <2>2, <3>1, <3>2 DEF Waits, Among
  <2>3. CASE ~\E n \in DOMAIN e : e[n] = w
    <3>1. Waiting(w)' = Waiting(w)
      BY <1>1, <2>3 DEF Waiting
    <3> QED
      BY <2>1, <2>3, <3>1 DEF Waits, Among
  <2> QED
    BY <2>2, <2>3
<1>5. ASSUME NEW lo \in 0..Len(written), NEW w
      PROVE  From(lo, w, written') = From(lo, w, written) + Among(w, e)
  BY <1>1, <1>5, EmissionCount DEF Typed
<1>6. \A w : Among(w, e) \in {0, 1}
  BY DEF Among
<1>7. ASSUME NEW w \in Told PROVE Counted(w)'
  <2>1. 0 \in 0..Len(written) /\ From(0, w, written) \in Nat
    <3>1. written \in Seq(Entries) /\ Len(written) \in Nat
      BY LenProperties DEF Typed
    <3> QED
      BY <3>1, FromType
  <2>2. Waits(w) \in Nat /\ Waits(w) <= From(0, w, written)
    BY <1>7, WaitingType DEF HearInv, Counted
  <2>3. From(0, w, written') = From(0, w, written) + Among(w, e)
    BY <1>5, <2>1
  <2> QED
    BY <1>4, <1>6, <2>1, <2>2, <2>3 DEF Counted
<1>8. ASSUME NEW c \in listeners, NEW w \in Told PROVE Hears(c, w)'
  <2>1. c \in Clients
    BY DEF Typed
  <2>2. Hears(c, w) /\ Waits(w) \in Nat
    BY <1>8, WaitingType DEF HearInv
  <2>3. /\ From(since[c], w, written') = From(since[c], w, written) + Among(w, e)
        /\ From(0, w, written') = From(0, w, written) + Among(w, e)
    BY <1>5, <2>1, Counts
  <2>4. Heard(c, w)' = Heard(c, w)
    BY <1>1 DEF Heard
  <2>5. since'[c] = since[c]
    BY <1>1
  <2> QED
    BY <1>4, <1>6, <2>1, <2>2, <2>3, <2>4, <2>5, Counts DEF Hears
<1> QED
  BY <1>1, <1>3, <1>7, <1>8 DEF HearInv

LEMMA HearEmit ==
  ASSUME Typed, HearInv, NEW k \in EventCalls, emitEvents(k)
  PROVE  HearInv'
<1> DEFINE e == eventCalls[k].emits
<1>1. /\ eventCalls'[k].emits = <<>>
      /\ \A j \in EventCalls : j # k => eventCalls'[j] = eventCalls[j]
      /\ UNCHANGED <<listeners, written, since>>
  BY CallTypes DEF emitEvents, Ends, Typed
<1>2. e \in Emissions
  BY EmitDelivers
<1>3. IsFiniteSet(Busy')
  <2>1. Busy' \subseteq Busy
    BY <1>1 DEF Busy
  <2> QED
    BY <2>1, FS_Subset DEF HearInv
<1>4. ASSUME NEW w PROVE Waits(w) = Waits(w)' + Among(w, e) /\ Waits(w)' \in Nat
  <2>1. IsFiniteSet(Waiting(w)) /\ Waits(w) \in Nat
    BY WaitingType DEF HearInv
  <2>2. CASE \E n \in DOMAIN e : e[n] = w
    <3>1. Waiting(w)' = Waiting(w) \ {k} /\ k \in Waiting(w)
      BY <1>1, <2>2 DEF Waiting
    <3>2. /\ Cardinality(Waiting(w) \ {k}) = Cardinality(Waiting(w)) - 1
          /\ IsFiniteSet(Waiting(w) \ {k})
      BY <2>1, <3>1, FS_RemoveElement
    <3>3. Cardinality(Waiting(w) \ {k}) \in Nat
      BY <3>2, FS_CardinalityType
    <3> QED
      BY <2>1, <2>2, <3>1, <3>2, <3>3 DEF Waits, Among
  <2>3. CASE ~\E n \in DOMAIN e : e[n] = w
    <3>1. Waiting(w)' = Waiting(w)
      BY <1>1, <2>3 DEF Waiting
    <3> QED
      BY <2>1, <2>3, <3>1 DEF Waits, Among
  <2> QED
    BY <2>2, <2>3
<1>5. \A w : Among(w, e) \in {0, 1}
  BY DEF Among
<1>6. ASSUME NEW w \in Told PROVE Counted(w)'
  <2>1. From(0, w, written) \in Nat
    BY FromType DEF Typed
  <2>2. Waits(w) <= From(0, w, written)
    BY <1>6 DEF HearInv, Counted
  <2> HIDE DEF e
  <2> QED
    BY <1>1, <1>4, <1>5, <2>1, <2>2 DEF Counted
<1>7. ASSUME NEW c \in listeners, NEW w \in Told PROVE Hears(c, w)'
  <2>1. c \in Clients
    BY DEF Typed
  <2>2. Hears(c, w)
    BY <1>7 DEF HearInv
  <2>3. Heard(c, w)' = Heard(c, w) + Among(w, e)
    BY <1>7, EmitDelivers DEF Heard
  <2>4. since'[c] = since[c] /\ written' = written
    BY <1>1
  <2> HIDE DEF e
  <2> QED
    BY <1>4, <1>5, <2>1, <2>2, <2>3, <2>4, Counts DEF Hears
<1> QED
  BY <1>1, <1>3, <1>6, <1>7 DEF HearInv

LEMMA HearElsewhere ==
  ASSUME Typed, HearInv, NEW e \in OtherEvents, EmitElsewhere(e)
  PROVE  HearInv'
<1> DEFINE x == [event |-> e, id |-> NoEvent]
<1>1. x \in Entries
  BY DEF Entries
<1>2. /\ received' = Delivered(received, x.event, x.id) /\ written' = Append(written, x)
      /\ UNCHANGED <<listeners, eventCalls, since>>
  BY DEF EmitElsewhere
<1> HIDE DEF x
<1>3. Busy' = Busy /\ \A w : Waits(w)' = Waits(w)
  BY <1>2 DEF Busy, Waits, Waiting
<1>4. ASSUME NEW lo \in 0..Len(written), NEW w
      PROVE  From(lo, w, written') = From(lo, w, written) + (IF x = w THEN 1 ELSE 0)
  BY <1>1, <1>2, <1>4, AppendCount DEF Typed
<1>5. ASSUME NEW w \in Told PROVE Counted(w)'
  <2>1. 0 \in 0..Len(written) /\ From(0, w, written) \in Nat
    BY FromType, LenProperties DEF Typed
  <2>2. Waits(w) \in Nat /\ Waits(w) <= From(0, w, written)
    BY <1>5, WaitingType DEF HearInv, Counted
  <2>3. From(0, w, written') = From(0, w, written) + (IF x = w THEN 1 ELSE 0)
    BY <1>4, <2>1
  <2> QED
    BY <1>3, <2>1, <2>2, <2>3 DEF Counted
<1>6. ASSUME NEW c \in listeners, NEW w \in Told PROVE Hears(c, w)'
  <2>1. c \in Clients /\ received[c] \in Seq(Sendable)
    BY DEF Typed
  <2>2. Hears(c, w) /\ Waits(w) \in Nat
    BY <1>6, WaitingType DEF HearInv
  <2>3. Heard(c, w)' = Heard(c, w) + (IF x = w THEN 1 ELSE 0)
    <3>1. /\ received \in [Clients -> Seq(Sendable)]
          /\ \A d \in Clients : d \in listeners <=> received[d] # <<>>
      BY DEF Typed, Connected
    <3>2. CASE x \in Told
      <4>1. received'[c] = Append(received[c], Message(x))
        BY <1>1, <1>2, <1>6, <3>1, <3>2, DeliveredType
      <4>2. CountOf(Message(w), Append(received[c], Message(x)))
              = CountOf(Message(w), received[c]) + (IF x = w THEN 1 ELSE 0)
        BY <2>1, <3>2, HeardOne
      <4> QED
        BY <4>1, <4>2 DEF Heard
    <3>3. CASE x \notin Told
      <4>1. received' = received
        BY <1>1, <1>2, <3>1, <3>3, DeliveredType
      <4>2. x # w
        BY <3>3
      <4> QED
        BY <2>1, <4>1, <4>2, Counts DEF Heard
    <3> QED
      BY <3>2, <3>3
  <2>4. /\ From(since[c], w, written') = From(since[c], w, written) + (IF x = w THEN 1 ELSE 0)
        /\ From(0, w, written') = From(0, w, written) + (IF x = w THEN 1 ELSE 0)
        /\ since'[c] = since[c]
    BY <1>2, <1>4, <2>1, Counts
  <2> QED
    BY <1>3, <2>1, <2>2, <2>3, <2>4, Counts DEF Hears
<1> QED
  BY <1>2, <1>3, <1>5, <1>6 DEF HearInv

\* A client that comes has heard of nothing, and owes nothing to what was before.
LEMMA HearConnect ==
  ASSUME Typed, HearInv, NEW d \in Clients, Connect(d)
  PROVE  HearInv'
<1>1. /\ listeners' = listeners \cup {d}
      /\ received' = [received EXCEPT ![d] = <<Heartbeat>>]
      /\ since' = [since EXCEPT ![d] = Len(written)]
      /\ UNCHANGED <<eventCalls, written>>
  BY DEF Connect, stream
<1>2. Busy' = Busy /\ \A w : Waits(w)' = Waits(w)
  BY <1>1 DEF Busy, Waits, Waiting
<1>3. \A w \in Told : Counted(w)'
  BY <1>1, <1>2 DEF HearInv, Counted
<1>4. ASSUME NEW w \in Told PROVE Hears(d, w)'
  <2>1. written \in Seq(Entries) /\ Len(written) \in Nat
    BY LenProperties DEF Typed
  <2>2. From(Len(written), w, written) = 0
    <3>1. {n \in (Len(written) + 1)..Len(written) : written[n] = w} = {}
      BY <2>1
    <3> QED
      BY <3>1, FS_EmptySet DEF From
  <2>3. CountOf(Message(w), <<Heartbeat>>) = 0
    <3>1. Message(w) # Heartbeat
      BY MessageType
    <3> HIDE DEF Message
    <3>2. {n \in DOMAIN <<Heartbeat>> : <<Heartbeat>>[n] = Message(w)} = {}
      BY <3>1
    <3> QED
      BY <3>2, FS_EmptySet DEF CountOf
  <2>4. since'[d] = Len(written) /\ received'[d] = <<Heartbeat>> /\ written' = written
    BY <1>1 DEF Typed
  <2>5. Waits(w) \in Nat /\ Waits(w) <= From(0, w, written)
    BY <1>4, WaitingType DEF HearInv, Counted
  <2> QED
    BY <1>2, <2>2, <2>3, <2>4, <2>5 DEF Hears, Heard
<1>5. ASSUME NEW c \in listeners, NEW w \in Told, c # d PROVE Hears(c, w)'
  <2>1. c \in Clients /\ Hears(c, w)
    BY <1>5 DEF Typed, HearInv
  <2>2. since'[c] = since[c] /\ received'[c] = received[c] /\ written' = written
    BY <1>1, <1>5, <2>1 DEF Typed
  <2> QED
    BY <1>2, <2>1, <2>2 DEF Hears, Heard
<1> QED
  BY <1>1, <1>2, <1>3, <1>4, <1>5 DEF HearInv

\* A client that goes takes its own listeners and messages only.
LEMMA HearDisconnect ==
  ASSUME Typed, HearInv, NEW d \in Clients, Disconnect(d)
  PROVE  HearInv'
<1>1. /\ listeners' = listeners \ {d}
      /\ received' = [received EXCEPT ![d] = <<>>]
      /\ since' = [since EXCEPT ![d] = 0]
      /\ UNCHANGED <<eventCalls, written>>
  BY DEF Disconnect, unsubscribe
<1>2. Busy' = Busy /\ \A w : Waits(w)' = Waits(w)
  BY <1>1 DEF Busy, Waits, Waiting
<1>3. \A w \in Told : Counted(w)'
  BY <1>1, <1>2 DEF HearInv, Counted
<1>4. ASSUME NEW c \in listeners, NEW w \in Told, c # d PROVE Hears(c, w)'
  <2>1. c \in Clients /\ Hears(c, w)
    BY <1>4 DEF Typed, HearInv
  <2>2. since'[c] = since[c] /\ received'[c] = received[c] /\ written' = written
    BY <1>1, <1>4, <2>1 DEF Typed
  <2> QED
    BY <1>2, <2>1, <2>2 DEF Hears, Heard
<1> QED
  BY <1>1, <1>2, <1>3, <1>4 DEF HearInv

\* After a crash nobody listens, and nothing waits any more.
LEMMA HearDies ==
  ASSUME Typed, HearInv, ProcessDies
  PROVE  HearInv'
<1>1. /\ listeners' = {} /\ written' = written
      /\ \A k \in EventCalls : eventCalls'[k].emits = <<>>
  BY CallTypes DEF ProcessDies
<1>2. Busy' = {} /\ \A w : Waiting(w)' = {}
  BY <1>1 DEF Busy, Waiting
<1>3. IsFiniteSet(Busy') /\ \A w : Waits(w)' = 0
  BY <1>2, FS_EmptySet DEF Waits
<1>4. ASSUME NEW w \in Told PROVE Counted(w)'
  <2>1. From(0, w, written) \in Nat
    <3>1. written \in Seq(Entries)
      BY DEF Typed
    <3> QED
      BY <3>1, FromType
  <2> QED
    BY <1>1, <1>3, <2>1 DEF Counted
<1> QED
  BY <1>1, <1>3, <1>4 DEF HearInv

LEMMA HearStep ==
  ASSUME Typed, HearInv, [CalendarNext]_calendarVars
  PROVE  HearInv'
<1>1. ASSUME NEW k \in EventCalls, Writing(k) PROVE HearInv'
  BY <1>1, WritingWrote, HearWrote
<1>2. ASSUME NEW k \in EventCalls, NEW id \in EventIds,
             NEW name \in {"ECONOMIC_EVENT_UPDATED", "ECONOMIC_EVENT_DELETED"},
             ensureExists(k, id, name)
      PROVE  HearInv'
  <2>1. eventCalls[k].emits = <<>>
    BY <1>2 DEF ensureExists, Typed
  <2>2. \A j \in EventCalls : eventCalls'[j].emits = eventCalls[j].emits
    BY <1>2, <2>1 DEF ensureExists, Idle, Typed
  <2> QED
    BY <1>2, <2>2, HearUnchanged DEF ensureExists, streamVars
<1>3. ASSUME NEW k \in EventCalls, RowGone(k) PROVE HearInv'
  <2>1. eventCalls[k].emits = <<>>
    BY <1>3 DEF RowGone, Typed
  <2>2. \A j \in EventCalls : eventCalls'[j].emits = eventCalls[j].emits
    BY <1>3, <2>1, CallTypes DEF RowGone, Ends, Typed
  <2> QED
    BY <1>3, <2>2, HearUnchanged DEF RowGone, streamVars
<1>4. ASSUME NEW k \in EventCalls, emitEvents(k) PROVE HearInv'
  BY <1>4, HearEmit
<1>5. ASSUME NEW e \in OtherEvents, EmitElsewhere(e) PROVE HearInv'
  BY <1>5, HearElsewhere
<1>6. ASSUME NEW c \in Clients, Connect(c) PROVE HearInv'
  BY <1>6, HearConnect
<1>7. ASSUME NEW c \in Clients, Disconnect(c) PROVE HearInv'
  BY <1>7, HearDisconnect
<1>8. CASE ProcessDies
  BY <1>8, HearDies
<1>9. CASE UNCHANGED calendarVars
  BY <1>9, HearUnchanged DEF calendarVars, streamVars
<1> QED
  BY <1>1, <1>2, <1>3, <1>4, <1>5, <1>6, <1>7, <1>8, <1>9 DEF CalendarNext, Writing

-----------------------------------------------------------------------------
(* Theorems.                                                               *)

LEMMA Start ==
  ASSUME CalendarInit
  PROVE  Typed /\ HearInv
<1>1. /\ listeners = {} /\ calendar \in Calendars /\ written = <<>>
      /\ \A c \in Clients : received[c] = <<>> /\ since[c] = 0
      /\ \A k \in EventCalls : eventCalls[k] = Idle
  BY DEF CalendarInit, StreamInit, NobodyConnected
<1>2. /\ received \in [Clients -> Seq(Sendable)] /\ since \in [Clients -> Nat]
      /\ eventCalls \in [EventCalls -> CallStates]
  BY EmptySeq, CallTypes DEF CalendarInit, StreamInit, NobodyConnected
<1>3. written \in Seq(Entries) /\ Len(written) = 0
  BY <1>1, EmptySeq
<1>4. Typed
  BY <1>1, <1>2, <1>3, CallTypes DEF Typed, Connected
<1>5. Busy = {} /\ \A w : Waiting(w) = {}
  BY <1>1, CallTypes DEF Busy, Waiting
<1>6. IsFiniteSet(Busy) /\ \A w : Waits(w) = 0
  BY <1>5, FS_EmptySet DEF Waits
<1>7. ASSUME NEW w \in Told PROVE Counted(w)
  <2>1. From(0, w, written) \in Nat
    <3>1. written \in Seq(Entries)
      BY <1>3
    <3> QED
      BY <3>1, FromType
  <2>2. Waits(w) = 0
    BY <1>6
  <2> QED
    BY <2>1, <2>2 DEF Counted
<1> QED
  BY <1>1, <1>4, <1>6, <1>7 DEF HearInv

\* What the clients hear follows from the counts.
LEMMA CountsAreHeard ==
  ASSUME Typed, HearInv
  PROVE  ClientsHear
<1> SUFFICES ASSUME NEW c \in Clients, Connected(c), NEW n \in DOMAIN written,
                    written[n].event \in Forwarded
             PROVE  LET w == written[n]
                    IN  /\ Cardinality({m \in (since[c] + 1)..Len(written) : written[m] = w})
                             - Cardinality(Waiting(w)) <= CountOf(Message(w), received[c])
                        /\ CountOf(Message(w), received[c])
                             <= CountOf(w, written) - Cardinality(Waiting(w))
  BY DEF ClientsHear
<1> DEFINE w == written[n]
<1>1. c \in listeners /\ written \in Seq(Entries)
  BY DEF Typed
<1>2. w \in Told
  <2>1. n \in 1..Len(written)
    BY <1>1, LenProperties
  <2>2. w \in Entries
    BY <1>1, <2>1, ElementOfSeq
  <2> QED
    BY <2>2 DEF Told
<1> HIDE DEF w
<1>3. Hears(c, w)
  BY <1>1, <1>2 DEF HearInv
<1>4. CountOf(w, written) = From(0, w, written)
  BY <1>1, CountFrom
<1>5. /\ Heard(c, w) \in Nat /\ From(0, w, written) \in Nat
      /\ From(since[c], w, written) \in Nat /\ Waits(w) \in Nat
  BY <1>2, Counts, WaitingType DEF HearInv
<1>6. /\ From(since[c], w, written) - Waits(w) <= Heard(c, w)
      /\ Heard(c, w) <= From(0, w, written) - Waits(w)
  BY <1>3, <1>5 DEF Hears
<1>7. /\ From(since[c], w, written) - Cardinality(Waiting(w)) <= CountOf(Message(w), received[c])
      /\ CountOf(Message(w), received[c]) <= CountOf(w, written) - Cardinality(Waiting(w))
  BY <1>4, <1>6 DEF Waits, Heard
<1> QED
  BY <1>7 DEF w, From

\* The calendar's state, what its calls do and what clients have received keep
\* their types: a client has listeners exactly when it is connected, and a call that
\* has something to emit is about to.
THEOREM CalendarTyped == CalendarSpec => [](CalendarTypeOK /\ Typed)
<1>1. CalendarInit => Typed
  BY Start
<1>2. Typed /\ [CalendarNext]_calendarVars => Typed'
  BY TypedStep
<1>3. Typed => CalendarTypeOK
  <2> SUFFICES ASSUME Typed PROVE CalendarTypeOK
    OBVIOUS
  <2>1. \A k \in EventCalls : eventCalls[k].step \in {"idle", "write", "emit", "done"}
    BY DEF Typed, CallStates
  <2>2. ASSUME NEW c \in Clients, NEW n \in DOMAIN received[c]
        PROVE  received[c][n].type \in {Forwards[e] : e \in Forwarded} \cup {"HEARTBEAT"}
    <3>1. received[c] \in Seq(Sendable)
      BY DEF Typed
    <3>2. received[c][n] \in Sendable
      BY <2>2, <3>1, LenProperties, ElementOfSeq
    <3> QED
      BY <3>2 DEF Sendable
  <2> QED
    BY <2>1, <2>2 DEF Typed, CalendarTypeOK, StreamTypeOK
<1> QED
  BY <1>1, <1>2, <1>3, PTL DEF CalendarSpec

\* A connected client has been told once of every write since it came whose call is
\* past its emission, and of nothing more often than it was written, whoever else
\* connects, leaves or calls in between.
THEOREM ClientsHearAll == CalendarSpec => []ClientsHear
<1>1. CalendarInit => Typed /\ HearInv
  BY Start
<1>2. Typed /\ HearInv /\ [CalendarNext]_calendarVars => (Typed /\ HearInv)'
  BY TypedStep, HearStep
<1>3. Typed /\ HearInv => ClientsHear
  BY CountsAreHeard
<1> QED
  BY <1>1, <1>2, <1>3, PTL DEF CalendarSpec
=============================================================================
