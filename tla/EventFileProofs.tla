--------------------------- MODULE EventFileProofs -------------------------
(***************************************************************************)
(* WriteTask implements EventFile: what a reader sees of an event writer   *)
(* grows by whole messages, each once and in the order of its partition.   *)
(* The columns are those of InProgressFileProofs, that no writer is handed *)
(* a message twice comes from DeliveryProofs, and that no message is read  *)
(* twice from where the consumer stands.                                   *)
(***************************************************************************)
EXTENDS WriteTaskProofs, DeliveryProofs

-----------------------------------------------------------------------------
(***************************************************************************)
(* What a reader sees of the columns of a writer.                          *)
(***************************************************************************)
LEMMA VisibleAligned ==
  ASSUME NEW w \in PlacedWriter, Aligned(w)
  PROVE  Visible(w) = w.event_id
<1> DEFINE both == {i \in DOMAIN w.event_id \cap DOMAIN w.event_time_offset :
                      w.event_id[i] = w.event_time_offset[i] /\ w.event_id[i] # Fill}
<1>1. both = DOMAIN w.event_id
  BY DEF Aligned, Written
<1>2. w.event_id \in Seq(Cells)
  BY DEF PlacedWriter
<1>3. w.event_id = [i \in DOMAIN w.event_id |-> w.event_id[i]]
  BY <1>2
<1>4. Visible(w) = [i \in both |-> w.event_id[i]]
  BY DEF Visible
<1> HIDE DEF both
<1> QED BY <1>1, <1>3, <1>4

\* A column to which the rows of a message are written at its end
LEMMA AppendedRows ==
  ASSUME NEW col \in Seq(Cells), NEW id \in MessageIds, NEW k \in Nat
  PROVE  WriteSlice(Resize(col, Len(col) + k), Len(col), Rows(id, k)) = col \o Rows(id, k)
<1> DEFINE n   == Len(col)
           big == Resize(col, n + k)
           new == WriteSlice(big, n, Rows(id, k))
<1>1. n \in Nat /\ DOMAIN col = 1..n /\ n + k \in Nat
  OBVIOUS
<1>2. Len(big) = n + k /\ \A i \in 1..(n + k) : i <= n => big[i] = col[i]
  <2>1. Len(big) = n + k
    <3> HIDE DEF n
    <3> QED BY <1>1, ResizeType
  <2>2. \A i \in 1..(n + k) : i <= n => big[i] = col[i]
    BY DEF Resize
  <2> QED BY <2>1, <2>2
<1>3. Rows(id, k) \in Seq(MessageIds \X Nat) /\ Len(Rows(id, k)) = k
  BY RowsType
<1>4. /\ DOMAIN (col \o Rows(id, k)) = 1..(n + k)
      /\ \A i \in 1..(n + k) :
           (col \o Rows(id, k))[i] = IF i <= n THEN col[i] ELSE Rows(id, k)[i - n]
      /\ col \o Rows(id, k) = [i \in 1..(n + k) |-> (col \o Rows(id, k))[i]]
  <2> DEFINE rows == Rows(id, k)
  <2>1. rows \in Seq(Cells) /\ Len(rows) = k
    BY <1>3 DEF Cells
  <2> HIDE DEF rows
  <2>2. /\ col \o rows \in Seq(Cells) /\ Len(col \o rows) = n + k
        /\ \A i \in 1..(n + k) :
             (col \o rows)[i] = IF i <= n THEN col[i] ELSE rows[i - n]
    BY <2>1
  <2> DEFINE all == col \o rows
  <2>3. all \in Seq(Cells) /\ Len(all) = n + k
    BY <2>2
  <2> HIDE DEF all
  <2>4. DOMAIN all = 1..(n + k) /\ all = [i \in 1..(n + k) |-> all[i]]
    BY <2>3
  <2> QED BY <2>2, <2>4 DEF rows, all
<1> HIDE DEF big
<1>5. new = [i \in 1..(n + k) |-> IF i <= n THEN big[i] ELSE Rows(id, k)[i - n]]
  BY <1>2 DEF WriteSlice
<1> HIDE DEF new, n
<1>6. new = [i \in 1..(n + k) |-> (col \o Rows(id, k))[i]]
  BY <1>2, <1>4, <1>5
<1> QED BY <1>4, <1>6 DEF new, n, big

\* Whatever was written past the rows of w in one of the two columns only shows nowhere.
LEMMA VisibleStill ==
  ASSUME NEW w \in PlacedWriter, Aligned(w), NEW v,
         \A i \in DOMAIN w.event_id :
           /\ i \in DOMAIN v.event_id /\ v.event_id[i] = w.event_id[i]
           /\ i \in DOMAIN v.event_time_offset /\ v.event_time_offset[i] = w.event_id[i],
         \A i \in DOMAIN v.event_id \cap DOMAIN v.event_time_offset :
           i \notin DOMAIN w.event_id =>
             v.event_id[i] # v.event_time_offset[i] \/ v.event_id[i] = Fill
  PROVE  Visible(v) = w.event_id
<1> DEFINE both == {i \in DOMAIN v.event_id \cap DOMAIN v.event_time_offset :
                      v.event_id[i] = v.event_time_offset[i] /\ v.event_id[i] # Fill}
<1>1. both = DOMAIN w.event_id
  BY DEF Aligned, Written
<1>2. w.event_id \in Seq(Cells)
  BY DEF PlacedWriter
<1>3. w.event_id = [i \in DOMAIN w.event_id |-> w.event_id[i]]
  BY <1>2
<1>4. Visible(v) = [i \in both |-> v.event_id[i]]
  BY DEF Visible
<1> HIDE DEF both
<1>5. Visible(v) = [i \in DOMAIN w.event_id |-> w.event_id[i]]
  BY <1>1, <1>4
<1> QED BY <1>3, <1>5

\* The cells of a column that was made longer, before and after they are written
Longer(col, big, new) ==
  /\ DOMAIN big = DOMAIN new /\ DOMAIN col \subseteq DOMAIN big
  /\ \A i \in DOMAIN col : big[i] = col[i] /\ new[i] = col[i]
  /\ \A i \in DOMAIN big : i \notin DOMAIN col => big[i] = Fill
  /\ \A i \in DOMAIN new : new[i] # Fill

LEMMA LongerCells ==
  ASSUME NEW col \in Seq(Cells), Written(col), NEW id \in MessageIds, NEW k \in Nat
  PROVE  Longer(col, Resize(col, Len(col) + k),
                WriteSlice(Resize(col, Len(col) + k), Len(col), Rows(id, k)))
<1> DEFINE big == Resize(col, Len(col) + k)
           new == WriteSlice(big, Len(col), Rows(id, k))
<1>1. Len(col) \in Nat /\ DOMAIN col = 1..Len(col) /\ Len(col) + k \in Nat
  OBVIOUS
<1>2. big \in Seq(Cells) /\ Len(big) = Len(col) + k
  BY <1>1, ResizeType
<1>3. DOMAIN big = 1..(Len(col) + k)
  BY <1>2
<1>4. DOMAIN new = 1..(Len(col) + k)
  BY <1>2 DEF WriteSlice
<1>5. \A i \in 1..(Len(col) + k) :
        big[i] = IF i <= Len(col) THEN col[i] ELSE Fill
  BY DEF Resize
<1>6. \A i \in 1..(Len(col) + k) : i <= Len(col) => new[i] = big[i]
  BY <1>2 DEF WriteSlice
<1>7. \A i \in DOMAIN new : new[i] # Fill
  BY ExtendedWritten DEF Written
<1> HIDE DEF big, new
<1>8. Longer(col, big, new)
  BY <1>1, <1>3, <1>4, <1>5, <1>6, <1>7 DEF Longer
<1> QED BY <1>8 DEF big, new

(***************************************************************************)
(* The four HDF5 calls of an ev44 message show all of its rows or none.    *)
(***************************************************************************)
LEMMA WriteEventsVisible ==
  ASSUME NEW w \in PlacedWriter, Aligned(w), NEW m \in Message, NEW out \in WriteEvents(w, m)
  PROVE  \/ Visible(out.writer) = Visible(w)
         \/ /\ out.result = "Ok" /\ ValidEvents(m)
            /\ Visible(out.writer) = Visible(w) \o Rows(m.id, m.pixel_id)
<1>1. CASE ~ValidEvents(m)
  <2>1. out = Outcome(w, "Ok")
    BY <1>1 DEF WriteEvents
  <2> QED BY <2>1 DEF Outcome
<1>2. CASE ValidEvents(m)
  <2> DEFINE n    == Len(w.event_time_offset)
             k    == m.pixel_id
             big  == Resize(w.event_id, n + k)
             new  == WriteSlice(big, n, Rows(m.id, k))
             ids  == [w EXCEPT !.event_id = Resize(@, n + k)]
             two  == [ids EXCEPT !.event_time_offset = Resize(@, n + k)]
             idw  == [two EXCEPT !.event_id = WriteSlice(@, n, Rows(m.id, k))]
             all  == [idw EXCEPT !.event_time_offset = WriteSlice(@, n, Rows(m.id, k))]
  <2>1. /\ k \in Nat /\ k = m.time_of_flight /\ m.id \in MessageIds
        /\ w.event_id \in Seq(Cells) /\ w.event_id = w.event_time_offset
        /\ Written(w.event_id) /\ n = Len(w.event_id)
    BY <1>2 DEF PlacedWriter, ValidEvents, Message, Aligned
  <2>2. out \in UNION {Broken(w), Broken(ids), Broken(two), Broken(idw), {Outcome(all, "Ok")}}
    BY <1>2, <2>1 DEF WriteEvents
  <2>3. /\ ids = [w EXCEPT !.event_id = big]
        /\ two = [w EXCEPT !.event_id = big, !.event_time_offset = big]
        /\ idw = [w EXCEPT !.event_id = new, !.event_time_offset = big]
        /\ all = [w EXCEPT !.event_id = new, !.event_time_offset = new]
    BY <2>1 DEF PlacedWriter
  <2> HIDE DEF k, n
  <2>4. big = Resize(w.event_id, Len(w.event_id) + k)
        /\ new = WriteSlice(big, Len(w.event_id), Rows(m.id, k))
    BY <2>1
  <2> HIDE DEF big, new, ids, two, idw, all
  <2>5. /\ DOMAIN big = DOMAIN new /\ DOMAIN w.event_id \subseteq DOMAIN big
        /\ \A i \in DOMAIN w.event_id : big[i] = w.event_id[i] /\ new[i] = w.event_id[i]
        /\ \A i \in DOMAIN big : i \notin DOMAIN w.event_id => big[i] = Fill
        /\ \A i \in DOMAIN new : new[i] # Fill
    <3>1. /\ w.event_id \in Seq(Cells) /\ Written(w.event_id) /\ m.id \in MessageIds /\ k \in Nat
          /\ big = Resize(w.event_id, Len(w.event_id) + k)
          /\ new = WriteSlice(big, Len(w.event_id), Rows(m.id, k))
      BY <2>1, <2>4
    <3>2. Longer(w.event_id, big, new)
      BY <3>1, LongerCells
    <3> QED BY <3>2 DEF Longer
  <2>6. new = w.event_id \o Rows(m.id, k)
    BY <2>1, <2>4, AppendedRows
  <2>7. /\ ids.event_id = big /\ ids.event_time_offset = w.event_id
        /\ two.event_id = big /\ two.event_time_offset = big
        /\ idw.event_id = new /\ idw.event_time_offset = big
        /\ all.event_id = new /\ all.event_time_offset = new
        /\ all.event_time_zero = w.event_time_zero
    BY <2>1, <2>3 DEF PlacedWriter
  <2>8. Visible(w) = w.event_id
    BY VisibleAligned
  <2>9. Visible(ids) = w.event_id
    BY <2>5, <2>7, VisibleStill
  <2>10. Visible(two) = w.event_id
    BY <2>5, <2>7, VisibleStill
  <2>11. Visible(idw) = w.event_id
    BY <2>5, <2>7, VisibleStill
  <2>12. Visible(all) = new
    <3>1. all \in PlacedWriter
      <4>1. Rows(m.id, k) \in Seq(Cells)
        BY <2>1, RowsType DEF Cells
      <4>2. new \in Seq(Cells)
        BY <2>1, <2>6, <4>1
      <4> QED BY <2>3, <4>2 DEF PlacedWriter
    <3>2. Aligned(all)
      BY <2>5, <2>7 DEF Aligned, Written
    <3> QED BY <2>7, <3>1, <3>2, VisibleAligned
  <2>13. \A v : out \in Broken(v) => out.writer = v
    BY DEF Broken, Outcome
  <2>14. out = Outcome(all, "Ok") => out.writer = all /\ out.result = "Ok"
    BY DEF Outcome
  <2> QED BY <1>2, <2>2, <2>6, <2>8, <2>9, <2>10, <2>11, <2>12, <2>13, <2>14 DEF k
<1> QED BY <1>1, <1>2

LEMMA OnMessageVisible ==
  ASSUME NEW w \in PlacedWriter, Aligned(w), NEW m \in Message, NEW out \in OnMessage(w, m)
  PROVE  \/ Visible(out.writer) = Visible(w)
         \/ /\ out.result = "Ok" /\ w.kind = "NXevent_data" /\ ValidEvents(m)
            /\ Visible(out.writer) = Visible(w) \o Rows(m.id, m.pixel_id)
<1> DEFINE Shown(v) == \/ Visible(out.writer) = Visible(v)
                       \/ /\ out.result = "Ok" /\ ValidEvents(m)
                          /\ Visible(out.writer) = Visible(v) \o Rows(m.id, m.pixel_id)
           seen     == [w EXCEPT !.latest_message_time_ms = m.timestamp]
<1>1. \A v, res : out = Outcome(v, res) => out.writer = v
  BY DEF Outcome
<1>2. ASSUME NEW v \in PlacedWriter, Aligned(v), out \in WriteData(v, m)
      PROVE  Shown(v)
  <2>1. CASE m.schema = "pu00"
    <3>1. out \in WritePulse(v, m.id)
      BY <1>2, <2>1 DEF WriteData
    <3>2. out.writer.event_id = v.event_id /\ out.writer.event_time_offset = v.event_time_offset
      <4> DEFINE n       == Len(v.event_time_zero)
                 resized == [v EXCEPT !.event_time_zero = Resize(@, n + 1)]
                 written == [resized EXCEPT !.event_time_zero = WriteSlice(@, n, Rows(m.id, 1))]
      <4>1. out \in Broken(v) \cup Broken(resized) \cup {Outcome(written, "Ok")}
        BY <3>1 DEF WritePulse
      <4>2. \A x \in {v, resized, written} :
              x.event_id = v.event_id /\ x.event_time_offset = v.event_time_offset
        BY <1>2 DEF PlacedWriter
      <4> HIDE DEF resized, written
      <4>3. out.writer \in {v, resized, written}
        BY <4>1 DEF Broken, Outcome
      <4> QED BY <4>2, <4>3
    <3> QED BY <3>2 DEF Visible
  <2>2. CASE m.schema = "ev44"
    <3>1. out \in WriteEvents(v, m)
      BY <1>2, <2>2 DEF WriteData
    <3> QED BY <1>2, <3>1, WriteEventsVisible
  <2>3. CASE m.schema \notin {"pu00", "ev44"}
    <3>1. out = Outcome(v, "Ok")
      BY <1>2, <2>3 DEF WriteData
    <3> QED BY <1>1, <3>1
  <2> QED BY <2>1, <2>2, <2>3
<1>3. CASE w.kind = "NXevent_data"
  <2>1. out \in NXeventdataOnMessage(w, m)
    BY <1>3 DEF OnMessage
  <2>2. CASE m.timestamp = None
    BY <1>2, <1>3, <2>1, <2>2 DEF NXeventdataOnMessage
  <2>3. CASE m.timestamp # None /\ m.timestamp < 0
    BY <1>1, <2>1, <2>3 DEF NXeventdataOnMessage
  <2>4. CASE m.timestamp # None /\ ~(m.timestamp < 0)
    <3>1. m.timestamp \in Nat
      BY <2>4 DEF Message
    <3>2. seen \in PlacedWriter /\ Aligned(seen) /\ Visible(seen) = Visible(w)
      BY <3>1 DEF PlacedWriter, Aligned, Visible
    <3>3. out \in WriteData(seen, m) \/ out = Outcome(seen, "Ok")
      BY <2>1, <2>4 DEF NXeventdataOnMessage
    <3> HIDE DEF seen
    <3>4. Shown(seen)
      BY <1>1, <1>2, <3>2, <3>3
    <3> QED BY <1>3, <3>2, <3>4
  <2> QED BY <2>2, <2>3, <2>4
<1>4. CASE w.kind # "NXevent_data"
  <2>1. out \in {Outcome(w, "Ok"), Outcome(w, "Err")}
    BY <1>4 DEF OnMessage
  <2> QED BY <1>1, <2>1
<1> QED BY <1>3, <1>4

LEMMA OnRunStopVisible ==
  ASSUME NEW w \in PlacedWriter, NEW m \in Message, NEW out \in OnRunStop(w, m)
  PROVE  /\ Visible(out.writer) = Visible(w)
         /\ Recorded(out.writer) = Recorded(w)
<1>1. out.writer.event_id = w.event_id /\ out.writer.event_time_offset = w.event_time_offset
  BY DEF OnRunStop, Outcome, PlacedWriter
<1> QED BY <1>1 DEF Visible, Recorded

-----------------------------------------------------------------------------
(***************************************************************************)
(* The inductive invariant: an event writer has one subscription, so that  *)
(* a message is for it at most once (SingleOK, OnceOK); it is blank until  *)
(* the first poll; what it has taken lies behind the consumer, and behind  *)
(* the message that it is still to be given.                               *)
(***************************************************************************)
SingleOK ==
  /\ \A i \in DOMAIN specs :
       specs[i].module = "NXevent_data" => Len(specs[i].subscriptions) = 1
  /\ adding # None /\ adding.kind = "NXevent_data" => Len(adding.subscriptions) = 1
  /\ \A i \in DOMAIN writers :
       writers[i].kind = "NXevent_data" => Len(writers[i].subscriptions) = 1

OnceOK ==
  phase = "message" =>
    \A j, k \in DOMAIN todo :
      todo[j] = todo[k] /\ writers[todo[j] + 1].kind = "NXevent_data" => j = k

Early == stage \in {"structure", "create", "build", "assign"}

Blank(w) == w.event_id = <<>> /\ w.event_time_offset = <<>>

BlankOK ==
  Early => (adding # None => Blank(adding)) /\ \A i \in DOMAIN writers : Blank(writers[i])

NumberedOK == \A p \in Partitions : \A i \in DOMAIN log[p] : log[p][i].id = <<p, i>>

Behind(id, place) ==
  id[1] \in DOMAIN place /\ place[id[1]] \in Nat /\ id[2] \in Nat /\ id[2] <= place[id[1]]

TakenOK ==
  stage = "poll" /\ phase # "failed" =>
    \A i \in DOMAIN writers : \A id \in Recorded(writers[i]) : Behind(id, position)

Before(w, p, n) == \A id \in Recorded(w) : id[1] = p => id[2] < n

HandedOK ==
  stage = "poll" /\ phase = "message" =>
    \E p \in DOMAIN position :
      /\ position[p] \in DOMAIN log[p] /\ msg = log[p][position[p]]
      /\ \A i \in DOMAIN writers :
           writers[i].kind = "NXevent_data" /\ (i - 1) \in Range(todo) =>
             Before(writers[i], p, position[p])

EventInv ==
  /\ StageInv /\ DeliveryInv
  /\ SingleOK /\ OnceOK /\ BlankOK /\ NumberedOK /\ TakenOK /\ HandedOK

LEMMA EventInit == TaskInit => EventInv
<1> SUFFICES ASSUME TaskInit PROVE EventInv
  OBVIOUS
<1>1. StageInv /\ DeliveryInv
  BY TaskInvInit, StageInit, DeliveryInit DEF StageInv, TaskInit
<1>2. SingleOK
  BY SubscriptionAssumption DEF TaskInit, FileInit, SingleOK
<1>3. OnceOK /\ BlankOK /\ TakenOK /\ HandedOK
  BY DEF TaskInit, FileInit, OnceOK, BlankOK, TakenOK, HandedOK
<1>4. NumberedOK
  <2>1. PICK h \in Histories : log = h.log
    BY DEF TaskInit
  <2>2. \A p \in Partitions : \A i \in DOMAIN h.log[p] : h.log[p][i].id = <<p, i>>
    BY TaskAssumption
  <2> QED BY <2>1, <2>2 DEF NumberedOK
<1> QED BY <1>1, <1>2, <1>3, <1>4 DEF EventInv

LEMMA SingleStep ==
  ASSUME RoutingInv, SingleOK, [FileNext]_fileVars
  PROVE  SingleOK'
<1>1. FileTypeOK /\ WriterAlwaysFound
  BY DEF RoutingInv
<1>2. CASE CreateWriter
  <2>1. /\ adding' = NewWriter(Head(specs), run) /\ specs' = Tail(specs) /\ writers' = writers
        /\ specs \in Seq(ModuleSpec) /\ specs # <<>>
    BY <1>1, <1>2 DEF CreateWriter, FileTypeOK
  <2>2. 1 \in DOMAIN specs /\ Head(specs) = specs[1]
    BY <2>1
  <2>3. \A i \in DOMAIN Tail(specs) : i + 1 \in DOMAIN specs /\ Tail(specs)[i] = specs[i + 1]
    BY <2>1
  <2>4. adding'.kind = specs[1].module /\ adding'.subscriptions = specs[1].subscriptions
    BY <2>1, <2>2 DEF NewWriter
  <2> QED BY <2>1, <2>2, <2>3, <2>4 DEF SingleOK
<1>3. CASE PushWriter
  <2>1. /\ writers' = Append(writers, adding) /\ adding # None /\ adding' = None
        /\ specs' = specs /\ writers \in Seq(PlacedWriter) /\ adding \in PlacedWriter
    BY <1>1, <1>3 DEF PushWriter, FileTypeOK
  <2>2. \A i \in DOMAIN writers' :
          (i \in DOMAIN writers /\ writers'[i] = writers[i]) \/ writers'[i] = adding
    BY <2>1
  <2> QED BY <2>1, <2>2 DEF SingleOK
<1>4. CASE NotifyWriter \/ StopWriter
  <2>1. PICK out : /\ \/ phase = "message" /\ Notify(Head(todo), out, FALSE)
                      \/ phase = "stop" /\ Notify(Head(todo), out, TRUE)
                   /\ SameWriter(writers[Head(todo) + 1], out.writer)
    BY <1>1, <1>4, LoopStep
  <2>2. UNCHANGED <<specs, adding>>
    BY <1>1, <1>4, LoopStep DEF placement
  <2>3. /\ Head(todo) + 1 \in DOMAIN writers /\ DOMAIN writers' = DOMAIN writers
        /\ writers'[Head(todo) + 1] = out.writer
        /\ \A i \in DOMAIN writers : i # Head(todo) + 1 => writers'[i] = writers[i]
    BY <1>1, <2>1, LoopUpdate
  <2> QED BY <2>1, <2>2, <2>3 DEF SingleOK, SameWriter
<1>5. CASE \/ PlacementFails \/ SubscribeWriter \/ FinishStructure
           \/ (\E m \in Message : HandleMessage(m)) \/ UNCHANGED fileVars
  <2>1. UNCHANGED <<specs, adding, writers>>
    BY <1>5 DEF PlacementFails, SubscribeWriter, FinishStructure, HandleMessage, IgnoreMessage,
                UnroutedMessage, StopWithoutWriters, BeginMessage, BeginRunStop, Begin,
                placement, fileVars
  <2> QED BY <2>1 DEF SingleOK
<1> QED BY <1>2, <1>3, <1>4, <1>5 DEF FileNext, Build

\* The list of the writers of a message has an event writer once.
LEMMA ListedOnce ==
  ASSUME DeliveryInv, SingleOK, NEW t \in Topics, NEW k \in Keys \cup {None},
         NEW i \in DOMAIN writers, writers[i].kind = "NXevent_data",
         NEW a \in DOMAIN WritersFor(router, t, k), WritersFor(router, t, k)[a] = i - 1,
         NEW b \in DOMAIN WritersFor(router, t, k), WritersFor(router, t, k)[b] = i - 1
  PROVE  a = b
<1> PICK id \in Nat : id = i - 1 /\ id \in 0..Len(writers) /\ id < Len(writers) /\ id + 1 = i
  BY DEF DeliveryInv, RoutingInv, FileTypeOK
<1>1. Cardinality(Deliveries(id, t, k)) = Cardinality(Registrations(id, t, k))
  BY DEF DeliveryInv, OncePerSubscription
<1>2. Registrations(id, t, k) \in {{}, {1}}
  <2>1. Registrations(id, t, k) =
          {j \in 1..Len(writers[i].subscriptions) : Matches(writers[i].subscriptions[j], t, k)}
    BY RegistrationsAre
  <2>2. Len(writers[i].subscriptions) = 1
    BY DEF SingleOK
  <2> QED BY <2>1, <2>2
<1>3. Deliveries(id, t, k) = Occurrences(WritersFor(router, t, k), id)
  BY DeliveriesAre
<1>4. IsFiniteSet(Deliveries(id, t, k))
  <2>1. WritersFor(router, t, k) \in Seq(Nat)
    BY RouteType DEF DeliveryInv, RoutingInv, FileTypeOK
  <2> QED BY <1>3, <2>1, CountType
<1>5. a \in Deliveries(id, t, k) /\ b \in Deliveries(id, t, k)
  BY DEF Deliveries
<1>6. CASE Registrations(id, t, k) = {}
  <2>1. Cardinality(Deliveries(id, t, k)) = 0
    BY <1>1, <1>6, FS_EmptySet
  <2> QED BY <1>4, <1>5, <2>1, FS_EmptySet
<1>7. CASE Registrations(id, t, k) = {1}
  <2>1. Cardinality({1}) = 1
    BY FS_Singleton
  <2>2. \E x : Deliveries(id, t, k) = {x}
    BY <1>1, <1>4, <1>7, <2>1, FS_Singleton
  <2> QED BY <1>5, <2>2
<1> QED BY <1>2, <1>6, <1>7

LEMMA OnceStep ==
  ASSUME AlignedInv, DeliveryInv, SingleOK, OnceOK, [FileNext]_fileVars
  PROVE  OnceOK'
<1> SUFFICES ASSUME phase' = "message", NEW j \in DOMAIN todo', NEW k \in DOMAIN todo',
                    todo'[j] = todo'[k], writers'[todo'[j] + 1].kind = "NXevent_data"
             PROVE  j = k
  BY DEF OnceOK
<1>1. FileTypeOK /\ WriterAlwaysFound
  BY DEF AlignedInv, RoutingInv
<1>2. CASE NotifyWriter \/ StopWriter
  <2>1. /\ todo' = Tail(todo) /\ todo \in Seq(Nat) /\ todo # <<>> /\ phase = "message"
        /\ DOMAIN writers' = DOMAIN writers
        /\ \A i \in DOMAIN writers : SameWriter(writers[i], writers'[i])
    BY <1>2, Visit
  <2>2. /\ j + 1 \in DOMAIN todo /\ todo'[j] = todo[j + 1]
        /\ k + 1 \in DOMAIN todo /\ todo'[k] = todo[k + 1] /\ j \in Nat /\ k \in Nat
    BY <2>1
  <2>3. todo[j + 1] + 1 \in DOMAIN writers
    BY <1>1, <2>1, <2>2 DEF WriterAlwaysFound, FileTypeOK
  <2>4. writers[todo[j + 1] + 1].kind = "NXevent_data"
    BY <2>1, <2>2, <2>3 DEF SameWriter
  <2>5. j + 1 = k + 1
    BY <2>1, <2>2, <2>4 DEF OnceOK
  <2> QED BY <2>2, <2>5
<1>3. ASSUME NEW m \in Message, BeginMessage(m) PROVE j = k
  <2>1. /\ todo' = WritersFor(router, m.topic, m.key) /\ writers' = writers
        /\ m.topic \in Topics /\ m.key \in Keys \cup {None}
    BY <1>3 DEF BeginMessage, Begin, Message
  <2>2. WritersFor(router, m.topic, m.key) \in Seq(Nat)
    BY <1>1, <2>1, RouteType DEF FileTypeOK
  <2>3. \A a \in DOMAIN WritersFor(router, m.topic, m.key) :
          WritersFor(router, m.topic, m.key)[a] < Len(writers)
    <3>1. FileTypeOK /\ RoutedAsSubscribed /\ phase = "ready" /\ adding = None
      BY <1>3 DEF AlignedInv, RoutingInv, FileTypeOK, BeginMessage, Begin
    <3> QED BY <2>1, <3>1, RoutedWithin
  <2> PICK i \in DOMAIN writers : i - 1 = todo'[j] /\ i = todo'[j] + 1
    <3>1. todo'[j] \in Nat /\ todo'[j] < Len(writers)
      BY <2>1, <2>2, <2>3
    <3> QED BY <1>1, <3>1 DEF FileTypeOK
  <2>4. writers[i].kind = "NXevent_data"
    BY <2>1
  <2> QED BY <2>1, <2>4, ListedOnce
<1>4. CASE \/ Build \/ UNCHANGED fileVars
           \/ \E m \in Message : \/ IgnoreMessage(m) \/ UnroutedMessage(m) \/ StopWithoutWriters(m)
                                 \/ BeginRunStop(m)
  <2>1. UNCHANGED <<todo, writers, phase>>
    BY <1>4 DEF Build, CreateWriter, PlacementFails, SubscribeWriter, PushWriter, FinishStructure,
                Fail, IgnoreMessage, UnroutedMessage, StopWithoutWriters, BeginRunStop, Begin,
                fileVars
  <2> QED BY <2>1 DEF OnceOK
<1> QED BY <1>2, <1>3, <1>4 DEF FileNext, HandleMessage

LEMMA BlankStep ==
  ASSUME StageInv, BlankOK, [TaskNext]_vars
  PROVE  BlankOK'
<1> SUFFICES ASSUME Early' PROVE BlankOK'
  BY DEF BlankOK
<1>1. FileTypeOK
  BY DEF StageInv, TaskInv, AlignedInv, RoutingInv
<1>2. CASE UNCHANGED <<adding, writers>> /\ Early
  BY <1>2 DEF BlankOK
<1>3. CASE \/ ResolveStructure \/ CreateFile \/ UNCHANGED vars
           \/ \E p \in Partitions : Publish(p) \/ ResolveEnd(p)
  <2>1. UNCHANGED <<adding, writers>> /\ Early
    BY <1>3 DEF ResolveStructure, CreateFile, Publish, ResolveEnd, Early, vars, taskVars, fileVars
  <2> QED BY <1>2, <2>1
<1>4. CASE BuildFile
  <2>1. Early
    BY <1>4 DEF BuildFile, Early
  <2>2. (adding # None => Blank(adding)) /\ \A i \in DOMAIN writers : Blank(writers[i])
    BY <2>1 DEF BlankOK
  <2>3. CASE CreateWriter
    BY <2>2, <2>3 DEF CreateWriter, NewWriter, Blank, BlankOK
  <2>4. CASE PushWriter
    <3>1. /\ writers' = Append(writers, adding) /\ adding # None /\ adding' = None
          /\ writers \in Seq(PlacedWriter) /\ adding \in PlacedWriter
      BY <1>1, <2>4 DEF PushWriter, FileTypeOK
    <3>2. \A i \in DOMAIN writers' :
            (i \in DOMAIN writers /\ writers'[i] = writers[i]) \/ writers'[i] = adding
      BY <3>1
    <3> QED BY <2>2, <3>1, <3>2 DEF BlankOK
  <2>5. CASE PlacementFails \/ SubscribeWriter \/ FinishStructure \/ UNCHANGED fileVars
    <3>1. UNCHANGED <<adding, writers>>
      BY <2>5 DEF PlacementFails, SubscribeWriter, FinishStructure, placement, fileVars
    <3> QED BY <1>2, <2>1, <3>1
  <2> QED BY <1>4, <2>3, <2>4, <2>5 DEF BuildFile, Build
<1>5. CASE \/ Assign \/ PassOn \/ LeaveLoop \/ Unassign \/ CloseFile
           \/ \E p \in Partitions : Poll(p)
  <2>1. CASE Assign
    BY <2>1 DEF Assign, AssignPartitions, Abandon, Early
  <2>2. CASE ~Assign
    BY <1>5, <2>2 DEF PassOn, LeaveLoop, Unassign, CloseFile, Poll, taskVars, Early
  <2> QED BY <2>1, <2>2
<1> QED BY <1>3, <1>4, <1>5 DEF TaskNext, TaskStep

\* The consumer only moves forward.
LEMMA BehindStill ==
  ASSUME ConsumerOK, LogOK, [TaskNext]_vars, stage = "poll", stage' = "poll",
         NEW id, Behind(id, position)
  PROVE  Behind(id, position')
<1>1. CASE UNCHANGED position
  BY <1>1
<1>2. CASE \/ ResolveStructure \/ CreateFile \/ BuildFile \/ Assign \/ Unassign \/ LeaveLoop
           \/ CloseFile
  BY <1>2 DEF ResolveStructure, CreateFile, BuildFile, Assign, Unassign, LeaveLoop, CloseFile
<1>3. CASE PassOn \/ UNCHANGED vars \/ \E p \in Partitions : Publish(p)
  BY <1>1, <1>3 DEF PassOn, Publish, taskVars, vars, consumer
<1>4. ASSUME NEW p \in Partitions, ResolveEnd(p) PROVE Behind(id, position')
  <2>1. /\ position' = [position EXCEPT ![p] = published[p]] /\ position[p] = AtEnd
        /\ AtEnd \notin Nat
    BY <1>4, TaskAssumption DEF ResolveEnd
  <2> QED BY <2>1 DEF Behind
<1>5. ASSUME NEW p \in Partitions, Poll(p) PROVE Behind(id, position')
  <2>1. position[p] \in Nat /\ p \in DOMAIN position
    BY <1>5, NextMessage DEF Poll
  <2>2. position' = [position EXCEPT ![p] = position[p] + 1]
    BY <1>5 DEF Poll
  <2> QED BY <2>1, <2>2 DEF Behind
<1> QED BY <1>2, <1>3, <1>4, <1>5 DEF TaskNext, TaskStep

\* What the visit of a writer adds to it
LEMMA VisitRecords ==
  ASSUME NEW w \in PlacedWriter, Aligned(w), NEW m \in Message, NEW out \in OnMessage(w, m),
         out.result = "Ok"
  PROVE  Recorded(out.writer) \subseteq Recorded(w) \cup {m.id}
<1>1. CASE w.kind = "NXevent_data"
  BY <1>1, OnMessageRows
<1>2. CASE w.kind # "NXevent_data"
  <2>1. out.writer = w
    BY <1>2 DEF OnMessage, Outcome
  <2> QED BY <2>1
<1> QED BY <1>1, <1>2

LEMMA TakenStep ==
  ASSUME EventInv, [TaskNext]_vars
  PROVE  TakenOK'
<1> SUFFICES ASSUME stage' = "poll", phase' # "failed",
                    NEW i \in DOMAIN writers', NEW id \in Recorded(writers'[i])
             PROVE  Behind(id, position')
  BY DEF TakenOK
<1>1. FileTypeOK /\ LogOK /\ ConsumerOK /\ AlignedInv
  BY TypeParts DEF EventInv, StageInv, TaskInv
<1>2. CASE Assign
  <2>1. stage = "assign" /\ UNCHANGED writers
    BY <1>2 DEF Assign, fileVars
  <2>2. Blank(writers[i])
    BY <2>1 DEF EventInv, BlankOK, Early
  <2>3. Recorded(writers[i]) = {}
    BY <2>2 DEF Recorded, Blank
  <2> QED BY <2>1, <2>3
<1>3. CASE stage = "poll" /\ phase # "failed" /\ i \in DOMAIN writers /\ id \in Recorded(writers[i])
  BY <1>1, <1>3, BehindStill DEF EventInv, TakenOK
<1>4. CASE PassOn
  <2>1. stage = "poll" /\ position' = position /\ (NotifyWriter \/ StopWriter)
    BY <1>4 DEF PassOn, taskVars
  <2>2. PICK out :
          /\ \/ phase = "message" /\ out \in OnMessage(writers[Head(todo) + 1], msg)
             \/ phase = "stop" /\ out \in OnRunStop(writers[Head(todo) + 1], msg)
          /\ out.result = "Ok" /\ msg \in Message
          /\ Head(todo) + 1 \in DOMAIN writers /\ DOMAIN writers' = DOMAIN writers
          /\ writers[Head(todo) + 1] \in PlacedWriter /\ Aligned(writers[Head(todo) + 1])
          /\ writers'[Head(todo) + 1] = out.writer
          /\ \A j \in DOMAIN writers : j # Head(todo) + 1 => writers'[j] = writers[j]
    BY <1>1, <2>1, Visit
  <2>3. CASE i # Head(todo) + 1
    <3>1. i \in DOMAIN writers /\ writers'[i] = writers[i] /\ phase # "failed"
      BY <2>2, <2>3
    <3> QED BY <1>3, <2>1, <3>1
  <2>4. CASE i = Head(todo) + 1 /\ phase = "stop"
    <3>1. Recorded(writers'[i]) = Recorded(writers[i])
      BY <2>2, <2>4, OnRunStopVisible
    <3> QED BY <1>3, <2>1, <2>2, <2>4, <3>1
  <2>5. CASE i = Head(todo) + 1 /\ phase = "message"
    <3>1. Recorded(writers'[i]) \subseteq Recorded(writers[i]) \cup {msg.id}
      BY <2>2, <2>5, VisitRecords
    <3>2. CASE id \in Recorded(writers[i])
      BY <1>3, <2>1, <2>2, <2>5, <3>2
    <3>3. CASE id = msg.id
      <4>1. PICK p \in DOMAIN position :
                   position[p] \in DOMAIN log[p] /\ msg = log[p][position[p]]
        BY <2>1, <2>5 DEF EventInv, HandedOK
      <4>2. p \in Partitions
        BY <1>1 DEF ConsumerOK
      <4>3. position[p] \in Nat /\ id = <<p, position[p]>>
        BY <1>1, <3>3, <4>1, <4>2 DEF LogOK, EventInv, NumberedOK
      <4> QED BY <2>1, <4>3 DEF Behind
    <3> QED BY <3>1, <3>2, <3>3
  <2> QED BY <2>2, <2>3, <2>4, <2>5
<1>5. CASE \/ UNCHANGED vars \/ \E p \in Partitions : Publish(p) \/ ResolveEnd(p)
  <2>1. UNCHANGED <<writers, phase, stage>>
    BY <1>5 DEF Publish, ResolveEnd, vars, taskVars, fileVars
  <2> QED BY <1>3, <2>1
<1>6. ASSUME NEW p \in Partitions, Poll(p) PROVE Behind(id, position')
  <2>1. writers' = writers /\ phase # "failed" /\ stage = "poll"
    BY <1>6 DEF Poll, HandleMessage, IgnoreMessage, UnroutedMessage, StopWithoutWriters,
                BeginMessage, BeginRunStop, Begin, fileVars
  <2> QED BY <1>3, <2>1
<1>7. CASE \/ ResolveStructure \/ CreateFile \/ BuildFile \/ LeaveLoop \/ Unassign \/ CloseFile
  BY <1>7 DEF ResolveStructure, CreateFile, BuildFile, LeaveLoop, Unassign, CloseFile, Return,
              Abandon
<1> QED BY <1>2, <1>4, <1>5, <1>6, <1>7 DEF TaskNext, TaskStep

LEMMA HandedStep ==
  ASSUME EventInv, [TaskNext]_vars
  PROVE  HandedOK'
<1> SUFFICES ASSUME stage' = "poll", phase' = "message" PROVE HandedOK'
  BY DEF HandedOK
<1>1. FileTypeOK /\ LogOK /\ ConsumerOK /\ AlignedInv /\ StageOK /\ log' = log
  BY TypeParts, LogStep DEF EventInv, StageInv, TaskInv
<1>2. CASE Assign
  <2>1. phase = "ready" /\ phase' = phase
    BY <1>1, <1>2 DEF Assign, StageOK, fileVars
  <2> QED BY <2>1
<1>3. ASSUME stage = "poll", UNCHANGED <<writers, phase, msg, todo>>,
             \A p \in DOMAIN position :
               position[p] \in Nat => p \in DOMAIN position' /\ position'[p] = position[p]
      PROVE  HandedOK'
  <2>1. PICK p \in DOMAIN position :
          /\ position[p] \in DOMAIN log[p] /\ msg = log[p][position[p]]
          /\ \A i \in DOMAIN writers :
               writers[i].kind = "NXevent_data" /\ (i - 1) \in Range(todo) =>
                 Before(writers[i], p, position[p])
    BY <1>3 DEF EventInv, HandedOK
  <2>2. position[p] \in Nat
    BY <1>1, <2>1 DEF ConsumerOK, LogOK
  <2>3. p \in DOMAIN position' /\ position'[p] = position[p]
    BY <1>3, <2>2
  <2> QED BY <1>1, <1>3, <2>1, <2>3 DEF HandedOK, Before, Recorded
<1>4. CASE UNCHANGED vars \/ \E p \in Partitions : Publish(p)
  <2>1. UNCHANGED <<writers, phase, msg, todo, position, stage>>
    BY <1>4 DEF Publish, vars, taskVars, fileVars, consumer
  <2> QED BY <1>3, <2>1
<1>5. ASSUME NEW p \in Partitions, ResolveEnd(p) PROVE HandedOK'
  <2>1. /\ position' = [position EXCEPT ![p] = published[p]] /\ position[p] = AtEnd
        /\ AtEnd \notin Nat /\ UNCHANGED <<writers, phase, msg, todo, stage>>
    BY <1>5, TaskAssumption DEF ResolveEnd, fileVars
  <2>2. \A q \in DOMAIN position :
          position[q] \in Nat => q \in DOMAIN position' /\ position'[q] = position[q]
    BY <2>1
  <2> QED BY <1>3, <2>1, <2>2
<1>6. ASSUME NEW p \in Partitions, Poll(p) PROVE HandedOK'
  <2> PICK n \in Nat : n = position[p] + 1
    BY <1>1, <1>6, NextMessage DEF Poll
  <2>1. /\ position[p] \in Nat /\ p \in DOMAIN position /\ n \in DOMAIN log[p]
        /\ position' = [position EXCEPT ![p] = n] /\ HandleMessage(log[p][n])
        /\ stage = "poll" /\ phase # "failed"
    BY <1>1, <1>6, NextMessage DEF Poll
  <2>2. writers' = writers /\ msg' = log[p][n]
    BY <2>1 DEF HandleMessage, IgnoreMessage, UnroutedMessage, StopWithoutWriters,
                BeginMessage, BeginRunStop, Begin, fileVars
  <2>3. p \in DOMAIN position' /\ position'[p] = n
    BY <2>1
  <2>4. ASSUME NEW i \in DOMAIN writers PROVE Before(writers[i], p, n)
    <3> SUFFICES ASSUME NEW id \in Recorded(writers[i]), id[1] = p PROVE id[2] < n
      BY DEF Before
    <3>1. Behind(id, position)
      BY <2>1 DEF EventInv, TakenOK
    <3> QED BY <2>1, <3>1 DEF Behind
  <2> QED BY <1>1, <2>1, <2>2, <2>3, <2>4 DEF HandedOK, Before, Recorded
<1>7. CASE PassOn
  <2>1. stage = "poll" /\ UNCHANGED <<position, log>> /\ (NotifyWriter \/ StopWriter)
    BY <1>7 DEF PassOn, taskVars
  <2>2. /\ phase = "message" /\ todo' = Tail(todo) /\ todo \in Seq(Nat) /\ todo # <<>>
        /\ msg' = msg /\ DOMAIN writers' = DOMAIN writers
        /\ Head(todo) + 1 \in DOMAIN writers
        /\ \A i \in DOMAIN writers : i # Head(todo) + 1 => writers'[i] = writers[i]
        /\ \A i \in DOMAIN writers : SameWriter(writers[i], writers'[i])
    BY <1>1, <2>1, Visit
  <2>3. PICK p \in DOMAIN position :
          /\ position[p] \in DOMAIN log[p] /\ msg = log[p][position[p]]
          /\ \A i \in DOMAIN writers :
               writers[i].kind = "NXevent_data" /\ (i - 1) \in Range(todo) =>
                 Before(writers[i], p, position[p])
    BY <2>1, <2>2 DEF EventInv, HandedOK
  <2>4. ASSUME NEW i \in DOMAIN writers, writers'[i].kind = "NXevent_data",
               (i - 1) \in Range(Tail(todo))
        PROVE  Before(writers'[i], p, position[p])
    <3>1. writers[i].kind = "NXevent_data"
      BY <2>2, <2>4 DEF SameWriter
    <3>2. PICK j \in DOMAIN Tail(todo) : i - 1 = Tail(todo)[j]
      BY <2>4 DEF Range
    <3>3. /\ j \in Nat /\ j > 0 /\ j + 1 \in DOMAIN todo /\ todo[j + 1] = i - 1
          /\ 1 \in DOMAIN todo /\ Head(todo) = todo[1]
      BY <2>2, <3>2
    <3>4. i \in Nat
      BY <1>1 DEF FileTypeOK
    <3>5. i # Head(todo) + 1
      <4> SUFFICES ASSUME i = Head(todo) + 1 PROVE FALSE
        OBVIOUS
      <4>1. Head(todo) \in Nat
        BY <2>2
      <4>2. todo[1] = todo[j + 1] /\ todo[1] + 1 = i
        BY <3>3, <3>4, <4>1
      <4>3. 1 = j + 1
        BY <2>2, <3>1, <3>3, <4>2 DEF EventInv, OnceOK
      <4> QED BY <3>3, <4>3
    <3>6. (i - 1) \in Range(todo)
      BY <3>3 DEF Range
    <3> QED BY <2>2, <2>3, <3>1, <3>5, <3>6
  <2> QED BY <2>1, <2>2, <2>3, <2>4 DEF HandedOK, Before, Recorded
<1>8. CASE \/ ResolveStructure \/ CreateFile \/ BuildFile \/ LeaveLoop \/ Unassign \/ CloseFile
  BY <1>8 DEF ResolveStructure, CreateFile, BuildFile, LeaveLoop, Unassign, CloseFile, Return,
              Abandon
<1> QED BY <1>2, <1>4, <1>5, <1>6, <1>7, <1>8 DEF TaskNext, TaskStep

LEMMA EventStep == EventInv /\ [TaskNext]_vars => EventInv'
<1> SUFFICES ASSUME EventInv, [TaskNext]_vars PROVE EventInv'
  OBVIOUS
<1>1. /\ FileTypeOK /\ LogOK /\ ConsumerOK /\ OutcomeOK /\ StageOK
      /\ TaskInv /\ AlignedInv /\ RoutingInv /\ StageInv /\ DeliveryInv /\ SingleOK /\ OnceOK
  BY TypeParts DEF EventInv, StageInv, TaskInv, AlignedInv
<1>2. [FileNext]_fileVars /\ log' = log
  BY <1>1, FileStep, LogStep
<1>3. StageInv' /\ DeliveryInv'
  BY <1>1, <1>2, TaskInvStep, StageStep, DeliveryStep DEF StageInv
<1>4. SingleOK' /\ OnceOK'
  BY <1>1, <1>2, SingleStep, OnceStep
<1>5. BlankOK'
  BY <1>1, BlankStep DEF EventInv
<1>6. NumberedOK'
  BY <1>2 DEF EventInv, NumberedOK
<1> QED BY <1>3, <1>4, <1>5, <1>6, TakenStep, HandedStep DEF EventInv

-----------------------------------------------------------------------------
(***************************************************************************)
(* The refinement.  The variables of EventFile, as IsEventFile has them:   *)
(***************************************************************************)
theEvents == [p \in Partitions |-> [i \in DOMAIN log[p] |-> EventsIn(log[p][i])]]
theRows   == [i \in DOMAIN writers |-> Visible(writers[i])]

LEMMA EventsType == LogOK => theEvents \in [Partitions -> Seq(Nat)]
<1> SUFFICES ASSUME LogOK, NEW p \in Partitions
             PROVE  [i \in DOMAIN log[p] |-> EventsIn(log[p][i])] \in Seq(Nat)
  BY DEF theEvents
<1>1. /\ log[p] \in Seq(Message) /\ Len(log[p]) \in Nat /\ DOMAIN log[p] = 1..Len(log[p])
      /\ \A i \in DOMAIN log[p] : log[p][i] \in Message
  BY DEF LogOK
<1>2. \A i \in DOMAIN log[p] : EventsIn(log[p][i]) \in Nat
  BY <1>1 DEF EventsIn, Message
<1>3. [i \in DOMAIN log[p] |-> EventsIn(log[p][i])] \in [1..Len(log[p]) -> Nat]
  BY <1>1, <1>2
<1> QED BY <1>1, <1>3

\* A visit of a writer shows it the whole of a message that it has not yet, or nothing.
LEMMA TakesOrNot ==
  ASSUME EventInv, PassOn
  PROVE  EF!Next \/ UNCHANGED <<theEvents, file, theRows>>
<1>1. /\ FileTypeOK /\ WriterAlwaysFound /\ ColumnsAligned /\ LogOK /\ ConsumerOK /\ StageOK
      /\ HandedOK /\ NumberedOK
  BY TypeParts DEF EventInv, StageInv, TaskInv, AlignedInv, RoutingInv
<1>2. /\ stage = "poll" /\ UNCHANGED <<file, log>> /\ theEvents' = theEvents /\ file = "open"
      /\ (NotifyWriter \/ StopWriter)
  BY <1>1 DEF PassOn, taskVars, theEvents, StageOK
<1>3. PICK out :
        /\ \/ phase = "message" /\ out \in OnMessage(writers[Head(todo) + 1], msg)
              /\ Notify(Head(todo), out, FALSE)
           \/ phase = "stop" /\ out \in OnRunStop(writers[Head(todo) + 1], msg)
              /\ Notify(Head(todo), out, TRUE)
  BY <1>1, <1>2, LoopStep
<1>4. /\ Head(todo) + 1 \in DOMAIN writers
      /\ DOMAIN writers' = DOMAIN writers
      /\ writers'[Head(todo) + 1] = out.writer
      /\ \A i \in DOMAIN writers : i # Head(todo) + 1 => writers'[i] = writers[i]
  BY <1>1, <1>3, LoopUpdate
<1> PICK v \in DOMAIN writers : v = Head(todo) + 1
  BY <1>4
<1>5. writers[v] \in PlacedWriter /\ Aligned(writers[v]) /\ msg \in Message
      /\ Head(todo) \in Nat /\ Head(todo) \in Range(todo)
  <2>1. phase \in {"message", "stop"} /\ phase # "failed"
    BY <1>3
  <2>2. /\ writers \in Seq(PlacedWriter) /\ msg \in Message /\ todo \in Seq(Nat) /\ todo # <<>>
    BY <1>1, <2>1 DEF FileTypeOK
  <2>3. 1 \in DOMAIN todo /\ Head(todo) = todo[1] /\ Head(todo) \in Nat
    BY <2>2
  <2>4. writers[v] \in PlacedWriter /\ Aligned(writers[v])
    BY <1>1, <2>1, <2>2 DEF ColumnsAligned
  <2> QED BY <2>2, <2>3, <2>4 DEF Range
<1>6. theRows' = [theRows EXCEPT ![v] = Visible(out.writer)] /\ theRows[v] = Visible(writers[v])
  BY <1>4 DEF theRows
<1>7. CASE Visible(out.writer) = Visible(writers[v])
  <2>1. theRows' = theRows
    BY <1>6, <1>7 DEF theRows
  <2> QED BY <1>2, <2>1
<1>8. CASE Visible(out.writer) # Visible(writers[v])
  <2>1. phase = "message" /\ out \in OnMessage(writers[v], msg)
    BY <1>3, <1>5, <1>8, OnRunStopVisible
  <2>2. /\ writers[v].kind = "NXevent_data" /\ ValidEvents(msg)
        /\ Visible(out.writer) = Visible(writers[v]) \o Rows(msg.id, msg.pixel_id)
    BY <1>5, <1>8, <2>1, OnMessageVisible
  <2>3. PICK p \in DOMAIN position :
          /\ position[p] \in DOMAIN log[p] /\ msg = log[p][position[p]]
          /\ \A i \in DOMAIN writers :
               writers[i].kind = "NXevent_data" /\ (i - 1) \in Range(todo) =>
                 Before(writers[i], p, position[p])
    BY <1>1, <1>2, <2>1 DEF HandedOK
  <2> PICK n : n = position[p]
    OBVIOUS
  <2>4. /\ p \in Partitions /\ n \in DOMAIN theEvents[p] /\ msg.id = <<p, n>>
        /\ theEvents[p][n] = msg.pixel_id
    <3>1. p \in Partitions
      BY <1>1 DEF ConsumerOK
    <3>2. msg.id = <<p, n>> /\ msg.pixel_id # None
      BY <1>1, <2>2, <2>3, <3>1 DEF NumberedOK, ValidEvents
    <3> QED BY <2>3, <3>1, <3>2 DEF theEvents, EventsIn
  <2>5. EF!Batch(p, n) = Rows(msg.id, msg.pixel_id)
    BY <2>4 DEF EF!Batch, theEvents, Rows
  <2>6. Before(writers[v], p, n)
    <3>1. v - 1 = Head(todo)
      BY <1>5
    <3> QED BY <1>5, <2>2, <2>3, <3>1
  <2>7. EF!After(p, n, theRows[v])
    <3>1. theRows[v] = writers[v].event_id
      BY <1>5, <1>6, VisibleAligned
    <3>2. \A k \in DOMAIN writers[v].event_id : writers[v].event_id[k][1] \in Recorded(writers[v])
      BY DEF Recorded
    <3> QED BY <2>6, <3>1, <3>2 DEF EF!After, Before
  <2>8. theRows' = [theRows EXCEPT ![v] = theRows[v] \o EF!Batch(p, n)]
    BY <1>6, <2>2, <2>5
  <2>9. v \in DOMAIN theRows
    BY DEF theRows
  <2>10. EF!Take(v, p, n)
    BY <1>2, <2>7, <2>8, <2>9 DEF EF!Take, theRows, theEvents
  <2> QED BY <2>4, <2>9, <2>10 DEF EF!Next, theRows, theEvents
<1> QED BY <1>7, <1>8

LEMMA EventFileStep ==
  ASSUME EventInv, [TaskNext]_vars
  PROVE  EF!Next \/ UNCHANGED <<theEvents, file, theRows>>
<1>1. FileTypeOK /\ LogOK /\ ConsumerOK /\ StageOK /\ log' = log
  BY TypeParts, LogStep DEF EventInv, StageInv, TaskInv
<1>2. theEvents' = theEvents
  BY <1>1 DEF theEvents
<1>3. CASE UNCHANGED <<file, writers>>
  <2>1. theRows' = theRows
    BY <1>3 DEF theRows
  <2> QED BY <1>2, <1>3, <2>1
<1>4. CASE \/ ResolveStructure \/ Assign \/ LeaveLoop \/ Unassign \/ UNCHANGED vars
           \/ \E p \in Partitions : Publish(p) \/ ResolveEnd(p)
  <2>1. UNCHANGED <<file, writers>>
    BY <1>4 DEF ResolveStructure, Assign, LeaveLoop, Unassign, Publish, ResolveEnd, vars,
                taskVars, fileVars
  <2> QED BY <1>3, <2>1
<1>5. ASSUME NEW p \in Partitions, Poll(p) PROVE UNCHANGED <<file, writers>>
  BY <1>5 DEF Poll, HandleMessage, IgnoreMessage, UnroutedMessage, StopWithoutWriters,
              BeginMessage, BeginRunStop, Begin, fileVars
<1>6. CASE PassOn
  BY <1>6, TakesOrNot
<1>7. CASE CreateFile
  <2>1. /\ stage = "create" /\ file = "absent" /\ writers' = writers /\ theRows' = theRows
        /\ file' = "open" \/ file' = file
    BY <1>1, <1>7 DEF CreateFile, StageOK, fileVars, theRows
  <2> QED BY <1>2, <2>1 DEF EF!Next, EF!Open, theRows, theEvents
<1>8. CASE CloseFile
  <2>1. file = "open" /\ file' = "closed" /\ theRows' = theRows
    BY <1>1, <1>8 DEF CloseFile, StageOK, fileVars, theRows
  <2> QED BY <1>2, <2>1 DEF EF!Next, EF!Close, theRows, theEvents
<1>9. CASE BuildFile
  <2>1. stage = "build" /\ file = "open" /\ file' = file
    BY <1>1, <1>9 DEF BuildFile, StageOK
  <2>2. CASE PushWriter
    <3>1. /\ writers' = Append(writers, adding) /\ writers \in Seq(PlacedWriter)
          /\ adding # None /\ adding \in PlacedWriter
      BY <1>1, <2>2 DEF PushWriter, FileTypeOK
    <3>2. Blank(adding) /\ \A i \in DOMAIN writers : Blank(writers[i])
      BY <2>1, <3>1 DEF EventInv, BlankOK, Early
    <3>3. \A w : Blank(w) => Visible(w) = <<>>
      BY DEF Blank, Visible
    <3>4. \A i \in DOMAIN theRows : theRows[i] = <<>>
      BY <3>2, <3>3 DEF theRows
    <3>5. theRows' = Append(theRows, <<>>)
      <4> PICK n \in Nat : n = Len(writers)
        BY <3>1
      <4>1. DOMAIN writers = 1..n /\ DOMAIN writers' = 1..(n + 1) /\ writers'[n + 1] = adding
            /\ \A i \in 1..n : writers'[i] = writers[i]
        BY <3>1
      <4>2. theRows = [i \in 1..n |-> Visible(writers[i])]
            /\ theRows' = [i \in 1..(n + 1) |-> Visible(writers'[i])]
        BY <4>1 DEF theRows
      <4>3. \A i \in 1..n : Visible(writers[i]) = <<>> /\ Visible(writers'[i]) = <<>>
        BY <3>2, <3>3, <4>1
      <4>4. Visible(writers'[n + 1]) = <<>>
        BY <3>2, <3>3, <4>1
      <4>5. theRows = [i \in 1..n |-> <<>>]
        BY <4>2, <4>3
      <4>6. theRows' = [i \in 1..(n + 1) |-> <<>>]
        <5>1. \A i \in 1..(n + 1) : i \in 1..n \/ i = n + 1
          OBVIOUS
        <5>2. \A i \in 1..(n + 1) : Visible(writers'[i]) = <<>>
          BY <4>3, <4>4, <5>1
        <5> QED BY <4>2, <5>2
      <4> QED BY <4>5, <4>6
    <3>6. EF!AddWriter
      BY <1>2, <2>1, <3>4, <3>5 DEF EF!AddWriter, theRows, theEvents
    <3> QED BY <3>6 DEF EF!Next
  <2>3. CASE ~PushWriter
    <3>1. writers' = writers
      BY <1>9, <2>3 DEF BuildFile, Build, CreateWriter, PlacementFails, SubscribeWriter,
                        FinishStructure, fileVars
    <3> QED BY <1>3, <2>1, <3>1
  <2> QED BY <2>2, <2>3
<1> QED BY <1>3, <1>4, <1>5, <1>6, <1>7, <1>8, <1>9 DEF TaskNext, TaskStep

(***************************************************************************)
(* The task implements EventFile: for any partitions, histories and        *)
(* failures every event writer of nxevent_data.rs takes a message whole,   *)
(* at most once and in the order of its partition, and the closed file     *)
(* changes no more.                                                        *)
(***************************************************************************)
THEOREM KeepsEvents == TaskSpec => IsEventFile
<1>1. TaskInit => EF!Init
  <2> SUFFICES ASSUME TaskInit PROVE EF!Init
    OBVIOUS
  <2>1. LogOK /\ file = "absent" /\ writers = <<>>
    BY LogInit DEF TaskInit, FileInit
  <2>2. theEvents \in [Partitions -> Seq(Nat)] /\ theRows = <<>>
    BY <2>1, EventsType DEF theRows
  <2> QED BY <2>1, <2>2 DEF EF!Init, theEvents, theRows
<1>2. EventInv /\ [TaskNext]_vars => [EF!Next]_<<theEvents, file, theRows>>
  BY EventFileStep
<1> QED BY <1>1, <1>2, EventInit, EventStep, PTL
    DEF TaskSpec, IsEventFile, EF!Spec, theEvents, theRows
=============================================================================
