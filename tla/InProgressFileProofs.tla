------------------------ MODULE InProgressFileProofs -----------------------
(***************************************************************************)
(* Proofs about a file being written, for every structure, run start and   *)
(* message: the router routes as subscribed, and the columns of a file     *)
(* whose calls have not failed are aligned.                                *)
(***************************************************************************)
EXTENDS InProgressFile, MessageRouterProofs, FunctionTheorems, SequenceTheorems

-----------------------------------------------------------------------------
(***************************************************************************)
(* The datasets of a writer.                                               *)
(***************************************************************************)
LEMMA ResizeType ==
  ASSUME NEW col \in Seq(Cells), NEW n \in Nat
  PROVE  Resize(col, n) \in Seq(Cells) /\ Len(Resize(col, n)) = n
<1>1. \A i \in 1..n : (IF i <= Len(col) THEN col[i] ELSE Fill) \in Cells
  BY DEF Cells
<1>2. Resize(col, n) \in [1..n -> Cells]
  BY <1>1 DEF Resize
<1> QED
  BY <1>2

LEMMA RowsType ==
  ASSUME NEW id \in MessageIds, NEW n \in Nat
  PROVE  Rows(id, n) \in Seq(MessageIds \X Nat) /\ Len(Rows(id, n)) = n
<1>1. Rows(id, n) \in [1..n -> MessageIds \X Nat]
  BY DEF Rows
<1> QED
  BY <1>1

LEMMA WriteSliceType ==
  ASSUME NEW col \in Seq(Cells), NEW from \in Nat, NEW cells \in Seq(Cells),
         Len(col) = from + Len(cells)
  PROVE  WriteSlice(col, from, cells) \in Seq(Cells)
<1>1. \A i \in 1..Len(col) : (IF i <= from THEN col[i] ELSE cells[i - from]) \in Cells
  OBVIOUS
<1>2. WriteSlice(col, from, cells) \in [1..Len(col) -> Cells]
  BY <1>1 DEF WriteSlice
<1> QED
  BY <1>2

LEMMA ExtendedType ==
  ASSUME NEW col \in Seq(Cells), NEW n \in Nat, NEW id \in MessageIds, NEW k \in Nat
  PROVE  /\ Resize(col, n + k) \in Seq(Cells)
         /\ WriteSlice(Resize(col, n + k), n, Rows(id, k)) \in Seq(Cells)
<1>1. Rows(id, k) \in Seq(Cells) /\ Len(Rows(id, k)) = k
  BY RowsType DEF Cells
<1>2. Resize(col, n + k) \in Seq(Cells) /\ Len(Resize(col, n + k)) = n + k
  BY ResizeType
<1> QED
  BY <1>1, <1>2, WriteSliceType

LEMMA ExtendedWritten ==
  ASSUME NEW col \in Seq(Cells), Written(col), NEW id \in MessageIds, NEW k \in Nat
  PROVE  Written(WriteSlice(Resize(col, Len(col) + k), Len(col), Rows(id, k)))
<1> DEFINE big == Resize(col, Len(col) + k)
           new == WriteSlice(big, Len(col), Rows(id, k))
<1>1. Len(big) = Len(col) + k /\ big \in Seq(Cells)
  BY ResizeType
<1>2. DOMAIN new = 1..(Len(col) + k)
  BY <1>1 DEF WriteSlice
<1>3. ASSUME NEW i \in 1..(Len(col) + k)
      PROVE  new[i] # Fill
  <2>1. CASE i <= Len(col)
    <3>1. new[i] = big[i]
      BY <1>1, <2>1 DEF WriteSlice
    <3>2. big[i] = col[i] /\ i \in DOMAIN col
      BY <2>1 DEF Resize
    <3> QED
      BY <3>1, <3>2 DEF Written
  <2>2. CASE i > Len(col)
    <3>1. i - Len(col) \in 1..k
      BY <2>2
    <3>2. new[i] = Rows(id, k)[i - Len(col)]
      BY <1>1, <2>2 DEF WriteSlice
    <3>3. Rows(id, k)[i - Len(col)] \in MessageIds \X Nat
      BY <3>1 DEF Rows
    <3> QED
      BY <3>2, <3>3, WriterAssumption
  <2> QED
    BY <2>1, <2>2
<1> QED
  BY <1>2, <1>3 DEF Written

-----------------------------------------------------------------------------
(***************************************************************************)
(* A message changes what a writer has seen and written, a run stop when   *)
(* it stops, and neither changes anything else.                            *)
(***************************************************************************)
SameWriter(w, v) ==
  /\ v \in PlacedWriter
  /\ v.kind = w.kind /\ v.subscriptions = w.subscriptions
  /\ v.run_start_time_ms = w.run_start_time_ms

LEMMA NewWriterType ==
  ASSUME NEW spec \in ModuleSpec, NEW r \in RunStart
  PROVE  /\ NewWriter(spec, r) \in PlacedWriter
         /\ Aligned(NewWriter(spec, r))
         /\ NewWriter(spec, r).run_stop_time_ms = r.stop_time_ms
BY DEF NewWriter, ModuleSpec, RunStart, PlacedWriter, Aligned, Written

LEMMA WritePulseType ==
  ASSUME NEW w \in PlacedWriter, NEW id \in MessageIds, NEW out \in WritePulse(w, id)
  PROVE  /\ SameWriter(w, out.writer) /\ out.result \in {"Ok", "Err"}
         /\ out.writer.run_stop_time_ms = w.run_stop_time_ms
         /\ out.writer.event_id = w.event_id
         /\ out.result = "Ok" /\ Aligned(w) => Aligned(out.writer)
<1> DEFINE n       == Len(w.event_time_zero)
           resized == [w EXCEPT !.event_time_zero = Resize(@, n + 1)]
           written == [resized EXCEPT !.event_time_zero = WriteSlice(@, n, Rows(id, 1))]
           col     == WriteSlice(Resize(w.event_time_zero, n + 1), n, Rows(id, 1))
<1>1. n \in Nat /\ w.event_time_zero \in Seq(Cells)
  BY DEF PlacedWriter
<1>2. Resize(w.event_time_zero, n + 1) \in Seq(Cells) /\ col \in Seq(Cells)
  BY <1>1, ExtendedType
<1>3. Written(w.event_time_zero) => Written(col)
  BY <1>1, ExtendedWritten
<1> HIDE DEF n
<1>4. resized = [w EXCEPT !.event_time_zero = Resize(w.event_time_zero, n + 1)]
      /\ written = [w EXCEPT !.event_time_zero = col]
  BY DEF PlacedWriter
<1> HIDE DEF resized, written, col
<1>5. SameWriter(w, w) /\ SameWriter(w, resized) /\ SameWriter(w, written)
      /\ resized.run_stop_time_ms = w.run_stop_time_ms
      /\ written.run_stop_time_ms = w.run_stop_time_ms
      /\ resized.event_id = w.event_id /\ written.event_id = w.event_id
  BY <1>2, <1>4 DEF SameWriter, PlacedWriter
<1>6. Aligned(w) => Aligned(written)
  BY <1>3, <1>4 DEF Aligned, PlacedWriter
<1>7. out \in Broken(w) \cup Broken(resized) \cup {Outcome(written, "Ok")}
  BY DEF WritePulse, n, resized, written
<1>8. \A v : out \in Broken(v) => out.writer = v /\ out.result = "Err"
  BY DEF Broken, Outcome
<1>9. out = Outcome(written, "Ok") => out.writer = written /\ out.result = "Ok"
  BY DEF Outcome
<1> QED
  BY <1>5, <1>6, <1>7, <1>8, <1>9

LEMMA WriteEventsType ==
  ASSUME NEW w \in PlacedWriter, NEW m \in Message, NEW out \in WriteEvents(w, m)
  PROVE  /\ SameWriter(w, out.writer) /\ out.result \in {"Ok", "Err"}
         /\ out.writer.run_stop_time_ms = w.run_stop_time_ms
         /\ out.result = "Ok" /\ Aligned(w) => Aligned(out.writer)
<1>1. CASE ~ValidEvents(m)
  <2>1. out = Outcome(w, "Ok")
    BY <1>1 DEF WriteEvents
  <2> QED
    BY <2>1 DEF Outcome, SameWriter
<1>2. CASE ValidEvents(m)
  <2> DEFINE n    == Len(w.event_time_offset)
             k    == m.pixel_id
             cols(c) == WriteSlice(Resize(c, n + k), n, Rows(m.id, k))
             ids  == [w EXCEPT !.event_id = Resize(@, n + k)]
             two  == [ids EXCEPT !.event_time_offset = Resize(@, n + k)]
             idw  == [two EXCEPT !.event_id = WriteSlice(@, n, Rows(m.id, k))]
             all  == [idw EXCEPT !.event_time_offset = WriteSlice(@, n, Rows(m.id, k))]
  <2>1. n \in Nat /\ k \in Nat /\ k = m.time_of_flight /\ m.id \in MessageIds
        /\ w.event_id \in Seq(Cells) /\ w.event_time_offset \in Seq(Cells)
    BY <1>2 DEF PlacedWriter, ValidEvents, Message
  <2>2. Resize(w.event_id, n + k) \in Seq(Cells) /\ cols(w.event_id) \in Seq(Cells)
    BY <2>1, ExtendedType
  <2>3. Resize(w.event_time_offset, n + k) \in Seq(Cells) /\ cols(w.event_time_offset) \in Seq(Cells)
    BY <2>1, ExtendedType
  <2>4. Written(w.event_time_offset) => Written(cols(w.event_time_offset))
    BY <2>1, ExtendedWritten
  <2>5. out \in UNION {Broken(w), Broken(ids), Broken(two), Broken(idw), {Outcome(all, "Ok")}}
    BY <1>2, <2>1 DEF WriteEvents
  <2> HIDE DEF n, k
  <2>6. /\ ids = [w EXCEPT !.event_id = Resize(w.event_id, n + k)]
        /\ two = [w EXCEPT !.event_id = Resize(w.event_id, n + k),
                           !.event_time_offset = Resize(w.event_time_offset, n + k)]
        /\ idw = [w EXCEPT !.event_id = cols(w.event_id),
                           !.event_time_offset = Resize(w.event_time_offset, n + k)]
        /\ all = [w EXCEPT !.event_id = cols(w.event_id),
                           !.event_time_offset = cols(w.event_time_offset)]
    BY DEF PlacedWriter
  <2> HIDE DEF cols, ids, two, idw, all
  <2>7. SameWriter(w, ids) /\ SameWriter(w, two) /\ SameWriter(w, idw) /\ SameWriter(w, all)
        /\ SameWriter(w, w)
    BY <2>2, <2>3, <2>6 DEF SameWriter, PlacedWriter
  <2>8. \A v \in {ids, two, idw, all} : v.run_stop_time_ms = w.run_stop_time_ms
    BY <2>6 DEF PlacedWriter
  <2>9. Aligned(w) => Aligned(all)
    BY <2>4, <2>6 DEF Aligned, PlacedWriter
  <2>10. \A v : out \in Broken(v) => out.writer = v /\ out.result = "Err"
    BY DEF Broken, Outcome
  <2>11. out = Outcome(all, "Ok") => out.writer = all /\ out.result = "Ok"
    BY DEF Outcome
  <2> QED
    BY <2>5, <2>7, <2>8, <2>9, <2>10, <2>11
<1> QED
  BY <1>1, <1>2

LEMMA OnMessageType ==
  ASSUME NEW w \in PlacedWriter, NEW m \in Message, NEW out \in OnMessage(w, m)
  PROVE  /\ SameWriter(w, out.writer) /\ out.result \in {"Ok", "Err"}
         /\ out.writer.run_stop_time_ms = w.run_stop_time_ms
         /\ out.result = "Ok" /\ Aligned(w) => Aligned(out.writer)
<1> DEFINE Kept(v, o) == /\ SameWriter(v, o.writer) /\ o.result \in {"Ok", "Err"}
                         /\ o.writer.run_stop_time_ms = v.run_stop_time_ms
                         /\ o.result = "Ok" /\ Aligned(v) => Aligned(o.writer)
<1>1. ASSUME NEW v \in PlacedWriter, NEW res \in {"Ok", "Err"}
      PROVE  Kept(v, Outcome(v, res))
  BY DEF Outcome, SameWriter
<1>2. ASSUME NEW v \in PlacedWriter, NEW o \in WriteData(v, m)
      PROVE  Kept(v, o)
  <2>1. CASE m.schema = "pu00"
    <3>1. o \in WritePulse(v, m.id) /\ m.id \in MessageIds
      BY <2>1 DEF WriteData, Message
    <3> QED BY <3>1, WritePulseType
  <2>2. CASE m.schema = "ev44"
    <3>1. o \in WriteEvents(v, m)
      BY <2>2 DEF WriteData
    <3> QED BY <3>1, WriteEventsType
  <2>3. CASE m.schema \notin {"pu00", "ev44"}
    <3>1. o = Outcome(v, "Ok")
      BY <2>3 DEF WriteData
    <3> QED BY <3>1, <1>1
  <2> QED BY <2>1, <2>2, <2>3
<1>3. CASE w.kind = "NXevent_data"
  <2> DEFINE seen == [w EXCEPT !.latest_message_time_ms = m.timestamp]
  <2>1. out \in NXeventdataOnMessage(w, m)
    BY <1>3 DEF OnMessage
  <2>2. CASE m.timestamp = None
    <3>1. out \in WriteData(w, m)
      BY <2>1, <2>2 DEF NXeventdataOnMessage
    <3> QED BY <3>1, <1>2
  <2>3. CASE m.timestamp # None /\ m.timestamp < 0
    <3>1. out = Outcome(w, "Err")
      BY <2>1, <2>3 DEF NXeventdataOnMessage
    <3> QED BY <3>1, <1>1
  <2>4. CASE m.timestamp # None /\ ~(m.timestamp < 0)
    <3>1. m.timestamp \in Nat
      BY <2>4 DEF Message
    <3>2. /\ seen \in PlacedWriter /\ SameWriter(w, seen)
          /\ seen.run_stop_time_ms = w.run_stop_time_ms
          /\ Aligned(w) => Aligned(seen)
      BY <3>1 DEF PlacedWriter, SameWriter, Aligned
    <3>3. out \in WriteData(seen, m) \/ out = Outcome(seen, "Ok")
      BY <2>1, <2>4 DEF NXeventdataOnMessage
    <3> HIDE DEF seen
    <3>4. Kept(seen, out)
      BY <3>2, <3>3, <1>1, <1>2
    <3> QED BY <3>2, <3>4 DEF SameWriter
  <2> QED BY <2>2, <2>3, <2>4
<1>4. CASE w.kind # "NXevent_data"
  <2>1. out \in {Outcome(w, "Ok"), Outcome(w, "Err")}
    BY <1>4 DEF OnMessage
  <2> QED BY <2>1, <1>1
<1> QED BY <1>3, <1>4

LEMMA OnRunStopType ==
  ASSUME NEW w \in PlacedWriter, NEW m \in Message, NEW out \in OnRunStop(w, m)
  PROVE  /\ SameWriter(w, out.writer) /\ out.result \in {"Ok", "Err"}
         /\ w.kind = "NXevent_data" => out.writer.run_stop_time_ms = m.stop_time
         /\ Aligned(w) => Aligned(out.writer)
<1>1. CASE w.kind = "NXevent_data"
  <2> DEFINE stopped == [w EXCEPT !.run_stop_time_ms = m.stop_time]
  <2>1. out = Outcome(stopped, "Ok")
    BY <1>1 DEF OnRunStop
  <2>2. m.stop_time \in Nat
    BY DEF Message
  <2>3. /\ SameWriter(w, stopped) /\ stopped.run_stop_time_ms = m.stop_time
        /\ Aligned(w) => Aligned(stopped)
    BY <2>2 DEF SameWriter, PlacedWriter, Aligned
  <2> QED BY <2>1, <2>3 DEF Outcome
<1>2. CASE w.kind # "NXevent_data"
  <2>1. out \in {Outcome(w, "Ok"), Outcome(w, "Err")}
    BY <1>2 DEF OnRunStop
  <2> QED BY <1>2, <2>1 DEF Outcome, SameWriter
<1> QED BY <1>1, <1>2

-----------------------------------------------------------------------------
(***************************************************************************)
(* Type correctness.                                                       *)
(***************************************************************************)
LEMMA TypeInit == FileInit => FileTypeOK
<1> SUFFICES ASSUME FileInit PROVE FileTypeOK
  OBVIOUS
<1>1. run \in RunStart /\ specs \in Seq(ModuleSpec)
  <2>1. PICK rs \in RunStarts : run = FromPl72(rs)
    BY DEF FileInit, RunParameters
  <2>2. rs \in RunStart /\ Forever \in Nat
    BY <2>1, StructureAssumption, WriterAssumption
  <2>3. run \in RunStart
    BY <2>1, <2>2 DEF FromPl72, RunStart
  <2> QED BY <2>3, StructureAssumption DEF FileInit
<1>2. IsRouter(router)
  BY DEF FileInit, EmptyRouter, EmptyMap, IsRouter
<1>3. writers \in Seq(PlacedWriter) /\ todo \in Seq(Nat)
  BY DEF FileInit
<1> QED
  BY <1>1, <1>2, <1>3 DEF FileInit, FileTypeOK

LEMMA TypeBuild == FileTypeOK /\ Build => FileTypeOK'
<1> SUFFICES ASSUME FileTypeOK, Build PROVE FileTypeOK'
  OBVIOUS
<1> USE DEF placement, handling, Fail
<1>1. CASE CreateWriter
  <2>1. Head(specs) \in ModuleSpec /\ Tail(specs) \in Seq(ModuleSpec)
    BY <1>1 DEF CreateWriter, FileTypeOK
  <2>2. run \in RunStart
    BY DEF FileTypeOK
  <2>3. adding' \in PlacedWriter
    BY <1>1, <2>1, <2>2, NewWriterType DEF CreateWriter
  <2>4. Len(adding'.subscriptions) \in Nat
    BY <2>3 DEF PlacedWriter
  <2> QED
    BY <1>1, <2>1, <2>3, <2>4 DEF CreateWriter, FileTypeOK
<1>2. CASE PlacementFails
  BY <1>2, ErrorAssumption DEF PlacementFails, FileTypeOK, Errors
<1>3. CASE SubscribeWriter
  <2>1. adding \in PlacedWriter /\ subscribed + 1 \in 1..Len(adding.subscriptions)
    BY <1>3 DEF SubscribeWriter, FileTypeOK
  <2>2. adding.subscriptions[subscribed + 1] \in Subscription
    BY <2>1 DEF PlacedWriter
  <2>3. Len(writers) \in Nat
    BY DEF FileTypeOK
  <2>4. IsRouter(router')
    <3>1. CASE Topics = {}
      BY <2>2, <3>1 DEF Subscription
    <3>2. CASE Topics # {}
      BY <1>3, <2>2, <2>3, <3>2, SubscribeRoutes DEF SubscribeWriter, FileTypeOK
    <3> QED BY <3>1, <3>2
  <2> QED
    BY <1>3, <2>1, <2>4 DEF SubscribeWriter, FileTypeOK
<1>4. CASE PushWriter
  BY <1>4 DEF PushWriter, FileTypeOK
<1>5. CASE FinishStructure
  BY <1>5 DEF FinishStructure, FileTypeOK
<1> QED
  BY <1>1, <1>2, <1>3, <1>4, <1>5 DEF Build

LEMMA TypeHandle ==
  ASSUME FileTypeOK, NEW m \in Message, HandleMessage(m)
  PROVE  FileTypeOK'
<1> USE DEF placement
<1>1. CASE IgnoreMessage(m)
  BY <1>1 DEF IgnoreMessage, fileVars, FileTypeOK
<1>2. CASE UnroutedMessage(m)
  BY <1>2 DEF UnroutedMessage, fileVars, FileTypeOK
<1>3. CASE StopWithoutWriters(m)
  BY <1>3 DEF StopWithoutWriters, FileTypeOK
<1>4. CASE BeginMessage(m)
  <2>1. WritersFor(router, m.topic, m.key) \in Seq(Nat)
    BY RouteType DEF FileTypeOK, Message
  <2> QED
    BY <1>4, <2>1 DEF BeginMessage, Begin, FileTypeOK
<1>5. CASE BeginRunStop(m)
  <2> DEFINE ids == [i \in 1..Len(writers) |-> i - 1]
  <2>1. Len(writers) \in Nat
    BY DEF FileTypeOK
  <2>2. ids \in [1..Len(writers) -> Nat]
    BY <2>1
  <2>3. ids \in Seq(Nat)
    BY <2>1, <2>2
  <2> HIDE DEF ids
  <2>4. Begin(m, "stop", ids)
    BY <1>5 DEF BeginRunStop, ids
  <2> QED
    BY <2>3, <2>4 DEF Begin, FileTypeOK
<1> QED
  BY <1>1, <1>2, <1>3, <1>4, <1>5 DEF HandleMessage

LEMMA ReplaceWriter ==
  ASSUME NEW ws \in Seq(PlacedWriter), NEW id \in Nat, id < Len(ws), NEW w \in PlacedWriter
  PROVE  /\ [ws EXCEPT ![id + 1] = w] \in Seq(PlacedWriter)
         /\ Len([ws EXCEPT ![id + 1] = w]) = Len(ws)
OBVIOUS

LEMMA TypeNotify ==
  ASSUME FileTypeOK, phase \in {"message", "stop"}, UNCHANGED <<run, placement>>,
         NEW w \in PlacedWriter, NEW res \in {"Ok", "Err"}, NEW stopping \in BOOLEAN,
         Head(todo) < Len(writers), Notify(Head(todo), Outcome(w, res), stopping)
  PROVE  FileTypeOK'
<1>1. Head(todo) \in Nat /\ Tail(todo) \in Seq(Nat)
  BY DEF FileTypeOK
<1>2. writers' \in Seq(PlacedWriter)
  BY <1>1, ReplaceWriter DEF Notify, Outcome, FileTypeOK
<1>3. CASE res = "Ok"
  BY <1>1, <1>2, <1>3 DEF Notify, Outcome, Continue, FileTypeOK, placement
<1>4. CASE res = "Err"
  BY <1>1, <1>2, <1>4, ErrorAssumption
  DEF Notify, Outcome, Fail, FileTypeOK, placement, handling, Errors
<1> QED BY <1>3, <1>4

\* The two loops over writers, and the one branch that no state reaches
LEMMA TypeLoop ==
  ASSUME FileTypeOK, NotifyWriter \/ StopWriter,
         \A i \in DOMAIN todo : todo[i] < Len(writers)
  PROVE  FileTypeOK'
<1>1. phase \in {"message", "stop"} /\ UNCHANGED <<run, placement>>
  BY DEF NotifyWriter, StopWriter
<1>2. Head(todo) \in Nat /\ Head(todo) < Len(writers) /\ msg \in Message
  BY <1>1 DEF FileTypeOK
<1>3. writers[Head(todo) + 1] \in PlacedWriter
  BY <1>2 DEF FileTypeOK
<1>4. ASSUME NEW out, out.writer \in PlacedWriter, out.result \in {"Ok", "Err"},
             NEW stopping \in BOOLEAN, Notify(Head(todo), out, stopping)
      PROVE  FileTypeOK'
  <2>1. Notify(Head(todo), Outcome(out.writer, out.result), stopping)
    BY <1>4 DEF Notify, Outcome
  <2> QED BY <1>1, <1>2, <1>4, <2>1, TypeNotify
<1>5. CASE NotifyWriter
  <2>1. PICK out \in OnMessage(writers[Head(todo) + 1], msg) : Notify(Head(todo), out, FALSE)
    BY <1>2, <1>5 DEF NotifyWriter
  <2> QED BY <1>2, <1>3, <1>4, <2>1, OnMessageType DEF SameWriter
<1>6. CASE StopWriter
  <2>1. PICK out \in OnRunStop(writers[Head(todo) + 1], msg) : Notify(Head(todo), out, TRUE)
    BY <1>6 DEF StopWriter
  <2> QED BY <1>2, <1>3, <1>4, <2>1, OnRunStopType DEF SameWriter
<1> QED BY <1>5, <1>6

-----------------------------------------------------------------------------
(***************************************************************************)
(* Routing.                                                                *)
(***************************************************************************)
LEMMA RoutedInit == FileInit => RoutedAsSubscribed
<1> SUFFICES ASSUME FileInit, NEW t \in Topics, NEW k \in Keys \cup {None}
             PROVE  RoutedTo(t, k) = Subscribers(t, k)
  BY DEF RoutedAsSubscribed
<1>1. WritersFor(router, t, k) = <<>>
  BY DEF FileInit, EmptyRouter, EmptyMap, EmptyTopicRouter, WritersFor, TopicWritersFor, Entry
<1>2. RoutedTo(t, k) = {}
  BY <1>1 DEF RoutedTo, Range
<1>3. \A id \in 0..Len(writers) : Registered(id) = {}
  BY DEF FileInit, Registered
<1> QED
  BY <1>2, <1>3 DEF Subscribers

\* Steps that touch neither the router nor a subscription
LEMMA RoutedElsewhere ==
  ASSUME FileTypeOK, RoutedAsSubscribed, UNCHANGED <<router, adding, subscribed>>,
         Len(writers') = Len(writers),
         \A i \in DOMAIN writers : writers'[i].subscriptions = writers[i].subscriptions
  PROVE  RoutedAsSubscribed'
<1>1. Len(writers) \in Nat /\ DOMAIN writers = 1..Len(writers)
  BY DEF FileTypeOK
<1>2. ASSUME NEW id \in 0..Len(writers)
      PROVE  Registered(id)' = Registered(id)
  <2>1. CASE id < Len(writers)
    <3>1. id + 1 \in DOMAIN writers
      BY <1>1, <2>1
    <3> QED BY <2>1, <3>1 DEF Registered
  <2>2. CASE ~(id < Len(writers))
    BY <2>2 DEF Registered
  <2> QED BY <2>1, <2>2
<1>3. \A t, k : Subscribers(t, k)' = Subscribers(t, k)
  BY <1>2 DEF Subscribers
<1>4. \A t, k : RoutedTo(t, k)' = RoutedTo(t, k)
  BY DEF RoutedTo
<1> QED
  BY <1>3, <1>4 DEF RoutedAsSubscribed

LEMMA RoutedBuild ==
  ASSUME FileTypeOK, RoutedAsSubscribed, Build
  PROVE  RoutedAsSubscribed'
<1> USE DEF placement, handling, Fail
<1>1. Len(writers) \in Nat
  BY DEF FileTypeOK
<1>2. CASE PlacementFails \/ FinishStructure
  BY <1>2, RoutedElsewhere DEF PlacementFails, FinishStructure
<1>3. CASE CreateWriter
  <2>1. ASSUME NEW id \in 0..Len(writers)
        PROVE  Registered(id)' = Registered(id)
    <3>1. CASE id < Len(writers)
      BY <1>3, <3>1 DEF CreateWriter, Registered
    <3>2. CASE id = Len(writers)
      <4>1. {adding'.subscriptions[i] : i \in 1..subscribed'} = {}
        BY <1>3 DEF CreateWriter
      <4>2. Registered(id) = {} /\ Registered(id)' = {}
        BY <1>1, <1>3, <3>2, <4>1 DEF CreateWriter, Registered
      <4> QED BY <4>2
    <3> QED BY <1>1, <3>1, <3>2
  <2>2. \A t, k : Subscribers(t, k)' = Subscribers(t, k)
    BY <1>3, <2>1 DEF CreateWriter, Subscribers
  <2>3. \A t, k : RoutedTo(t, k)' = RoutedTo(t, k)
    BY <1>3 DEF CreateWriter, RoutedTo
  <2> QED
    BY <2>2, <2>3 DEF RoutedAsSubscribed
<1>4. CASE SubscribeWriter
  <2> DEFINE sub == adding.subscriptions[subscribed + 1]
  <2>1. adding \in PlacedWriter /\ subscribed + 1 \in 1..Len(adding.subscriptions)
        /\ subscribed \in Nat
    BY <1>4 DEF SubscribeWriter, FileTypeOK
  <2>2. sub \in Subscription
    BY <2>1 DEF PlacedWriter
  <2>3. Registered(Len(writers))' = Registered(Len(writers)) \cup {sub}
    <3>1. 1..(subscribed + 1) = (1..subscribed) \cup {subscribed + 1}
      BY <2>1
    <3> QED BY <1>1, <1>4, <3>1 DEF SubscribeWriter, Registered
  <2>4. \A id \in 0..Len(writers) : id # Len(writers) => Registered(id)' = Registered(id)
    BY <1>1, <1>4 DEF SubscribeWriter, Registered
  <2> HIDE DEF sub
  <2>5. ASSUME NEW t \in Topics, NEW k \in Keys \cup {None}
        PROVE  RoutedTo(t, k)' = Subscribers(t, k)'
    <3>1. RoutedTo(t, k)' = RoutedTo(t, k) \cup (IF Matches(sub, t, k) THEN {Len(writers)} ELSE {})
      BY <1>1, <1>4, <2>2, SubscribeRoutes DEF SubscribeWriter, RoutedTo, FileTypeOK, sub
    <3>2. Subscribers(t, k)'
            = Subscribers(t, k) \cup (IF Matches(sub, t, k) THEN {Len(writers)} ELSE {})
      <4>1. Len(writers') = Len(writers) /\ Len(writers) \in 0..Len(writers)
        BY <1>1, <1>4 DEF SubscribeWriter
      <4> QED BY <2>3, <2>4, <4>1 DEF Subscribers
    <3> QED BY <3>1, <3>2 DEF RoutedAsSubscribed
  <2> QED BY <2>5 DEF RoutedAsSubscribed
<1>5. CASE PushWriter
  <2>1. adding \in PlacedWriter /\ writers' = Append(writers, adding) /\ adding' = None
        /\ subscribed = Len(adding.subscriptions) /\ router' = router
    BY <1>5 DEF PushWriter, FileTypeOK
  <2>2. PICK n \in Nat : n = Len(writers)
    BY <1>1
  <2>3. Len(writers') = n + 1 /\ writers'[n + 1] = adding
        /\ \A i \in 1..n : writers'[i] = writers[i]
    BY <2>1, <2>2 DEF FileTypeOK
  <2>4. Registered(n)' = Registered(n)
    <3>1. DOMAIN adding.subscriptions = 1..subscribed
      BY <2>1 DEF PlacedWriter
    <3>2. Range(adding.subscriptions) = {adding.subscriptions[i] : i \in 1..subscribed}
      BY <3>1 DEF Range
    <3>3. Registered(n) = Range(adding.subscriptions)
      BY <1>5, <2>2, <3>2 DEF PushWriter, Registered
    <3>4. Registered(n)' = Range(adding.subscriptions)
      BY <2>3 DEF Registered
    <3> QED BY <3>3, <3>4
  <2>5. \A id \in 0..n : Registered(id)' = Registered(id)
    BY <2>2, <2>3, <2>4 DEF Registered
  <2>6. Registered(n + 1)' = {}
    BY <2>1, <2>3 DEF Registered
  <2>7. \A t, k : Subscribers(t, k)' = Subscribers(t, k)
    <3>1. 0..Len(writers') = (0..n) \cup {n + 1}
      BY <2>3
    <3> QED BY <2>2, <2>5, <2>6, <3>1 DEF Subscribers
  <2> QED BY <2>1, <2>7 DEF RoutedAsSubscribed, RoutedTo
<1> QED
  BY <1>2, <1>3, <1>4, <1>5 DEF Build

(***************************************************************************)
(* The indices of a message's writers.                                     *)
(***************************************************************************)
LEMMA RoutedWithin ==
  ASSUME FileTypeOK, RoutedAsSubscribed, phase = "ready",
         NEW t \in Topics, NEW k \in Keys \cup {None},
         NEW i \in DOMAIN WritersFor(router, t, k)
  PROVE  WritersFor(router, t, k)[i] < Len(writers)
<1> DEFINE id == WritersFor(router, t, k)[i]
<1>1. id \in RoutedTo(t, k)
  BY DEF RoutedTo, Range
<1>2. id \in Subscribers(t, k)
  BY <1>1 DEF RoutedAsSubscribed
<1>3. id \in 0..Len(writers) /\ Registered(id) # {}
  BY <1>2 DEF Subscribers
<1> HIDE DEF id
<1>4. adding = None /\ Len(writers) \in Nat
  BY DEF FileTypeOK
<1>5. id # Len(writers)
  BY <1>3, <1>4 DEF Registered
<1> QED
  BY <1>3, <1>4, <1>5 DEF id

LEMMA FoundHandle ==
  ASSUME FileTypeOK, RoutedAsSubscribed, WriterAlwaysFound, NEW m \in Message, HandleMessage(m)
  PROVE  WriterAlwaysFound'
<1> USE DEF placement
<1>1. CASE IgnoreMessage(m) \/ UnroutedMessage(m)
  BY <1>1 DEF IgnoreMessage, UnroutedMessage, fileVars, WriterAlwaysFound
<1>2. CASE StopWithoutWriters(m)
  BY <1>2 DEF StopWithoutWriters, WriterAlwaysFound
<1>3. CASE BeginMessage(m)
  <2>1. \A i \in DOMAIN todo' : todo'[i] < Len(writers)
    BY <1>3, RoutedWithin DEF BeginMessage, Begin, Message
  <2> QED BY <1>3, <2>1 DEF BeginMessage, Begin, WriterAlwaysFound
<1>4. CASE BeginRunStop(m)
  <2>1. \A i \in DOMAIN todo' : todo'[i] < Len(writers)
    BY <1>4 DEF BeginRunStop, Begin, FileTypeOK
  <2> QED BY <1>4, <2>1 DEF BeginRunStop, Begin, WriterAlwaysFound
<1> QED
  BY <1>1, <1>2, <1>3, <1>4 DEF HandleMessage

\* What an iteration of either loop does to everything but the writer it visits
LEMMA LoopStep ==
  ASSUME FileTypeOK, WriterAlwaysFound, NotifyWriter \/ StopWriter
  PROVE  /\ FileTypeOK' /\ UNCHANGED <<run, placement>>
         /\ Len(writers') = Len(writers)
         /\ \E out : /\ \/ phase = "message" /\ out \in OnMessage(writers[Head(todo) + 1], msg)
                           /\ Notify(Head(todo), out, FALSE)
                        \/ phase = "stop" /\ out \in OnRunStop(writers[Head(todo) + 1], msg)
                           /\ Notify(Head(todo), out, TRUE)
                     /\ SameWriter(writers[Head(todo) + 1], out.writer)
                     /\ out.result \in {"Ok", "Err"}
<1>1. phase \in {"message", "stop"} /\ UNCHANGED <<run, placement>>
  BY DEF NotifyWriter, StopWriter
<1>2. Head(todo) \in Nat /\ Head(todo) < Len(writers) /\ msg \in Message
  BY <1>1 DEF FileTypeOK, WriterAlwaysFound
<1>3. writers[Head(todo) + 1] \in PlacedWriter
  BY <1>2 DEF FileTypeOK
<1>4. FileTypeOK'
  BY <1>1, TypeLoop DEF WriterAlwaysFound
<1>5. CASE NotifyWriter
  <2>1. PICK out \in OnMessage(writers[Head(todo) + 1], msg) : Notify(Head(todo), out, FALSE)
    BY <1>2, <1>5 DEF NotifyWriter
  <2>2. SameWriter(writers[Head(todo) + 1], out.writer) /\ out.result \in {"Ok", "Err"}
    BY <1>2, <1>3, <2>1, OnMessageType
  <2>3. Len(writers') = Len(writers)
    BY <2>1 DEF Notify, FileTypeOK
  <2> QED BY <1>1, <1>4, <1>5, <2>1, <2>2, <2>3 DEF NotifyWriter
<1>6. CASE StopWriter
  <2>1. PICK out \in OnRunStop(writers[Head(todo) + 1], msg) : Notify(Head(todo), out, TRUE)
    BY <1>6 DEF StopWriter
  <2>2. SameWriter(writers[Head(todo) + 1], out.writer) /\ out.result \in {"Ok", "Err"}
    BY <1>2, <1>3, <2>1, OnRunStopType
  <2>3. Len(writers') = Len(writers)
    BY <2>1 DEF Notify, FileTypeOK
  <2> QED BY <1>1, <1>4, <1>6, <2>1, <2>2, <2>3 DEF StopWriter
<1> QED BY <1>5, <1>6

LEMMA LoopUpdate ==
  ASSUME FileTypeOK, WriterAlwaysFound, phase \in {"message", "stop"},
         NEW out, NEW stopping \in BOOLEAN, Notify(Head(todo), out, stopping)
  PROVE  /\ Head(todo) + 1 \in DOMAIN writers
         /\ DOMAIN writers' = DOMAIN writers
         /\ writers'[Head(todo) + 1] = out.writer
         /\ \A i \in DOMAIN writers : i # Head(todo) + 1 => writers'[i] = writers[i]
<1>1. Head(todo) \in Nat /\ Head(todo) < Len(writers)
  BY DEF FileTypeOK, WriterAlwaysFound
<1>2. writers' = [writers EXCEPT ![Head(todo) + 1] = out.writer]
  BY DEF Notify
<1> QED BY <1>1, <1>2 DEF FileTypeOK

LEMMA RoutedLoop ==
  ASSUME FileTypeOK, RoutedAsSubscribed, WriterAlwaysFound, NotifyWriter \/ StopWriter
  PROVE  RoutedAsSubscribed' /\ WriterAlwaysFound'
<1>1. PICK out : /\ \/ phase = "message" /\ Notify(Head(todo), out, FALSE)
                    \/ phase = "stop" /\ Notify(Head(todo), out, TRUE)
                 /\ SameWriter(writers[Head(todo) + 1], out.writer)
  BY LoopStep
<1>2. UNCHANGED <<run, placement>> /\ Len(writers') = Len(writers)
  BY LoopStep
<1>3. \A i \in DOMAIN writers : writers'[i].subscriptions = writers[i].subscriptions
  BY <1>1, LoopUpdate DEF SameWriter
<1>4. RoutedAsSubscribed'
  BY <1>2, <1>3, RoutedElsewhere DEF placement
<1>5. todo \in Seq(Nat) /\ todo # <<>>
  BY <1>1 DEF FileTypeOK
<1>6. todo' \in {todo, Tail(todo)} /\ error' \in {error, "WriterModuleError"}
  BY <1>1 DEF Notify, Continue, Fail, handling
<1>7. \A i \in DOMAIN todo' : todo'[i] < Len(writers)
  <2>1. \A i \in DOMAIN todo : todo[i] < Len(writers)
    BY <1>1 DEF WriterAlwaysFound
  <2>2. \A i \in DOMAIN Tail(todo) : Tail(todo)[i] = todo[i + 1] /\ i + 1 \in DOMAIN todo
    BY <1>5
  <2> QED BY <1>6, <2>1, <2>2
<1> QED
  BY <1>2, <1>4, <1>6, <1>7 DEF WriterAlwaysFound

(***************************************************************************)
(* The inductive invariant of the placement of writers.                    *)
(***************************************************************************)
RoutingInv == FileTypeOK /\ RoutedAsSubscribed /\ WriterAlwaysFound

LEMMA RoutingInit == FileInit => RoutingInv
<1>1. FileInit => WriterAlwaysFound
  BY ErrorAssumption DEF FileInit, WriterAlwaysFound, Errors
<1> QED BY <1>1, TypeInit, RoutedInit DEF RoutingInv

LEMMA RoutingStep == RoutingInv /\ [FileNext]_fileVars => RoutingInv'
<1> SUFFICES ASSUME RoutingInv, [FileNext]_fileVars PROVE RoutingInv'
  OBVIOUS
<1> USE DEF RoutingInv
<1>1. CASE Build
  <2>1. FileTypeOK' /\ RoutedAsSubscribed'
    BY <1>1, TypeBuild, RoutedBuild
  <2>2. phase = "building" /\ phase' \in {"building", "ready", "failed"}
        /\ error' \in {error, "NexusStructureError", "Hdf5Error"} /\ todo' = todo /\ todo = <<>>
    BY <1>1 DEF Build, CreateWriter, PlacementFails, SubscribeWriter, PushWriter, FinishStructure,
                Fail, handling, placement, FileTypeOK
  <2> QED BY <2>1, <2>2 DEF WriterAlwaysFound
<1>2. CASE NotifyWriter \/ StopWriter
  BY <1>2, LoopStep, RoutedLoop
<1>3. CASE \E m \in Message : HandleMessage(m)
  <2>1. PICK m \in Message : HandleMessage(m)
    BY <1>3
  <2>2. UNCHANGED <<writers, placement>>
    BY <2>1 DEF HandleMessage, IgnoreMessage, UnroutedMessage, StopWithoutWriters, BeginMessage,
                BeginRunStop, Begin, fileVars, placement
  <2> QED BY <2>1, <2>2, TypeHandle, FoundHandle, RoutedElsewhere DEF placement
<1>4. CASE UNCHANGED fileVars
  <2>1. RoutedAsSubscribed'
    BY <1>4, RoutedElsewhere DEF fileVars
  <2> QED BY <1>4, <2>1 DEF fileVars, FileTypeOK, WriterAlwaysFound
<1> QED
  BY <1>1, <1>2, <1>3, <1>4 DEF FileNext

(***************************************************************************)
(* Type correctness: every field of InProgressFile and of its writers has  *)
(* its type, and an error is held exactly when the file has failed.        *)
(***************************************************************************)
THEOREM FileTypes == FileSpec => []FileTypeOK
<1>1. FileSpec => []RoutingInv
  BY RoutingInit, RoutingStep, PTL DEF FileSpec
<1>2. RoutingInv => FileTypeOK
  BY DEF RoutingInv
<1> QED BY <1>1, <1>2, PTL

(***************************************************************************)
(* For every structure, MessageRouter::writers_for returns the writers     *)
(* whose subscriptions match the topic and key of the message, no others.  *)
(***************************************************************************)
THEOREM Routing == FileSpec => []RoutedAsSubscribed
<1>1. FileSpec => []RoutingInv
  BY RoutingInit, RoutingStep, PTL DEF FileSpec
<1>2. RoutingInv => RoutedAsSubscribed
  BY DEF RoutingInv
<1> QED BY <1>1, <1>2, PTL

(***************************************************************************)
(* The WriterModuleNotFound branch of InProgressFile::on_message is dead.  *)
(***************************************************************************)
THEOREM WritersFound == FileSpec => []WriterAlwaysFound
<1>1. FileSpec => []RoutingInv
  BY RoutingInit, RoutingStep, PTL DEF FileSpec
<1>2. RoutingInv => WriterAlwaysFound
  BY DEF RoutingInv
<1> QED BY <1>1, <1>2, PTL

-----------------------------------------------------------------------------
(***************************************************************************)
(* Aligned columns.                                                        *)
(***************************************************************************)
AlignedInv ==
  RoutingInv /\ ColumnsAligned /\ (phase = "building" /\ adding # None => Aligned(adding))

LEMMA AlignedLoop ==
  ASSUME AlignedInv, NotifyWriter \/ StopWriter
  PROVE  ColumnsAligned'
<1> SUFFICES ASSUME phase' # "failed", NEW i \in DOMAIN writers'
             PROVE  Aligned(writers'[i])
  BY DEF ColumnsAligned
<1> DEFINE w == writers[Head(todo) + 1]
<1>1. PICK out : /\ \/ phase = "message" /\ out \in OnMessage(w, msg)
                       /\ Notify(Head(todo), out, FALSE)
                    \/ phase = "stop" /\ out \in OnRunStop(w, msg)
                       /\ Notify(Head(todo), out, TRUE)
                 /\ out.result \in {"Ok", "Err"}
  BY LoopStep DEF AlignedInv, RoutingInv
<1>2. out.result = "Ok"
  BY <1>1 DEF Notify, Fail
<1>3. /\ Head(todo) + 1 \in DOMAIN writers
      /\ DOMAIN writers' = DOMAIN writers
      /\ writers'[Head(todo) + 1] = out.writer
      /\ \A j \in DOMAIN writers : j # Head(todo) + 1 => writers'[j] = writers[j]
  BY <1>1, LoopUpdate DEF AlignedInv, RoutingInv
<1>4. \A j \in DOMAIN writers : Aligned(writers[j])
  <2>1. phase # "failed" /\ ColumnsAligned
    BY <1>1 DEF AlignedInv
  <2> QED BY <2>1 DEF ColumnsAligned
<1>5. w \in PlacedWriter /\ msg \in Message
  <2>1. FileTypeOK /\ phase \in {"message", "stop"}
    BY <1>1 DEF AlignedInv, RoutingInv
  <2>2. writers \in Seq(PlacedWriter) /\ msg \in Message
    BY <2>1 DEF FileTypeOK
  <2> QED BY <1>3, <2>2
<1>6. Aligned(out.writer)
  BY <1>1, <1>2, <1>3, <1>4, <1>5, OnMessageType, OnRunStopType
<1> QED BY <1>3, <1>4, <1>6

LEMMA AlignedInit == FileInit => AlignedInv
<1>1. FileInit => ColumnsAligned /\ adding = None
  BY DEF FileInit, ColumnsAligned
<1> QED BY <1>1, RoutingInit DEF AlignedInv

LEMMA AlignedStep == AlignedInv /\ [FileNext]_fileVars => AlignedInv'
<1> SUFFICES ASSUME AlignedInv, [FileNext]_fileVars PROVE AlignedInv'
  OBVIOUS
<1>1. RoutingInv'
  BY RoutingStep DEF AlignedInv
<1> USE DEF placement, handling
<1>2. CASE CreateWriter
  <2>1. Head(specs) \in ModuleSpec /\ run \in RunStart
    BY <1>2 DEF CreateWriter, AlignedInv, RoutingInv, FileTypeOK
  <2>2. Aligned(adding')
    BY <1>2, <2>1, NewWriterType DEF CreateWriter
  <2> QED BY <1>1, <1>2, <2>2 DEF CreateWriter, AlignedInv, ColumnsAligned
<1>3. CASE PushWriter
  <2>1. writers' = Append(writers, adding) /\ writers \in Seq(PlacedWriter)
        /\ Aligned(adding) /\ adding' = None
    BY <1>3 DEF PushWriter, AlignedInv, RoutingInv, FileTypeOK
  <2>2. \A i \in DOMAIN writers' :
          (i \in DOMAIN writers /\ writers'[i] = writers[i]) \/ writers'[i] = adding
    BY <2>1
  <2>3. \A i \in DOMAIN writers' : Aligned(writers'[i])
    BY <1>3, <2>1, <2>2 DEF PushWriter, AlignedInv, ColumnsAligned
  <2> QED BY <1>1, <2>1, <2>3 DEF AlignedInv, ColumnsAligned
<1>4. CASE PlacementFails \/ SubscribeWriter \/ FinishStructure
  <2>1. UNCHANGED <<writers, adding>> /\ phase = "building"
    BY <1>4 DEF PlacementFails, SubscribeWriter, FinishStructure
  <2> QED BY <1>1, <2>1 DEF AlignedInv, ColumnsAligned
<1>5. CASE NotifyWriter \/ StopWriter
  <2>1. phase' # "building"
    BY <1>5 DEF NotifyWriter, StopWriter, Notify, Continue, Fail
  <2> QED BY <1>1, <1>5, <2>1, AlignedLoop DEF AlignedInv
<1>6. CASE \E m \in Message : HandleMessage(m)
  <2>1. UNCHANGED <<writers, adding>> /\ phase = "ready" /\ phase' # "building"
    BY <1>6 DEF HandleMessage, IgnoreMessage, UnroutedMessage, StopWithoutWriters, BeginMessage,
                BeginRunStop, Begin, fileVars
  <2> QED BY <1>1, <2>1 DEF AlignedInv, ColumnsAligned
<1>7. CASE UNCHANGED fileVars
  BY <1>1, <1>7 DEF fileVars, AlignedInv, ColumnsAligned
<1> QED
  BY <1>2, <1>3, <1>4, <1>5, <1>6, <1>7 DEF FileNext, Build

(***************************************************************************)
(* Whatever messages arrive, as long as no call has failed the event       *)
(* columns of every writer hold the same rows and no unwritten cell.       *)
(***************************************************************************)
THEOREM Columns == FileSpec => []ColumnsAligned
<1>1. AlignedInv => ColumnsAligned
  BY DEF AlignedInv
<1> QED BY <1>1, AlignedInit, AlignedStep, PTL DEF FileSpec

-----------------------------------------------------------------------------
(***************************************************************************)
(* Run stops.                                                              *)
(***************************************************************************)
StopsAt(w, t) == w.kind = "NXevent_data" => w.run_stop_time_ms = t

\* Where the loop of on_run_stop stands: it has visited the writers before Head(todo).
StopUnderway ==
  /\ Len(todo) <= Len(writers)
  /\ \A i \in DOMAIN todo : todo[i] = Len(writers) - Len(todo) + i - 1
  /\ \A i \in 1..(Len(writers) - Len(todo)) : StopsAt(writers[i], msg.stop_time)

StopInv ==
  /\ AlignedInv
  /\ phase = "building" =>
       /\ \A i \in DOMAIN writers : StopsAt(writers[i], run.stop_time_ms)
       /\ adding # None => StopsAt(adding, run.stop_time_ms)
  /\ phase \in {"ready", "message"} =>
       \E t \in Nat : \A i \in DOMAIN writers : StopsAt(writers[i], t)
  /\ phase = "stop" => StopUnderway

LEMMA StopLoop ==
  ASSUME StopInv, StopWriter
  PROVE  /\ phase' = "stop" => StopUnderway'
         /\ phase' = "ready" => \A i \in DOMAIN writers' : StopsAt(writers'[i], msg.stop_time)
         /\ run_stop_received' # run_stop_received => phase' = "ready"
         /\ phase' \in {"stop", "ready", "failed"}
<1> DEFINE w == writers[Head(todo) + 1]
<1> USE DEF AlignedInv, RoutingInv
<1>1. PICK out : /\ phase = "stop" /\ out \in OnRunStop(w, msg) /\ Notify(Head(todo), out, TRUE)
                 /\ SameWriter(w, out.writer)
                 /\ out.result \in {"Ok", "Err"}
  BY LoopStep DEF StopInv, StopWriter
<1>2. /\ Head(todo) + 1 \in DOMAIN writers
      /\ DOMAIN writers' = DOMAIN writers
      /\ writers'[Head(todo) + 1] = out.writer
      /\ \A j \in DOMAIN writers : j # Head(todo) + 1 => writers'[j] = writers[j]
  BY <1>1, LoopUpdate DEF StopInv
<1>3. w \in PlacedWriter /\ msg \in Message
  BY <1>1, <1>2 DEF StopInv, FileTypeOK
<1>4. StopsAt(out.writer, msg.stop_time)
  BY <1>1, <1>3, OnRunStopType DEF SameWriter, StopsAt
<1>5. PICK n \in Nat : n = Len(writers)
  BY DEF StopInv, FileTypeOK
<1>6. PICK d \in Nat : d = n - Len(todo)
  <2>1. StopUnderway /\ FileTypeOK
    BY <1>1 DEF StopInv
  <2>2. Len(todo) \in Nat /\ Len(todo) <= n
    BY <1>5, <2>1 DEF StopUnderway, FileTypeOK
  <2> QED BY <2>2
<1>7. Head(todo) = d /\ Len(todo) > 0 /\ todo \in Seq(Nat) /\ DOMAIN writers = 1..n
  BY <1>1, <1>5, <1>6 DEF StopInv, StopUnderway, FileTypeOK
<1>8. \A i \in 1..(d + 1) : StopsAt(writers'[i], msg.stop_time)
  <2>1. \A i \in 1..d : StopsAt(writers[i], msg.stop_time)
    BY <1>1, <1>5, <1>6 DEF StopInv, StopUnderway
  <2>2. d + 1 \in 1..n
    BY <1>2, <1>7
  <2> HIDE DEF w
  <2>3. \A i \in 1..d : i \in DOMAIN writers /\ i # Head(todo) + 1
    BY <1>7, <2>2
  <2>4. \A i \in 1..d : writers'[i] = writers[i]
    BY <1>2, <2>3
  <2>5. writers'[d + 1] = out.writer
    BY <1>2, <1>7
  <2>6. \A i \in 1..(d + 1) : i \in 1..d \/ i = d + 1
    OBVIOUS
  <2> QED BY <1>4, <2>1, <2>4, <2>5, <2>6
<1>9. CASE out.result = "Ok"
  <2>1. Continue(TRUE)
    BY <1>1, <1>9 DEF Notify
  <2>2. Len(Tail(todo)) = Len(todo) - 1 /\ Tail(todo) \in Seq(Nat)
        /\ \A i \in DOMAIN Tail(todo) : Tail(todo)[i] = todo[i + 1] /\ i + 1 \in DOMAIN todo
    BY <1>7
  <2>3. CASE Tail(todo) = <<>>
    <3>1. Len(todo) = 1
      <4>1. Len(Tail(todo)) = 0
        BY <2>3
      <4>2. 0 = Len(todo) - 1
        BY <2>2, <4>1, Zenon
      <4>3. Len(todo) \in Nat
        BY <1>7
      <4> QED BY <4>2, <4>3
    <3>2. phase' = "ready"
      BY <2>1, <2>3 DEF Continue
    <3>3. n = d + 1
      BY <1>5, <1>6, <3>1
    <3>4. DOMAIN writers' = 1..(d + 1)
      BY <1>2, <1>7, <3>3
    <3> QED BY <1>8, <3>2, <3>4
  <2>4. CASE Tail(todo) # <<>>
    <3>1. /\ phase' = "stop" /\ msg' = msg /\ run_stop_received' = run_stop_received
          /\ todo' = Tail(todo)
      BY <1>1, <2>1, <2>4 DEF Continue, StopInv, FileTypeOK
    <3>2. Len(writers') = n
      BY <1>5, LoopStep DEF StopInv
    <3>3. Len(todo') <= n /\ n - Len(todo') = d + 1
      BY <1>6, <1>7, <2>2, <3>1
    <3>4. \A i \in DOMAIN todo' : todo'[i] = d + 1 + i - 1
      <4>1. \A i \in DOMAIN todo : todo[i] = d + i - 1
        BY <1>1, <1>5, <1>6 DEF StopInv, StopUnderway
      <4> QED BY <2>2, <3>1, <4>1
    <3>5. StopUnderway'
      BY <1>8, <3>1, <3>2, <3>3, <3>4 DEF StopUnderway
    <3> QED BY <3>1, <3>5
  <2> QED BY <2>3, <2>4
<1>10. CASE out.result = "Err"
  BY <1>1, <1>10 DEF Notify, Fail, handling
<1> QED BY <1>1, <1>9, <1>10

LEMMA StopStep == StopInv /\ [FileNext]_fileVars => StopInv'
<1> SUFFICES ASSUME StopInv, [FileNext]_fileVars PROVE StopInv'
  OBVIOUS
<1> USE DEF placement, handling
<1>1. AlignedInv' /\ FileTypeOK' /\ FileTypeOK
  BY AlignedStep DEF StopInv, AlignedInv, RoutingInv
<1>2. CASE CreateWriter
  <2>1. Head(specs) \in ModuleSpec /\ run \in RunStart
    BY <1>1, <1>2 DEF CreateWriter, FileTypeOK
  <2>2. StopsAt(adding', run.stop_time_ms)
    BY <1>2, <2>1, NewWriterType DEF CreateWriter, StopsAt
  <2> QED BY <1>1, <1>2, <2>2 DEF CreateWriter, StopInv
<1>3. CASE PushWriter
  <2>1. phase = "building" /\ phase' = "building" /\ run' = run
        /\ writers' = Append(writers, adding) /\ writers \in Seq(PlacedWriter)
        /\ adding # None /\ adding \in PlacedWriter /\ adding' = None
    BY <1>1, <1>3 DEF PushWriter, FileTypeOK
  <2>2. \A i \in DOMAIN writers' :
          (i \in DOMAIN writers /\ writers'[i] = writers[i]) \/ writers'[i] = adding
    BY <2>1
  <2>3. \A i \in DOMAIN writers' : StopsAt(writers'[i], run.stop_time_ms)
    BY <2>1, <2>2 DEF StopInv
  <2> QED BY <1>1, <2>1, <2>3 DEF StopInv
<1>4. CASE PlacementFails \/ SubscribeWriter
  <2>1. UNCHANGED <<run, writers, adding>> /\ phase = "building" /\ phase' \in {"building", "failed"}
    BY <1>4 DEF PlacementFails, SubscribeWriter, Fail
  <2> QED BY <1>1, <2>1 DEF StopInv
<1>5. CASE FinishStructure
  <2>1. run.stop_time_ms \in Nat
    BY <1>1 DEF FileTypeOK, RunStart
  <2>2. phase = "building" /\ phase' = "ready" /\ UNCHANGED <<run, writers>>
    BY <1>5 DEF FinishStructure
  <2> QED BY <1>1, <2>1, <2>2 DEF StopInv
<1>6. CASE NotifyWriter
  <2>1. PICK out : /\ phase = "message" /\ out \in OnMessage(writers[Head(todo) + 1], msg)
                   /\ Notify(Head(todo), out, FALSE)
    BY <1>6, LoopStep DEF NotifyWriter, StopInv, AlignedInv, RoutingInv
  <2>2. /\ Head(todo) + 1 \in DOMAIN writers
        /\ DOMAIN writers' = DOMAIN writers
        /\ writers'[Head(todo) + 1] = out.writer
        /\ \A j \in DOMAIN writers : j # Head(todo) + 1 => writers'[j] = writers[j]
    BY <2>1, LoopUpdate DEF StopInv, AlignedInv, RoutingInv
  <2>3. writers[Head(todo) + 1] \in PlacedWriter /\ msg \in Message
    BY <1>1, <2>1, <2>2 DEF FileTypeOK
  <2>4. \A t : StopsAt(writers[Head(todo) + 1], t) => StopsAt(out.writer, t)
    BY <2>1, <2>3, OnMessageType DEF SameWriter, StopsAt
  <2>5. PICK t \in Nat : \A i \in DOMAIN writers : StopsAt(writers[i], t)
    BY <2>1 DEF StopInv
  <2>6. \A i \in DOMAIN writers' : StopsAt(writers'[i], t)
    BY <2>2, <2>4, <2>5
  <2>7. phase' \in {"ready", "message", "failed"}
    BY <2>1 DEF Notify, Continue, Fail
  <2> QED BY <1>1, <2>6, <2>7 DEF StopInv
<1>7. CASE StopWriter
  <2>1. phase = "stop" /\ msg.stop_time \in Nat
    BY <1>1, <1>7 DEF StopWriter, FileTypeOK, Message
  <2> QED BY <1>1, <1>7, <2>1, StopLoop DEF StopInv
<1>8. CASE \E m \in Message : HandleMessage(m)
  <2>1. PICK m \in Message : HandleMessage(m)
    BY <1>8
  <2>2. phase = "ready" /\ UNCHANGED writers
    BY <2>1 DEF HandleMessage, IgnoreMessage, UnroutedMessage, StopWithoutWriters, BeginMessage,
                BeginRunStop, Begin, fileVars
  <2>3. CASE phase' \in {"ready", "message"}
    BY <1>1, <2>2, <2>3 DEF StopInv
  <2>4. CASE phase' \notin {"ready", "message"}
    <3>1. BeginRunStop(m)
      BY <2>1, <2>2, <2>4 DEF HandleMessage, IgnoreMessage, UnroutedMessage, StopWithoutWriters,
                         BeginMessage, Begin, fileVars
    <3>2. phase' = "stop" /\ todo' = [i \in 1..Len(writers) |-> i - 1]
      BY <3>1 DEF BeginRunStop, Begin
    <3>3. Len(writers) \in Nat
      BY <1>1 DEF FileTypeOK
    <3>4. Len(todo') = Len(writers) /\ DOMAIN todo' = 1..Len(writers)
      BY <3>2, <3>3
    <3>5. StopUnderway'
      BY <2>2, <3>2, <3>3, <3>4 DEF StopUnderway
    <3> QED BY <1>1, <3>2, <3>5 DEF StopInv
  <2> QED BY <2>3, <2>4
<1>9. CASE UNCHANGED fileVars
  BY <1>1, <1>9 DEF fileVars, StopInv, StopUnderway
<1> QED
  BY <1>2, <1>3, <1>4, <1>5, <1>6, <1>7, <1>8, <1>9 DEF FileNext, Build

LEMMA StopInit == FileInit => StopInv
BY AlignedInit DEF FileInit, StopInv

(***************************************************************************)
(* Between two messages all event writers have the same stop time.         *)
(***************************************************************************)
THEOREM StopTimesAgree == FileSpec => []StopTimeAgreed
<1>1. StopInv => StopTimeAgreed
  BY DEF StopInv, StopTimeAgreed, StopsAt
<1> QED BY <1>1, StopInit, StopStep, PTL DEF FileSpec

(***************************************************************************)
(* run_stop_received is set by the step that gives the last writer the     *)
(* stop time, when every event writer has it.                              *)
(***************************************************************************)
THEOREM StopRecorded == FileSpec => StopRecordedLast
<1> DEFINE Act == ~run_stop_received /\ run_stop_received' =>
                    \A i \in DOMAIN writers :
                      writers[i].kind = "NXevent_data" =>
                        writers'[i].run_stop_time_ms = msg.stop_time
<1>1. StopInv /\ [FileNext]_fileVars => [Act]_fileVars
  <2> SUFFICES ASSUME StopInv, FileNext, ~run_stop_received, run_stop_received',
                      NEW i \in DOMAIN writers, writers[i].kind = "NXevent_data"
               PROVE  writers'[i].run_stop_time_ms = msg.stop_time
    OBVIOUS
  <2>1. CASE StopWriter
    <3>1. \A j \in DOMAIN writers' : StopsAt(writers'[j], msg.stop_time)
      BY <2>1, StopLoop
    <3>2. PICK out : /\ Notify(Head(todo), out, TRUE)
                     /\ SameWriter(writers[Head(todo) + 1], out.writer)
      BY <2>1, LoopStep DEF StopInv, AlignedInv, RoutingInv, StopWriter
    <3>3. i \in DOMAIN writers' /\ writers'[i].kind = "NXevent_data"
      BY <2>1, <3>2, LoopUpdate DEF StopInv, AlignedInv, RoutingInv, StopWriter, SameWriter
    <3> QED BY <3>1, <3>3 DEF StopsAt
  <2>2. CASE ~StopWriter
    <3>1. \A m \in Message : HandleMessage(m) => run_stop_received' = run_stop_received
                                                 \/ writers = <<>>
      BY DEF HandleMessage, IgnoreMessage, UnroutedMessage, StopWithoutWriters, BeginMessage,
             BeginRunStop, Begin, fileVars
    <3>2. Build => run_stop_received' = run_stop_received
      BY DEF Build, CreateWriter, PlacementFails, SubscribeWriter, PushWriter, FinishStructure,
             handling
    <3>3. ~NotifyWriter
      <4>1. \A id, out : Notify(id, out, FALSE) => run_stop_received' = run_stop_received
                                                  \/ (run_stop_received' <=> run_stop_received)
        BY DEF Notify, Continue, handling
      <4>2. NotifyWriter => \/ run_stop_received' = run_stop_received
                            \/ \E id, out : Notify(id, out, FALSE)
        BY DEF NotifyWriter, handling
      <4> QED BY <4>1, <4>2
    <3>4. run_stop_received' # run_stop_received
      OBVIOUS
    <3>5. writers # <<>>
      OBVIOUS
    <3> QED BY <2>2, <3>1, <3>2, <3>3, <3>4, <3>5, Zenon DEF FileNext
  <2> QED BY <2>1, <2>2
<1> QED BY <1>1, StopInit, StopStep, PTL DEF FileSpec, StopRecordedLast
=============================================================================
