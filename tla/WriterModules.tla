--------------------------- MODULE WriterModules ---------------------------
(***************************************************************************)
(* The writer modules and what PlacedWriter makes of their results.  An    *)
(* operation that may fail part-way is the set of its outcomes: the writer *)
(* it leaves behind and "Ok" or "Err".                                     *)
(*                                                                         *)
(* A dataset is the sequence of its cells.  A cell written from a message  *)
(* is <<id of the message, row>>, so that a property can tell where every  *)
(* row of the file came from; a cell that a resize created and nothing     *)
(* wrote is Fill.                                                          *)
(***************************************************************************)
EXTENDS StreamTypes

CONSTANTS
  Fill,      \* the fill value of an HDF5 dataset
  Forever,   \* u64::MAX, the stop time of a run that has not been told one
  Faults     \* whether the calls that may fail (HDF5, structure, Kafka) ever do

ASSUME WriterAssumption ==
  Forever \in Nat /\ Faults \in BOOLEAN /\ Fill \notin MessageIds \X Nat

Outcome(w, res) == [writer |-> w, result |-> res]

\* The state in which an HDF5 call that fails leaves the writer, if it may fail.
Broken(w) == IF Faults THEN {Outcome(w, "Err")} ELSE {}

\* RunStartParameters::from_pl72: a run start without a stop time has 0 there
FromPl72(rs) == [rs EXCEPT !.stop_time_ms = IF @ = 0 THEN Forever ELSE @]

(***************************************************************************)
(* NXeventdata::create and init: three empty datasets.  A module of        *)
(* another kind has the same record and leaves the fields alone.           *)
(***************************************************************************)
NewWriter(spec, run) ==
  [kind |-> spec.module, subscriptions |-> spec.subscriptions,
   run_start_time_ms |-> run.start_time_ms, run_stop_time_ms |-> run.stop_time_ms,
   latest_message_time_ms |-> 0,
   event_time_zero |-> <<>>, event_id |-> <<>>, event_time_offset |-> <<>>]

Rows(id, n) == [i \in 1..n |-> <<id, i>>]

\* Dataset::resize and Dataset::write_slice(cells, from..)
Resize(col, n) == [i \in 1..n |-> IF i <= Len(col) THEN col[i] ELSE Fill]

WriteSlice(col, from, cells) ==
  [i \in 1..Len(col) |-> IF i <= from THEN col[i] ELSE cells[i - from]]

\* The pu00 arm of NXeventdata::on_message
WritePulse(w, id) ==
  LET n       == Len(w.event_time_zero)
      resized == [w EXCEPT !.event_time_zero = Resize(@, n + 1)]
      written == [resized EXCEPT !.event_time_zero = WriteSlice(@, n, Rows(id, 1))]
  IN  Broken(w) \cup Broken(resized) \cup {Outcome(written, "Ok")}

\* Slip: the two lengths are not compared
ValidEventsOfAnyLength(m) == m.pixel_id # None /\ m.time_of_flight # None

(***************************************************************************)
(* The ev44 arm.  PlacedWriter::on_message turns InvalidData into Ok, so a *)
(* message without its vectors, or with vectors of two lengths, is dropped *)
(* before anything is touched.  The four HDF5 calls that follow may each   *)
(* fail after the ones before it took effect.                              *)
(***************************************************************************)
ValidEvents(m) == m.pixel_id # None /\ m.time_of_flight # None
                  /\ m.pixel_id = m.time_of_flight

WriteEvents(w, m) ==
  LET n   == Len(w.event_time_offset)
      ids == [w   EXCEPT !.event_id          = Resize(@, n + m.pixel_id)]
      two == [ids EXCEPT !.event_time_offset = Resize(@, n + m.time_of_flight)]
      idw == [two EXCEPT !.event_id          = WriteSlice(@, n, Rows(m.id, m.pixel_id))]
      all == [idw EXCEPT !.event_time_offset = WriteSlice(@, n, Rows(m.id, m.time_of_flight))]
  IN  IF ValidEvents(m)
      THEN UNION {Broken(w), Broken(ids), Broken(two), Broken(idw), {Outcome(all, "Ok")}}
      ELSE {Outcome(w, "Ok")}

\* Slip: a message at exactly the start of the run is taken to be before it
InWindowStrict(w, ts) == w.run_start_time_ms < ts /\ ts <= w.run_stop_time_ms

InWindow(w, ts) == w.run_start_time_ms <= ts /\ ts <= w.run_stop_time_ms

WriteData(w, m) ==
  CASE m.schema = "pu00" -> WritePulse(w, m.id)
    [] m.schema = "ev44" -> WriteEvents(w, m)
    [] OTHER             -> {Outcome(w, "Ok")}

\* Slip: `as u64` in place of a checked conversion, so that a negative time passes
NXeventdataOnMessageUnchecked(w, m) ==
  IF m.timestamp = None THEN WriteData(w, m)
  ELSE LET seen == [w EXCEPT !.latest_message_time_ms = m.timestamp]
       IN  IF InWindow(seen, m.timestamp) THEN WriteData(seen, m) ELSE {Outcome(seen, "Ok")}

\* NXeventdata::on_message
NXeventdataOnMessage(w, m) ==
  IF m.timestamp = None THEN WriteData(w, m)
  ELSE IF m.timestamp < 0 THEN {Outcome(w, "Err")}
  ELSE LET seen == [w EXCEPT !.latest_message_time_ms = m.timestamp]
       IN  IF InWindow(seen, m.timestamp) THEN WriteData(seen, m)
           ELSE {Outcome(seen, "Ok")}

(***************************************************************************)
(* PlacedWriter::on_message.  IXseblock accepts and drops every message; a *)
(* "plugin" stands for any other implementation of the WriterModule trait, *)
(* which may accept a message or fail, and finish when it likes.           *)
(***************************************************************************)
OnMessage(w, m) ==
  CASE w.kind = "NXevent_data" -> NXeventdataOnMessage(w, m)
    [] w.kind = "plugin"       -> {Outcome(w, "Ok"), Outcome(w, "Err")}
    [] OTHER                   -> {Outcome(w, "Ok")}

\* PlacedWriter::on_run_stop
OnRunStop(w, m) ==
  CASE w.kind = "NXevent_data" -> {Outcome([w EXCEPT !.run_stop_time_ms = m.stop_time], "Ok")}
    [] w.kind = "plugin"       -> {Outcome(w, "Ok"), Outcome(w, "Err")}
    [] OTHER                   -> {Outcome(w, "Ok")}

\* Slips: the start of the run for its stop, and "after the stop" for "at or after the stop"
WriterFinishedFromStart(w) ==
  w.kind = "NXevent_data" => w.latest_message_time_ms >= w.run_start_time_ms
WriterFinishedStrict(w) ==
  w.kind = "NXevent_data" => w.latest_message_time_ms > w.run_stop_time_ms

\* WriterModule::finished: may it be true, and may it be false?
WriterFinished(w) ==
  w.kind = "NXevent_data" => w.latest_message_time_ms >= w.run_stop_time_ms

WriterUnfinished(w) == w.kind = "plugin" \/ ~WriterFinished(w)
=============================================================================
