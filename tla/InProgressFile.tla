--------------------------- MODULE InProgressFile --------------------------
(***************************************************************************)
(* A file being written (src/run_writer/in_progress_file.rs): the writers  *)
(* placed in it, the router that says which of them a message is for, and  *)
(* whether the run has stopped.  The file is built from the list of writer *)
(* modules of its nexus_structure, then handed one message at a time, as   *)
(* SingleFileWriteTask::handle_one_message does.                           *)
(*                                                                         *)
(* The loops over subscriptions and over writers are one step per          *)
(* iteration; phase and todo are where the loop stands.                    *)
(***************************************************************************)
EXTENDS MessageRouter, WriterModules, FiniteSets

CONSTANTS
  Structures,  \* the structures a run start may carry: sequences of module specs
  RunStarts    \* run starts (pl72): [start_time_ms, stop_time_ms, job_id, control_topic]

VARIABLES
  run,                \* run_start_parameters
  specs,              \* the items of the structure not yet placed
  adding,             \* the writer add_placed_writer is subscribing, or None
  subscribed,         \* how many of its subscriptions are in the router
  writers,            \* Vec<PlacedWriter>, in the order they were placed
  router,             \* MessageRouter
  run_stop_received,
  phase,              \* building, ready, message, stop or failed
  msg,                \* the message being handled, or None
  todo,               \* ids of the writers it is still to be given to
  error               \* the FileWriterError, or None

placement == <<specs, adding, subscribed, router>>
handling  == <<run_stop_received, msg, todo>>
fileVars  == <<run, specs, adding, subscribed, writers, router, run_stop_received,
               phase, msg, todo, error>>

RunStart == [start_time_ms : Nat, stop_time_ms : Nat, job_id : JobIds,
             control_topic : Topics \cup {None}]

ModuleSpec == [module : {"NXevent_data", "IXseblock", "plugin"},
               subscriptions : Seq(Subscription)]

ASSUME StructureAssumption == Structures \subseteq Seq(ModuleSpec) /\ RunStarts \subseteq RunStart

RunParameters == {FromPl72(rs) : rs \in RunStarts}

FileInit ==
  /\ run \in RunParameters /\ specs \in Structures
  /\ adding = None /\ subscribed = 0 /\ writers = <<>> /\ router = EmptyRouter
  /\ run_stop_received = FALSE /\ phase = "building"
  /\ msg = None /\ todo = <<>> /\ error = None

\* The variants of FileWriterError that building or feeding the file may end in
Errors == {"NexusStructureError", "Hdf5Error", "WriterModuleError", "WriterModuleNotFound"}

ASSUME ErrorAssumption == None \notin Errors

Fail(e) == phase' = "failed" /\ error' = e

-----------------------------------------------------------------------------
(***************************************************************************)
(* InProgressFile::new: use_structure, add_child and add_placed_writer.    *)
(***************************************************************************)

\* PlacedWriter::new, once the groups above the module exist
CreateWriter ==
  /\ phase = "building" /\ adding = None /\ specs # <<>>
  /\ adding' = NewWriter(Head(specs), run)
  /\ specs' = Tail(specs) /\ subscribed' = 0
  /\ UNCHANGED <<run, writers, router, phase, error, handling>>

\* An unknown child or module, a bad config, or an HDF5 error
PlacementFails ==
  /\ phase = "building" /\ adding = None /\ Faults
  /\ \E e \in {"NexusStructureError", "Hdf5Error"} : Fail(e)
  /\ UNCHANGED <<run, writers, placement, handling>>

\* Slip: the writer's id is taken as if it had been pushed already
SubscribeWriterAfterPush ==
  /\ phase = "building" /\ adding # None
  /\ subscribed < Len(adding.subscriptions)
  /\ router' = Subscribe(router, Len(writers) + 1, adding.subscriptions[subscribed + 1])
  /\ subscribed' = subscribed + 1
  /\ UNCHANGED <<run, specs, adding, writers, phase, error, handling>>

SubscribeWriter ==
  /\ phase = "building" /\ adding # None
  /\ subscribed < Len(adding.subscriptions)
  /\ router' = Subscribe(router, Len(writers), adding.subscriptions[subscribed + 1])
  /\ subscribed' = subscribed + 1
  /\ UNCHANGED <<run, specs, adding, writers, phase, error, handling>>

PushWriter ==
  /\ phase = "building" /\ adding # None
  /\ subscribed = Len(adding.subscriptions)
  /\ writers' = Append(writers, adding)
  /\ adding' = None /\ subscribed' = 0
  /\ UNCHANGED <<run, specs, router, phase, error, handling>>

\* The attributes of the root are written last
FinishStructure ==
  /\ phase = "building" /\ adding = None /\ specs = <<>>
  /\ phase' = "ready"
  /\ UNCHANGED <<run, writers, placement, error, handling>>

Build == CreateWriter \/ PlacementFails \/ SubscribeWriter \/ PushWriter \/ FinishStructure

-----------------------------------------------------------------------------
(***************************************************************************)
(* handle_one_message, InProgressFile::on_message and on_run_stop.         *)
(***************************************************************************)
IsOwnStop(m) == m.schema = "stop" /\ m.job_id = run.job_id

\* No payload, not deserializable, or the stop of another job
IgnoreMessage(m) ==
  /\ phase = "ready"
  /\ m.schema \in {"empty", "garbage"} \/ (m.schema = "stop" /\ m.job_id # run.job_id)
  /\ UNCHANGED fileVars

Begin(m, kind, ids) ==
  /\ phase = "ready" /\ ids # <<>>
  /\ phase' = kind /\ msg' = m /\ todo' = ids
  /\ UNCHANGED <<run, writers, placement, run_stop_received, error>>

BeginMessage(m) ==
  /\ m.schema \notin {"empty", "garbage", "stop"}
  /\ Begin(m, "message", WritersFor(router, m.topic, m.key))

UnroutedMessage(m) ==
  /\ phase = "ready"
  /\ m.schema \notin {"empty", "garbage", "stop"}
  /\ WritersFor(router, m.topic, m.key) = <<>>
  /\ UNCHANGED fileVars

\* Slip: the run stop goes where a message of its topic would go
BeginRunStopRouted(m) ==
  /\ IsOwnStop(m)
  /\ Begin(m, "stop", WritersFor(router, m.topic, m.key))

BeginRunStop(m) ==
  /\ IsOwnStop(m)
  /\ Begin(m, "stop", [i \in 1..Len(writers) |-> i - 1])

StopWithoutWriters(m) ==
  /\ phase = "ready" /\ IsOwnStop(m) /\ writers = <<>>
  /\ run_stop_received' = TRUE
  /\ UNCHANGED <<run, writers, placement, phase, msg, todo, error>>

HandleMessage(m) ==
  \/ IgnoreMessage(m) \/ UnroutedMessage(m) \/ StopWithoutWriters(m)
  \/ BeginMessage(m) \/ BeginRunStop(m)

\* Slip: run_stop_received is set before the loop has succeeded
ContinueAtOnce(stopping) ==
  /\ todo' = Tail(todo)
  /\ phase' = IF Tail(todo) = <<>> THEN "ready" ELSE phase
  /\ msg' = IF Tail(todo) = <<>> THEN None ELSE msg
  /\ run_stop_received' = (run_stop_received \/ stopping)
  /\ error' = error

(***************************************************************************)
(* One iteration of either loop.  After the last one control is back at    *)
(* the poll; only then does on_run_stop record that the run has stopped.   *)
(* A failure leaves the rest of the writers without the message.           *)
(***************************************************************************)
Continue(stopping) ==
  /\ todo' = Tail(todo)
  /\ phase' = IF Tail(todo) = <<>> THEN "ready" ELSE phase
  /\ msg' = IF Tail(todo) = <<>> THEN None ELSE msg
  /\ run_stop_received' = (run_stop_received \/ (stopping /\ Tail(todo) = <<>>))
  /\ error' = error

Notify(id, out, stopping) ==
  /\ writers' = [writers EXCEPT ![id + 1] = out.writer]
  /\ IF out.result = "Ok" THEN Continue(stopping)
     ELSE Fail("WriterModuleError") /\ UNCHANGED handling

NotifyWriter ==
  /\ phase = "message"
  /\ IF Head(todo) < Len(writers)
     THEN \E out \in OnMessage(writers[Head(todo) + 1], msg) : Notify(Head(todo), out, FALSE)
     ELSE Fail("WriterModuleNotFound") /\ UNCHANGED <<writers, handling>>
  /\ UNCHANGED <<run, placement>>

StopWriter ==
  /\ phase = "stop"
  /\ \E out \in OnRunStop(writers[Head(todo) + 1], msg) : Notify(Head(todo), out, TRUE)
  /\ UNCHANGED <<run, placement>>

\* InProgressFile::finished: may it be true, and may it be false?
Finished == run_stop_received /\ \A i \in 1..Len(writers) : WriterFinished(writers[i])

Unfinished ==
  ~run_stop_received \/ \E i \in 1..Len(writers) : WriterUnfinished(writers[i])

FileNext == Build \/ NotifyWriter \/ StopWriter \/ \E m \in Message : HandleMessage(m)

FileSpec == FileInit /\ [][FileNext]_fileVars

-----------------------------------------------------------------------------
Cells == (MessageIds \X Nat) \cup {Fill}

PlacedWriter ==
  [kind : {"NXevent_data", "IXseblock", "plugin"}, subscriptions : Seq(Subscription),
   run_start_time_ms : Nat, run_stop_time_ms : Nat, latest_message_time_ms : Nat,
   event_time_zero : Seq(Cells), event_id : Seq(Cells), event_time_offset : Seq(Cells)]

\* The types of the fields, and what the phase says of msg, todo and error.
FileTypeOK ==
  /\ run \in RunStart /\ specs \in Seq(ModuleSpec)
  /\ adding \in PlacedWriter \cup {None} /\ subscribed \in Nat
  /\ adding # None => subscribed <= Len(adding.subscriptions)
  /\ writers \in Seq(PlacedWriter) /\ IsRouter(router) /\ run_stop_received \in BOOLEAN
  /\ phase \in {"building", "ready", "message", "stop", "failed"}
  /\ msg \in Message \cup {None} /\ todo \in Seq(Nat)
  /\ phase \in {"message", "stop"} => msg \in Message /\ todo # <<>>
  /\ phase \in {"building", "ready"} => msg = None /\ todo = <<>>
  /\ phase \in {"ready", "message", "stop"} => adding = None
  /\ error \in Errors \cup {None} /\ (error # None) = (phase = "failed")

\* The subscriptions of writer id that add_placed_writer has registered so far.
Registered(id) ==
  IF id < Len(writers)
  THEN Range(writers[id + 1].subscriptions)
  ELSE IF id = Len(writers) /\ adding # None
       THEN {adding.subscriptions[i] : i \in 1..subscribed}
       ELSE {}

RoutedTo(t, k) == Range(WritersFor(router, t, k))

Subscribers(t, k) ==
  {id \in 0..Len(writers) : \E sub \in Registered(id) : Matches(sub, t, k)}

(***************************************************************************)
(* The router sends a message to exactly the writers that subscribed to    *)
(* its topic with its key or with all keys, at every point of the build:   *)
(* the topic and key maps of message_router.rs lose no subscription of an  *)
(* earlier writer and mix up no two keys or topics.                        *)
(***************************************************************************)
RoutedAsSubscribed ==
  \A t \in Topics, k \in Keys \cup {None} : RoutedTo(t, k) = Subscribers(t, k)

\* The same registrations, each subscription counted
Registrations(id, t, k) ==
  LET count == IF id < Len(writers) THEN Len(writers[id + 1].subscriptions) ELSE subscribed
      sub(i) == IF id < Len(writers) THEN writers[id + 1].subscriptions[i]
                ELSE adding.subscriptions[i]
  IN  {i \in 1..count : Matches(sub(i), t, k)}

Deliveries(id, t, k) ==
  {i \in DOMAIN WritersFor(router, t, k) : WritersFor(router, t, k)[i] = id}

(***************************************************************************)
(* A writer is handed a message once for each of its subscriptions that    *)
(* match: twice, if it has subscribed to all keys and to the message's, or *)
(* to the same key twice.  The router neither merges nor repeats them.     *)
(***************************************************************************)
OncePerSubscription ==
  \A id \in 0..Len(writers), t \in Topics, k \in Keys \cup {None} :
    Cardinality(Deliveries(id, t, k)) = Cardinality(Registrations(id, t, k))

(***************************************************************************)
(* The ids in the router and the indices of writers never go out of sync:  *)
(* the branch of InProgressFile::on_message that reports                   *)
(* WriterModuleNotFound is never taken.                                    *)
(***************************************************************************)
WriterAlwaysFound ==
  /\ error # "WriterModuleNotFound"
  /\ phase \in {"message", "stop"} => \A i \in DOMAIN todo : todo[i] < Len(writers)

\* A dataset in which every cell was written; one whose resize was not filled has Fill
Written(col) == \A i \in DOMAIN col : col[i] # Fill

Aligned(w) ==
  w.event_id = w.event_time_offset /\ Written(w.event_id) /\ Written(w.event_time_zero)

(***************************************************************************)
(* While no call has failed, the two event columns of a writer are row for *)
(* row from the same messages, and no cell is left unwritten by a resize,  *)
(* whatever malformed messages came in between (nxevent_data.rs, ev44).    *)
(***************************************************************************)
ColumnsAligned == phase # "failed" => \A i \in DOMAIN writers : Aligned(writers[i])

(***************************************************************************)
(* Between two messages every event writer agrees on when the run stops: a *)
(* run stop reaches the writers that the router would not route it to.     *)
(***************************************************************************)
StopTimeAgreed ==
  phase = "ready" =>
    \A i, j \in {n \in DOMAIN writers : writers[n].kind = "NXevent_data"} :
      writers[i].run_stop_time_ms = writers[j].run_stop_time_ms

(***************************************************************************)
(* The run is recorded as stopped only when every event writer has been    *)
(* given the stop time of that message: a writer that fails half-way       *)
(* through the loop of on_run_stop leaves the run unstopped.               *)
(***************************************************************************)
StopRecordedLast ==
  [][~run_stop_received /\ run_stop_received' =>
       \A i \in DOMAIN writers :
         writers[i].kind = "NXevent_data" => writers'[i].run_stop_time_ms = msg.stop_time]_fileVars
=============================================================================
