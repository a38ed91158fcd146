------------------------------ MODULE WriteTask ----------------------------
(***************************************************************************)
(* Writing one run (src/run_writer/single_file_write_task.rs): resolve the *)
(* structure, create and build the file, assign the data consumer from the *)
(* seek timestamp, hand every message to the file until it says that it is *)
(* finished, unassign, close.  stage is the call that comes next.          *)
(*                                                                         *)
(* Kafka is a log per partition that producers go on appending to while    *)
(* the task runs; poll() returns the next message of any partition, so the *)
(* order between partitions is arbitrary and the order within one is not.  *)
(* A poll that returns nothing or an error changes nothing and is retried. *)
(***************************************************************************)
EXTENDS InProgressFile, FiniteSetsExt

CONSTANTS
  Partitions,     \* <<topic, number>>
  Histories,      \* [log, published]: what producers write, and how much of it before the task
  JobPoolTopic,   \* config.job_pool_topic
  SeekBack,       \* config.stream_seek_back_in_time_ms
  MaxTimestamp,   \* i64::MAX
  AtEnd           \* Offset::End

ASSUME TaskAssumption ==
  /\ \A p \in Partitions : p[1] \in Topics
  /\ JobPoolTopic \in Topics /\ SeekBack \in Nat /\ MaxTimestamp \in Nat /\ AtEnd \notin Nat
  /\ \A h \in Histories :
       /\ h.log \in [Partitions -> Seq(Message)] /\ h.published \in [Partitions -> Nat]
       /\ \A p \in Partitions :
            /\ h.published[p] <= Len(h.log[p])
            /\ \A i \in DOMAIN h.log[p] : h.log[p][i].id = <<p, i>> /\ h.log[p][i].topic = p[1]

\* NXeventdata::create subscribes once, to one topic and all of its keys.
ASSUME SubscriptionAssumption ==
  \A s \in Structures : \A i \in DOMAIN s :
    s[i].module = "NXevent_data" => Len(s[i].subscriptions) = 1

VARIABLES
  stage,        \* structure, create, build, assign, poll, unassign, close or done
  file,         \* absent, open or closed
  log,          \* what each partition holds and will hold
  published,    \* how many messages of it the brokers have
  assignment,   \* partition to the offset given to assign(), empty when unassigned
  position,     \* partition to how many messages of its log lie before the next to be read
  handled,      \* every message handle_one_message was given
  result        \* what write_data_for_run returns: "Ok" or an error, None before

taskVars == <<stage, file, log, published, assignment, position, handled, result>>
kafka    == <<log, published>>
consumer == <<assignment, position>>
vars     == <<fileVars, taskVars>>

TaskInit ==
  /\ FileInit
  /\ stage = "structure" /\ file = "absent" /\ handled = {} /\ result = None
  /\ \E h \in Histories : log = h.log /\ published = h.published
  /\ assignment = EmptyMap /\ position = EmptyMap

-----------------------------------------------------------------------------
Return(r) == stage' = "done" /\ result' = r

ResolveStructure ==
  /\ stage = "structure"
  /\ \/ stage' = "create" /\ UNCHANGED result
     \/ Faults /\ \E e \in {"NexusStructureError", "IoError"} : Return(e)
  /\ UNCHANGED <<fileVars, file, handled, kafka, consumer>>

\* Slip: a file that cannot be created is only logged
CreateFileOrGiveUp ==
  /\ stage = "create"
  /\ \/ stage' = "build" /\ file' = "open" /\ UNCHANGED result
     \/ Faults /\ Return("Ok") /\ UNCHANGED file
  /\ UNCHANGED <<fileVars, handled, kafka, consumer>>

\* File::create_excl; it fails too when the file exists
CreateFile ==
  /\ stage = "create"
  /\ \/ stage' = "build" /\ file' = "open" /\ UNCHANGED result
     \/ Faults /\ Return("CreateError") /\ UNCHANGED file
  /\ UNCHANGED <<fileVars, handled, kafka, consumer>>

\* Slip: the error leaves with_nexus_file at once, as `?` would
AbandonUnclosed(e) == stage' = "done" /\ result' = e

\* An error below with_nexus_file and outside with_assignment
Abandon(e) == stage' = "close" /\ result' = e

BuildFile ==
  /\ stage = "build"
  /\ \/ /\ Build /\ UNCHANGED <<stage, result>>
     \/ /\ phase = "ready" /\ stage' = "assign" /\ UNCHANGED <<fileVars, result>>
     \/ /\ phase = "failed" /\ Abandon(error) /\ UNCHANGED fileVars
  /\ UNCHANGED <<file, handled, kafka, consumer>>

\* u64::saturating_sub
SeekTimestamp == IF run.start_time_ms < SeekBack THEN 0 ELSE run.start_time_ms - SeekBack

ControlTopic == IF run.control_topic = None THEN JobPoolTopic ELSE run.control_topic

AssignedTopics == RoutedTopics(router) \cup {ControlTopic}

\* Consumer::offsets_for_times: the first message at or after the time, or the end
OffsetForTime(p, time) ==
  LET late(i) == log[p][i].timestamp # None /\ log[p][i].timestamp >= time
      first   == {i \in 1..published[p] : late(i) /\ \A j \in 1..(i - 1) : ~late(j)}
  IN  IF first = {} THEN AtEnd ELSE (CHOOSE i \in first : TRUE) - 1

\* partitions_for: a topic that the brokers do not know is an error
Known(t) == \E p \in Partitions : p[1] = t

AssignedPartitions == {p \in Partitions : p[1] \in AssignedTopics}

\* Nobody looks at the errors of single partitions, which leave them at their end.
AssignPartitions ==
  /\ \E missed \in IF Faults THEN SUBSET AssignedPartitions ELSE {{}} :
       assignment' = [p \in AssignedPartitions |->
                        IF p \in missed THEN AtEnd ELSE OffsetForTime(p, SeekTimestamp)]
  /\ position' = assignment' /\ stage' = "poll" /\ UNCHANGED result

\* Slip: the metadata of a topic that is not there is taken for one without partitions
AssignKnown ==
  /\ stage = "assign"
  /\ IF SeekTimestamp > MaxTimestamp
     THEN Abandon("IntegerError") /\ UNCHANGED consumer
     ELSE AssignPartitions \/ (Faults /\ Abandon("StreamError") /\ UNCHANGED consumer)
  /\ UNCHANGED <<fileVars, file, handled, kafka>>

Assign ==
  /\ stage = "assign"
  /\ IF SeekTimestamp > MaxTimestamp
     THEN Abandon("IntegerError") /\ UNCHANGED consumer
     ELSE \/ (\A t \in AssignedTopics : Known(t)) /\ AssignPartitions
          \/ /\ Faults \/ \E t \in AssignedTopics : ~Known(t)
             /\ Abandon("StreamError") /\ UNCHANGED consumer
  /\ UNCHANGED <<fileVars, file, handled, kafka>>

\* The consumer's fetcher asks the broker where the end is.
ResolveEnd(p) ==
  /\ p \in DOMAIN position /\ position[p] = AtEnd
  /\ position' = [position EXCEPT ![p] = published[p]]
  /\ UNCHANGED <<fileVars, stage, file, assignment, handled, result, kafka>>

Publish(p) ==
  /\ published[p] < Len(log[p])
  /\ published' = [published EXCEPT ![p] = @ + 1]
  /\ UNCHANGED <<fileVars, stage, file, log, handled, result, consumer>>

-----------------------------------------------------------------------------
Available(p) == p \in DOMAIN position /\ position[p] # AtEnd /\ position[p] < published[p]

\* Slip: the consumer is not advanced, and the message is read again
PollAgain(p) ==
  /\ stage = "poll" /\ phase = "ready" /\ Unfinished /\ Available(p)
  /\ HandleMessage(log[p][position[p] + 1])
  /\ handled' = handled \cup {log[p][position[p] + 1]}
  /\ UNCHANGED <<stage, file, result, kafka, consumer>>

Poll(p) ==
  /\ stage = "poll" /\ phase = "ready" /\ Unfinished /\ Available(p)
  /\ HandleMessage(log[p][position[p] + 1])
  /\ handled' = handled \cup {log[p][position[p] + 1]}
  /\ position' = [position EXCEPT ![p] = @ + 1]
  /\ UNCHANGED <<stage, file, assignment, result, kafka>>

PassOn ==
  /\ stage = "poll" /\ (NotifyWriter \/ StopWriter)
  /\ UNCHANGED taskVars

\* handle_messages_until_run_stop returns
LeaveLoop ==
  /\ stage = "poll"
  /\ phase = "failed" \/ (phase = "ready" /\ Finished)
  /\ stage' = "unassign"
  /\ UNCHANGED <<fileVars, file, handled, result, kafka, consumer>>

\* Slip: the error of unassign() hides that of the loop
UnassignErrorFirst ==
  /\ stage = "unassign" /\ stage' = "close"
  /\ \/ /\ assignment' = EmptyMap /\ position' = EmptyMap
        /\ result' = IF error = None THEN "Ok" ELSE error
     \/ /\ Faults /\ UNCHANGED consumer
        /\ result' = "StreamError"
  /\ UNCHANGED <<fileVars, file, handled, kafka>>

\* The tail of with_assignment: the error of the loop comes first
Unassign ==
  /\ stage = "unassign" /\ stage' = "close"
  /\ \/ /\ assignment' = EmptyMap /\ position' = EmptyMap
        /\ result' = IF error = None THEN "Ok" ELSE error
     \/ /\ Faults /\ UNCHANGED consumer
        /\ result' = IF error = None THEN "StreamError" ELSE error
  /\ UNCHANGED <<fileVars, file, handled, kafka>>

\* The tail of with_nexus_file; a flush or close that fails is only logged
CloseFile ==
  /\ stage = "close" /\ stage' = "done" /\ file' = "closed"
  /\ UNCHANGED <<fileVars, handled, result, kafka, consumer>>

TaskStep == ResolveStructure \/ CreateFile \/ BuildFile \/ Assign \/ PassOn \/ LeaveLoop
            \/ Unassign \/ CloseFile

TaskNext ==
  TaskStep \/ \E p \in Partitions : Poll(p) \/ Publish(p) \/ ResolveEnd(p)

TaskSpec == TaskInit /\ [][TaskNext]_vars

(***************************************************************************)
(* The task is one thread, which no lock or queue holds up: it takes its   *)
(* next step, and poll returns a message if any partition has one.  The    *)
(* producers write their logs and the fetcher gets its answers.            *)
(***************************************************************************)
Fairness ==
  /\ WF_vars(TaskStep \/ \E p \in Partitions : Poll(p))
  /\ \A p \in Partitions : WF_vars(Publish(p)) /\ WF_vars(ResolveEnd(p))

FairTaskSpec == TaskSpec /\ Fairness

-----------------------------------------------------------------------------
Results == Errors \cup {"IoError", "CreateError", "IntegerError", "StreamError", "Ok"}

ASSUME ResultAssumption == None \notin Results

\* The types, that the file is open from create_excl to close on every path, and that a
\* partition is read only while it is assigned, up to what it holds.
TaskTypeOK ==
  /\ FileTypeOK
  /\ stage \in {"structure", "create", "build", "assign", "poll", "unassign", "close", "done"}
  /\ file \in {"absent", "open", "closed"} /\ result \in Results \cup {None}
  /\ (file = "open") = (stage \in {"build", "assign", "poll", "unassign", "close"})
  /\ log \in [Partitions -> Seq(Message)] /\ handled \subseteq Message
  /\ published \in [Partitions -> Nat] /\ \A p \in Partitions : published[p] <= Len(log[p])
  /\ DOMAIN assignment \subseteq Partitions /\ DOMAIN position = DOMAIN assignment
  /\ \A p \in DOMAIN position : position[p] = AtEnd \/ position[p] \in 0..published[p]

(***************************************************************************)
(* write_data_for_run returns Ok only for a run whose stop was received    *)
(* and whose writers all say they have finished, with the file closed and  *)
(* the consumer unassigned; otherwise it returns the first error, whatever *)
(* else fails on the way out (the precedence in with_assignment).          *)
(***************************************************************************)
ResultIsFirstOutcome ==
  /\ result = "Ok" => error = None /\ Finished /\ assignment = EmptyMap
  /\ result # None /\ error # None => result = error
  /\ stage = "done" => result # None /\ file # "open" /\ (result = "Ok" => file = "closed")

(***************************************************************************)
(* A task that has begun to poll reads every partition of every topic that *)
(* one of its writers subscribed to, and of the topic on which its run is  *)
(* stopped: a topic that is missing is an error and never a writer that    *)
(* waits for nothing, nor a run that nobody can stop.                      *)
(***************************************************************************)
TopicsAssigned ==
  stage = "poll" =>
    LET needed == {ControlTopic} \cup UNION {{writers[i].subscriptions[j].topic :
                    j \in DOMAIN writers[i].subscriptions} : i \in DOMAIN writers}
    IN  \A t \in needed : Known(t) /\ \A p \in Partitions : p[1] = t => p \in DOMAIN assignment

EventWriters == {writers[i] : i \in {n \in DOMAIN writers : writers[n].kind = "NXevent_data"}}

For(w, m) == \E i \in DOMAIN w.subscriptions : Matches(w.subscriptions[i], m.topic, m.key)

\* Does message m bring rows of a run that lasts from start to stop?
EventsOf(m, start, stop) ==
  /\ m.schema = "ev44" /\ ValidEvents(m) /\ m.pixel_id > 0
  /\ m.timestamp # None => start <= m.timestamp /\ m.timestamp <= stop

Recorded(w) == {w.event_id[i][1] : i \in DOMAIN w.event_id}

StopTimes == {run.stop_time_ms} \cup {m.stop_time : m \in {h \in handled : IsOwnStop(h)}}

(***************************************************************************)
(* Between two messages: of those received, every one whose timestamp is   *)
(* in the run by every stop time the task has been told so far is in the   *)
(* file, and no row is in it that no stop time admits or that came from    *)
(* another topic, whatever the order of events and of repeated, early or   *)
(* late run stops.  An event that lies between two stop times may be in    *)
(* the file or not: that depends on the order, and is not claimed.         *)
(***************************************************************************)
ReceivedEventsRecorded ==
  phase = "ready" =>
    \A w \in EventWriters :
      /\ \A m \in handled :
           For(w, m) /\ (\A s \in StopTimes : EventsOf(m, run.start_time_ms, s))
             => m.id \in Recorded(w)
      /\ \A id \in Recorded(w) : \E m \in handled, s \in StopTimes :
           m.id = id /\ For(w, m) /\ EventsOf(m, run.start_time_ms, s)

PartitionsOf(w) ==
  {p \in Partitions : \E i \in DOMAIN w.subscriptions : w.subscriptions[i].topic = p[1]}

InOrder(p) ==
  \A i, j \in DOMAIN log[p] :
    /\ log[p][i].timestamp # None
    /\ i < j => log[p][i].timestamp < log[p][j].timestamp

\* The messages of partition p that bring events of the run, as writer w knows it
Wanted(w, p) ==
  {i \in DOMAIN log[p] : EventsOf(log[p][i], run.start_time_ms, w.run_stop_time_ms)}

(***************************************************************************)
(* finished() is safe to act on for a topic with one partition written in  *)
(* order, whose place was known when the consumer was assigned: when the   *)
(* loop has ended without an error every message of the run was received.  *)
(* A stop time of 0 is passed before anything is read, since               *)
(* latest_message_time_ms starts from it.                                  *)
(***************************************************************************)
CompleteWhenInOrder ==
  stage = "unassign" /\ error = None =>
    \A w \in EventWriters, p \in Partitions :
      /\ PartitionsOf(w) = {p} /\ InOrder(p) /\ assignment[p] # AtEnd
      /\ w.run_stop_time_ms > 0
      => \A i \in Wanted(w, p) : log[p][i] \in handled

\* The rows of w that a reader sees: those the two columns agree on
Visible(w) ==
  LET both == {i \in DOMAIN w.event_id \cap DOMAIN w.event_time_offset :
                 w.event_id[i] = w.event_time_offset[i] /\ w.event_id[i] # Fill}
  IN  [i \in both |-> w.event_id[i]]

EventsIn(m) == IF m.pixel_id = None THEN 0 ELSE m.pixel_id

EF == INSTANCE EventFile WITH
        events <- [p \in Partitions |-> [i \in DOMAIN log[p] |-> EventsIn(log[p][i])]],
        status <- file,
        rows <- [i \in DOMAIN writers |-> Visible(writers[i])]

(***************************************************************************)
(* The task implements EventFile: whatever fails half-way, a reader sees   *)
(* each message's events whole, once, and in the order of their partition, *)
(* and never a change to a closed file.                                    *)
(***************************************************************************)
IsEventFile == EF!Spec

Fate == INSTANCE RunFate WITH
  fate <- IF stage # "done" THEN "taken" ELSE IF result = "Ok" THEN "written" ELSE "failed",
  file <- IF file = "absent" THEN "absent" ELSE "made"

(***************************************************************************)
(* The task is the step that FileWriter takes it for: it makes its file    *)
(* once, returns Ok only after that, and an error with or without a file.  *)
(***************************************************************************)
TaskKeepsFate == Fate!Spec

(***************************************************************************)
(* Every run ends: given partitions in order that reach past the stop time *)
(* and a run stop on the control topic, write_data_for_run returns.        *)
(***************************************************************************)
TaskEnds == <>(stage = "done")

-----------------------------------------------------------------------------
(***************************************************************************)
(* "This writer module doesn't write messages before / after run."         *)
(* (nxevent_data.rs): a file that is complete holds no row of a message    *)
(* whose timestamp is outside the run.                                     *)
(***************************************************************************)
OnlyRunEventsWritten ==
  result = "Ok" =>
    \A w \in EventWriters, m \in handled :
      m.id \in Recorded(w) => EventsOf(m, run.start_time_ms, w.run_stop_time_ms)

(***************************************************************************)
(* finished() "should return true if all necessary data has been received" *)
(* (writer_module.rs): no message of the run that was there to be read has *)
(* been left unread by a task that ends well.                              *)
(***************************************************************************)
NothingMissingFromCompletedRun ==
  result = "Ok" =>
    \A w \in EventWriters :
      \A p \in PartitionsOf(w) :
        \A i \in Wanted(w, p) : i <= published[p] => log[p][i] \in handled

(***************************************************************************)
(* The same sentence the other way: once the run stop and every message of *)
(* its partitions was received, at least one of them at or after the stop, *)
(* a writer says that it has finished.                                     *)
(***************************************************************************)
FinishedOnceAllReceived ==
  stage = "poll" /\ phase = "ready" /\ run_stop_received =>
    \A w \in EventWriters :
      /\ \A p \in PartitionsOf(w) : \A i \in DOMAIN log[p] : log[p][i] \in handled
      /\ \E m \in handled : For(w, m) /\ m.timestamp # None /\ m.timestamp >= w.run_stop_time_ms
      => WriterFinished(w)

(***************************************************************************)
(* "How far to seek-back and replay all streams before run start."         *)
(* (config.rs): of every partition assigned, the task is given all that    *)
(* lies between the seek timestamp and where it has got to.                *)
(***************************************************************************)
StreamsReplayed ==
  \A p \in {q \in DOMAIN position : position[q] # AtEnd} : \A i \in 1..position[p] :
    log[p][i].timestamp # None /\ log[p][i].timestamp >= SeekTimestamp => log[p][i] \in handled
=============================================================================
