--------------------------- MODULE WriteTaskProofs -------------------------
(***************************************************************************)
(* The safety properties of WriteTask for any partitions, histories, run   *)
(* starts, structures and failures.  Every step of the task is a step of   *)
(* the file or leaves the file alone (FileStep), so that what              *)
(* InProgressFileProofs has shown of the file holds here too.              *)
(***************************************************************************)
EXTENDS WriteTask, InProgressFileProofs

\* What TaskTypeOK says of the variables that the file does not have
Labels == {"structure", "create", "build", "assign", "poll", "unassign", "close", "done"}

LogOK ==
  /\ log \in [Partitions -> Seq(Message)] /\ handled \subseteq Message
  /\ published \in [Partitions -> Nat] /\ \A p \in Partitions : published[p] <= Len(log[p])

ConsumerOK ==
  /\ DOMAIN assignment \subseteq Partitions /\ DOMAIN position = DOMAIN assignment
  /\ \A p \in DOMAIN position : position[p] = AtEnd \/ position[p] \in 0..published[p]

OutcomeOK ==
  /\ stage \in Labels
  /\ file \in {"absent", "open", "closed"} /\ result \in Results \cup {None}
  /\ (file = "open") = (stage \in {"build", "assign", "poll", "unassign", "close"})

LEMMA TypeParts == TaskTypeOK <=> FileTypeOK /\ LogOK /\ ConsumerOK /\ OutcomeOK
  BY DEF TaskTypeOK, LogOK, ConsumerOK, OutcomeOK, Labels

-----------------------------------------------------------------------------
\* poll() returns a message of the log.
LEMMA NextMessage ==
  ASSUME LogOK, ConsumerOK, NEW p \in Partitions, Available(p)
  PROVE  /\ p \in DOMAIN position /\ position[p] \in Nat /\ position[p] + 1 \in 1..published[p]
         /\ position[p] + 1 \in DOMAIN log[p]
         /\ log[p][position[p] + 1] \in Message
<1>1. position[p] \in 0..published[p] /\ position[p] < published[p] /\ p \in DOMAIN position
  BY DEF Available, ConsumerOK
<1>2. published[p] \in Nat /\ published[p] <= Len(log[p]) /\ log[p] \in Seq(Message)
  BY DEF LogOK
<1>3. position[p] + 1 \in 1..published[p] /\ position[p] \in Nat /\ Len(log[p]) \in Nat
  BY <1>1, <1>2
<1>4. position[p] + 1 \in 1..Len(log[p])
  BY <1>2, <1>3
<1> QED BY <1>1, <1>2, <1>3, <1>4

(***************************************************************************)
(* A step of the task is one of the file, or does not touch it.            *)
(***************************************************************************)
LEMMA FileStep ==
  ASSUME LogOK, ConsumerOK, [TaskNext]_vars
  PROVE  [FileNext]_fileVars
<1>1. CASE \/ ResolveStructure \/ CreateFile \/ Assign \/ LeaveLoop \/ Unassign \/ CloseFile
           \/ \E p \in Partitions : Publish(p) \/ ResolveEnd(p)
  BY <1>1 DEF ResolveStructure, CreateFile, Assign, LeaveLoop, Unassign, CloseFile, Publish,
              ResolveEnd
<1>2. CASE BuildFile
  BY <1>2 DEF BuildFile, FileNext
<1>3. CASE PassOn
  BY <1>3 DEF PassOn, FileNext
<1>4. ASSUME NEW p \in Partitions, Poll(p) PROVE FileNext
  <2>1. log[p][position[p] + 1] \in Message /\ HandleMessage(log[p][position[p] + 1])
    BY <1>4, NextMessage DEF Poll
  <2> QED BY <2>1 DEF FileNext
<1>5. CASE UNCHANGED vars
  BY <1>5 DEF vars
<1> QED BY <1>1, <1>2, <1>3, <1>4, <1>5 DEF TaskNext, TaskStep

-----------------------------------------------------------------------------
LEMMA LogInit == TaskInit => LogOK
<1> SUFFICES ASSUME TaskInit PROVE LogOK
  OBVIOUS
<1>1. PICK h \in Histories : log = h.log /\ published = h.published
  BY DEF TaskInit
<1>2. /\ h.log \in [Partitions -> Seq(Message)] /\ h.published \in [Partitions -> Nat]
      /\ \A p \in Partitions : h.published[p] <= Len(h.log[p])
  BY TaskAssumption
<1> QED BY <1>1, <1>2 DEF TaskInit, LogOK

LEMMA LogStep ==
  ASSUME LogOK, ConsumerOK, [TaskNext]_vars
  PROVE  LogOK' /\ log' = log
<1>1. CASE TaskStep \/ UNCHANGED vars \/ \E p \in Partitions : ResolveEnd(p)
  <2>1. UNCHANGED <<log, published, handled>>
    BY <1>1 DEF TaskStep, ResolveStructure, CreateFile, BuildFile, Assign, PassOn, LeaveLoop,
                Unassign, CloseFile, ResolveEnd, kafka, vars, taskVars
  <2> QED BY <2>1 DEF LogOK
<1>2. ASSUME NEW p \in Partitions, Publish(p) PROVE LogOK' /\ log' = log
  <2>1. log' = log /\ handled' = handled /\ published' = [published EXCEPT ![p] = @ + 1]
        /\ published[p] < Len(log[p])
    BY <1>2 DEF Publish
  <2>2. \A q \in Partitions : Len(log[q]) \in Nat
    BY DEF LogOK
  <2> QED BY <2>1, <2>2 DEF LogOK
<1>3. ASSUME NEW p \in Partitions, Poll(p) PROVE LogOK' /\ log' = log
  <2>1. log[p][position[p] + 1] \in Message
    BY <1>3, NextMessage DEF Poll
  <2>2. UNCHANGED <<log, published>> /\ handled' = handled \cup {log[p][position[p] + 1]}
    BY <1>3 DEF Poll, kafka
  <2> QED BY <2>1, <2>2 DEF LogOK
<1> QED BY <1>1, <1>2, <1>3 DEF TaskNext

\* Where a partition is assigned from: before a message that the brokers have, or at the end
LEMMA OffsetType ==
  ASSUME NEW p, NEW time, published[p] \in Nat
  PROVE  OffsetForTime(p, time) = AtEnd \/ OffsetForTime(p, time) \in 0..published[p]
<1> DEFINE late(i) == log[p][i].timestamp # None /\ log[p][i].timestamp >= time
           first   == {i \in 1..published[p] : late(i) /\ \A j \in 1..(i - 1) : ~late(j)}
<1>1. CASE first = {}
  BY <1>1 DEF OffsetForTime
<1>2. CASE first # {}
  <2>1. (CHOOSE i \in first : TRUE) \in first
    BY <1>2
  <2>2. OffsetForTime(p, time) = (CHOOSE i \in first : TRUE) - 1
    BY <1>2 DEF OffsetForTime
  <2>3. (CHOOSE i \in first : TRUE) \in 1..published[p]
    BY <2>1
  <2> HIDE DEF first
  <2> QED BY <2>2, <2>3
<1> QED BY <1>1, <1>2

\* Where assign() leaves the consumer: a partition without an answer is at its end.
LEMMA AssignmentOf ==
  ASSUME AssignPartitions
  PROVE  /\ DOMAIN assignment' = AssignedPartitions /\ position' = assignment'
         /\ \A p \in AssignedPartitions : assignment'[p] \in {AtEnd, OffsetForTime(p, SeekTimestamp)}
         /\ \A p \in AssignedPartitions : p \in Partitions
<1>1. PICK missed :
        assignment' = [p \in AssignedPartitions |->
                         IF p \in missed THEN AtEnd ELSE OffsetForTime(p, SeekTimestamp)]
  BY DEF AssignPartitions
<1> QED BY <1>1 DEF AssignPartitions, AssignedPartitions

LEMMA ConsumerStep ==
  ASSUME LogOK, ConsumerOK, [TaskNext]_vars
  PROVE  ConsumerOK'
<1>1. CASE \/ ResolveStructure \/ CreateFile \/ BuildFile \/ PassOn \/ LeaveLoop \/ CloseFile
           \/ UNCHANGED vars
  <2>1. UNCHANGED <<assignment, position, published>>
    BY <1>1 DEF ResolveStructure, CreateFile, BuildFile, PassOn, LeaveLoop, CloseFile, kafka,
                consumer, vars, taskVars
  <2> QED BY <2>1 DEF ConsumerOK
<1>2. CASE Assign
  <2>1. CASE UNCHANGED consumer
    BY <1>2, <2>1 DEF Assign, consumer, kafka, ConsumerOK
  <2>2. CASE AssignPartitions
    <3>1. published' = published
      BY <1>2 DEF Assign, kafka
    <3>2. ASSUME NEW p \in Partitions
          PROVE  OffsetForTime(p, SeekTimestamp) = AtEnd
                   \/ OffsetForTime(p, SeekTimestamp) \in 0..published[p]
      BY OffsetType DEF LogOK
    <3> QED BY <2>2, <3>1, <3>2, AssignmentOf DEF ConsumerOK
  <2> QED BY <1>2, <2>1, <2>2 DEF Assign
<1>3. CASE Unassign
  BY <1>3 DEF Unassign, consumer, kafka, ConsumerOK, EmptyMap
<1>4. ASSUME NEW p \in Partitions, Publish(p) PROVE ConsumerOK'
  <2>1. UNCHANGED <<assignment, position>> /\ published' = [published EXCEPT ![p] = @ + 1]
    BY <1>4 DEF Publish, consumer
  <2>2. \A q \in Partitions : published[q] \in Nat
        /\ published'[q] \in {published[q], published[q] + 1}
    BY <2>1 DEF LogOK
  <2> QED BY <2>1, <2>2 DEF ConsumerOK
<1>5. ASSUME NEW p \in Partitions, ResolveEnd(p) PROVE ConsumerOK'
  <2>1. /\ UNCHANGED <<assignment, published>> /\ position' = [position EXCEPT ![p] = published[p]]
        /\ published[p] \in Nat
    BY <1>5 DEF ResolveEnd, kafka, LogOK
  <2> QED BY <2>1 DEF ConsumerOK
<1>6. ASSUME NEW p \in Partitions, Poll(p) PROVE ConsumerOK'
  <2>1. /\ UNCHANGED <<assignment, published>> /\ position' = [position EXCEPT ![p] = @ + 1]
        /\ position[p] + 1 \in 0..published[p]
    BY <1>6, NextMessage DEF Poll, kafka
  <2> QED BY <2>1 DEF ConsumerOK
<1> QED BY <1>1, <1>2, <1>3, <1>4, <1>5, <1>6 DEF TaskNext, TaskStep

LEMMA OutcomeStep ==
  ASSUME FileTypeOK, OutcomeOK, [TaskNext]_vars
  PROVE  OutcomeOK'
<1>1. /\ error \in Results \cup {None}
      /\ {"NexusStructureError", "IoError", "CreateError", "IntegerError", "StreamError", "Ok"}
           \subseteq Results
  BY DEF Results, Errors, FileTypeOK
<1>2. {"structure", "create", "build", "assign", "poll", "unassign", "close", "done"} \subseteq Labels
  BY DEF Labels
<1>3. /\ stage \in Labels /\ file \in {"absent", "open", "closed"}
      /\ result \in Results \cup {None}
      /\ (file = "open") = (stage \in {"build", "assign", "poll", "unassign", "close"})
  BY DEF OutcomeOK
<1>4. CASE ResolveStructure
  BY <1>1, <1>2, <1>3, <1>4 DEF ResolveStructure, Return, OutcomeOK
<1>5. CASE CreateFile
  BY <1>1, <1>2, <1>3, <1>5 DEF CreateFile, Return, OutcomeOK
<1>6. CASE BuildFile
  BY <1>1, <1>2, <1>3, <1>6 DEF BuildFile, Abandon, OutcomeOK
<1>7. CASE Assign
  BY <1>1, <1>2, <1>3, <1>7 DEF Assign, AssignPartitions, Abandon, OutcomeOK
<1>8. CASE PassOn \/ UNCHANGED vars
  BY <1>3, <1>8 DEF PassOn, vars, taskVars, OutcomeOK
<1>9. CASE LeaveLoop \/ CloseFile
  BY <1>2, <1>3, <1>9 DEF LeaveLoop, CloseFile, OutcomeOK
<1>10. CASE Unassign
  <2>1. stage = "unassign" /\ stage' = "close" /\ file' = file
    BY <1>10 DEF Unassign
  <2>2. result' \in {"Ok", "StreamError", error}
    BY <1>10 DEF Unassign
  <2> QED BY <1>1, <1>2, <1>3, <2>1, <2>2 DEF OutcomeOK
<1>11. CASE \E p \in Partitions : Poll(p) \/ Publish(p) \/ ResolveEnd(p)
  BY <1>3, <1>11 DEF Poll, Publish, ResolveEnd, OutcomeOK
<1> QED
  BY <1>4, <1>5, <1>6, <1>7, <1>8, <1>9, <1>10, <1>11 DEF TaskNext, TaskStep

\* Types, and all that is known of the file
TaskInv == AlignedInv /\ TaskTypeOK

LEMMA TaskInvInit == TaskInit => TaskInv
<1> SUFFICES ASSUME TaskInit PROVE TaskInv
  OBVIOUS
<1>1. AlignedInv
  BY AlignedInit DEF TaskInit
<1>2. FileTypeOK
  BY <1>1 DEF AlignedInv, RoutingInv
<1>3. ConsumerOK /\ OutcomeOK
  BY DEF TaskInit, ConsumerOK, OutcomeOK, EmptyMap, Labels
<1> QED BY <1>1, <1>2, <1>3, LogInit, TypeParts DEF TaskInv

LEMMA TaskInvStep == TaskInv /\ [TaskNext]_vars => TaskInv'
<1> SUFFICES ASSUME TaskInv, [TaskNext]_vars PROVE TaskInv'
  OBVIOUS
<1>1. FileTypeOK /\ LogOK /\ ConsumerOK /\ OutcomeOK
  BY TypeParts DEF TaskInv
<1>2. LogOK' /\ ConsumerOK' /\ OutcomeOK'
  BY <1>1, LogStep, ConsumerStep, OutcomeStep
<1>3. AlignedInv'
  BY <1>1, FileStep, AlignedStep DEF TaskInv
<1>4. FileTypeOK'
  BY <1>3 DEF AlignedInv, RoutingInv
<1>5. (FileTypeOK /\ LogOK /\ ConsumerOK /\ OutcomeOK)' => TaskTypeOK'
  BY DEF TaskTypeOK, LogOK, ConsumerOK, OutcomeOK, Labels
<1> QED BY <1>2, <1>3, <1>4, <1>5 DEF TaskInv

LEMMA TaskInvariance == TaskSpec => []TaskInv
<1> QED BY TaskInvInit, TaskInvStep, PTL DEF TaskSpec

(***************************************************************************)
(* The state of write_data_for_run has its types, and the consumer never   *)
(* stands past what a partition holds.                                     *)
(***************************************************************************)
THEOREM TaskTypes == TaskSpec => []TaskTypeOK
<1>1. TaskInv => TaskTypeOK
  BY DEF TaskInv
<1> QED BY <1>1, TaskInvariance, PTL

(***************************************************************************)
(* The task hands its file nothing but messages, one at a time, and so all *)
(* that holds of every InProgressFile holds of the one in a task.          *)
(***************************************************************************)
THEOREM TaskIsFile == TaskSpec => FileSpec
<1>1. TaskInit => FileInit
  BY DEF TaskInit
<1>2. TaskInv /\ [TaskNext]_vars => [FileNext]_fileVars
  BY FileStep, TypeParts DEF TaskInv
<1> QED BY <1>1, <1>2, TaskInvariance, PTL DEF TaskSpec, FileSpec

-----------------------------------------------------------------------------
(***************************************************************************)
(* What each stage says of the file, the consumer and the result.          *)
(***************************************************************************)
StageOK ==
  /\ stage \in {"structure", "create"} => file = "absent" /\ error = None
  /\ stage \in {"build", "assign", "poll", "unassign", "close"} => file = "open"
  /\ stage \in {"structure", "create", "build", "assign", "poll", "unassign"} => result = None
  /\ stage \in {"structure", "create", "build", "assign"} => assignment = EmptyMap
  /\ stage = "assign" => phase = "ready"
  /\ stage = "unassign" => phase = "failed" \/ (phase = "ready" /\ Finished)
  /\ stage \in {"close", "done"} => result # None
  /\ stage = "done" => file # "open" /\ (result = "Ok" => file = "closed")
  /\ result = "Ok" => error = None /\ Finished /\ assignment = EmptyMap
  /\ result # None /\ error # None => result = error

LEMMA StageInit == TaskInit => StageOK
  BY ResultAssumption DEF TaskInit, FileInit, StageOK, Results

LEMMA StageStep ==
  ASSUME FileTypeOK, OutcomeOK, StageOK, [TaskNext]_vars
  PROVE  StageOK'
<1>1. /\ error \in Errors \cup {None} /\ (error # None <=> phase = "failed")
      /\ None \notin Errors /\ "Ok" \notin Errors /\ None # "Ok" /\ None # "StreamError"
      /\ None # "IntegerError" /\ None # "CreateError"
      /\ None # "NexusStructureError" /\ None # "IoError"
  BY ResultAssumption DEF FileTypeOK, Results, Errors
<1>2. UNCHANGED fileVars => Finished' = Finished /\ error' = error /\ phase' = phase
  BY DEF fileVars, Finished
<1> USE DEF StageOK
<1>3. CASE ResolveStructure
  <2>1. /\ stage = "structure" /\ UNCHANGED fileVars /\ file' = file /\ assignment' = assignment
        /\ \/ stage' = "create" /\ result' = result
           \/ stage' = "done" /\ result' \in {"NexusStructureError", "IoError"}
    BY <1>3 DEF ResolveStructure, Return, consumer
  <2> QED BY <1>1, <1>2, <2>1
<1>4. CASE CreateFile
  <2>1. /\ stage = "create" /\ UNCHANGED fileVars /\ assignment' = assignment
        /\ \/ stage' = "build" /\ result' = result /\ file' = "open"
           \/ stage' = "done" /\ result' = "CreateError" /\ file' = file
    BY <1>4 DEF CreateFile, Return, consumer
  <2> QED BY <1>1, <1>2, <2>1
<1>5. CASE BuildFile
  <2>1. stage = "build" /\ file' = file /\ assignment' = assignment
    BY <1>5 DEF BuildFile, consumer
  <2>2. CASE stage' = stage /\ result' = result
    BY <1>1, <2>1, <2>2
  <2>3. CASE phase = "ready" /\ stage' = "assign" /\ result' = result /\ UNCHANGED fileVars
    BY <1>1, <1>2, <2>1, <2>3
  <2>4. CASE phase = "failed" /\ stage' = "close" /\ result' = error /\ UNCHANGED fileVars
    BY <1>1, <1>2, <2>1, <2>4
  <2> QED BY <1>5, <2>2, <2>3, <2>4 DEF BuildFile, Abandon
<1>6. CASE Assign
  <2>1. /\ stage = "assign" /\ UNCHANGED fileVars /\ file' = file
        /\ \/ stage' = "poll" /\ result' = result
           \/ /\ stage' = "close" /\ result' \in {"IntegerError", "StreamError"}
              /\ assignment' = assignment
    BY <1>6 DEF Assign, AssignPartitions, Abandon, consumer
  <2> QED BY <1>1, <1>2, <2>1
<1>7. CASE LeaveLoop
  BY <1>1, <1>2, <1>7 DEF LeaveLoop, consumer
<1>8. CASE Unassign
  <2>1. /\ stage = "unassign" /\ stage' = "close" /\ UNCHANGED fileVars /\ file' = file
        /\ \/ /\ assignment' = EmptyMap
              /\ result' = IF error = None THEN "Ok" ELSE error
           \/ result' = IF error = None THEN "StreamError" ELSE error
    BY <1>8 DEF Unassign
  <2> QED BY <1>1, <1>2, <2>1
<1>9. CASE CloseFile
  BY <1>1, <1>2, <1>9 DEF CloseFile, consumer
<1>10. CASE PassOn
  BY <1>1, <1>10 DEF PassOn, taskVars
<1>11. ASSUME NEW p \in Partitions, Poll(p) PROVE StageOK'
  BY <1>1, <1>11 DEF Poll
<1>12. CASE UNCHANGED vars \/ \E p \in Partitions : Publish(p) \/ ResolveEnd(p)
  <2>1. UNCHANGED fileVars /\ UNCHANGED <<stage, file, assignment, result>>
    BY <1>12 DEF vars, taskVars, Publish, ResolveEnd, consumer
  <2> QED BY <1>2, <2>1
<1> QED
  BY <1>3, <1>4, <1>5, <1>6, <1>7, <1>8, <1>9, <1>10, <1>11, <1>12 DEF TaskNext, TaskStep

StageInv == TaskInv /\ StageOK

LEMMA StageInvariance == TaskSpec => []StageInv
<1>1. TaskInit => StageInv
  BY TaskInvInit, StageInit DEF StageInv
<1>2. StageInv /\ [TaskNext]_vars => StageInv'
  BY TaskInvStep, StageStep, TypeParts DEF StageInv, TaskInv
<1> QED BY <1>1, <1>2, PTL DEF TaskSpec

(***************************************************************************)
(* Ok is returned for a run that is whole and with everything put away;    *)
(* of several errors the first is returned.                                *)
(***************************************************************************)
THEOREM FirstOutcome == TaskSpec => []ResultIsFirstOutcome
<1>1. StageInv => ResultIsFirstOutcome
  BY DEF StageInv, StageOK, ResultIsFirstOutcome
<1> QED BY <1>1, StageInvariance, PTL

\* The two variables of RunFate
theFate == IF stage # "done" THEN "taken" ELSE IF result = "Ok" THEN "written" ELSE "failed"
theFile == IF file = "absent" THEN "absent" ELSE "made"

(***************************************************************************)
(* The task implements RunFate, as FileWriter takes for granted.           *)
(***************************************************************************)
THEOREM KeepsFate == TaskSpec => TaskKeepsFate
<1>1. TaskInit => Fate!Init
  BY DEF TaskInit, Fate!Init
<1>2. StageInv /\ [TaskNext]_vars => [Fate!Next]_<<theFate, theFile>>
  <2> SUFFICES ASSUME StageInv, [TaskNext]_vars
               PROVE  Fate!Next \/ UNCHANGED <<theFate, theFile>>
    BY DEF theFate, theFile
  <2> USE DEF theFate, theFile
  <2>1. CASE ResolveStructure
    BY <2>1, ResultAssumption DEF ResolveStructure, Return, Fate!Next, Fate!Break
  <2>2. CASE CreateFile
    BY <2>2 DEF CreateFile, Return, Fate!Next, Fate!Break, Fate!Make, StageInv, StageOK
  <2>3. CASE CloseFile
    BY <2>3 DEF CloseFile, Fate!Next, Fate!Break, Fate!Complete, StageInv, StageOK
  <2>4. CASE BuildFile \/ Assign \/ PassOn \/ LeaveLoop \/ Unassign
    <3>1. stage # "done" /\ stage' # "done" /\ file' = file
      BY <2>4 DEF BuildFile, Assign, AssignPartitions, Abandon, PassOn, LeaveLoop, Unassign,
                  taskVars
    <3> QED BY <3>1
  <2>5. CASE UNCHANGED vars \/ \E p \in Partitions : Poll(p) \/ Publish(p) \/ ResolveEnd(p)
    <3>1. UNCHANGED <<stage, file, result>>
      BY <2>5 DEF vars, taskVars, Poll, Publish, ResolveEnd
    <3> QED BY <3>1
  <2> QED BY <2>1, <2>2, <2>3, <2>4, <2>5 DEF TaskNext, TaskStep
<1> QED BY <1>1, <1>2, StageInvariance, PTL DEF TaskSpec, TaskKeepsFate, Fate!Spec, theFate, theFile

-----------------------------------------------------------------------------
(***************************************************************************)
(* The topics of a task.                                                   *)
(***************************************************************************)
AssignedOK ==
  stage = "poll" =>
    \A t \in AssignedTopics :
      Known(t) /\ \A p \in Partitions : p[1] = t => p \in DOMAIN assignment

LEMMA AssignedStep ==
  ASSUME StageInv, AssignedOK, [TaskNext]_vars
  PROVE  AssignedOK'
<1>1. CASE Assign
  <2>1. CASE AssignPartitions
    <3>1. /\ \A t \in AssignedTopics : Known(t)
          /\ UNCHANGED <<run, router>>
      BY <1>1, <2>1, Zenon DEF Assign, AssignPartitions, Abandon, fileVars
    <3>2. AssignedTopics' = AssignedTopics
      BY <3>1 DEF AssignedTopics, ControlTopic
    <3>3. DOMAIN assignment' = {q \in Partitions : q[1] \in AssignedTopics}
      BY <2>1, AssignmentOf DEF AssignedPartitions
    <3> QED BY <3>1, <3>2, <3>3 DEF AssignedOK, Known
  <2>2. CASE ~AssignPartitions
    BY <1>1, <2>2 DEF Assign, Abandon, AssignedOK
  <2> QED BY <2>1, <2>2
<1>2. CASE \/ ResolveStructure \/ CreateFile \/ BuildFile \/ LeaveLoop \/ Unassign \/ CloseFile
  BY <1>2 DEF ResolveStructure, CreateFile, BuildFile, LeaveLoop, Unassign, CloseFile, Return,
              Abandon, AssignedOK
<1>3. CASE \/ PassOn \/ UNCHANGED vars
           \/ \E p \in Partitions : Poll(p) \/ Publish(p) \/ ResolveEnd(p)
  <2>1. UNCHANGED <<stage, assignment, run, router>>
    BY <1>3 DEF PassOn, NotifyWriter, StopWriter, Poll, Publish, ResolveEnd, HandleMessage,
                IgnoreMessage, UnroutedMessage, StopWithoutWriters, BeginMessage, BeginRunStop,
                Begin, placement, fileVars, vars, taskVars, consumer
  <2>2. AssignedTopics' = AssignedTopics
    BY <2>1 DEF AssignedTopics, ControlTopic
  <2> QED BY <2>1, <2>2 DEF AssignedOK, Known
<1> QED BY <1>1, <1>2, <1>3 DEF TaskNext, TaskStep

\* The router has every topic that a writer subscribed to.
LEMMA SubscribedTopics ==
  ASSUME FileTypeOK, RoutedAsSubscribed,
         NEW i \in DOMAIN writers, NEW j \in DOMAIN writers[i].subscriptions
  PROVE  writers[i].subscriptions[j].topic \in DOMAIN router
<1> DEFINE sub == writers[i].subscriptions[j]
           key == IF sub.key = All THEN None ELSE sub.key
<1>1. /\ i \in Nat /\ i - 1 \in 0..Len(writers) /\ i - 1 < Len(writers) /\ (i - 1) + 1 = i
      /\ writers[i] \in PlacedWriter
  BY DEF FileTypeOK
<1>2. writers[i].subscriptions \in Seq(Subscription)
  BY <1>1 DEF PlacedWriter
<1>3. sub \in Subscription
  BY <1>2
<1>4. sub.topic \in Topics /\ key \in Keys \cup {None} /\ Matches(sub, sub.topic, key)
  BY <1>3 DEF Subscription, Matches
<1>5. sub \in Registered(i - 1)
  BY <1>1 DEF Registered, Range
<1> HIDE DEF sub, key
<1>6. i - 1 \in Subscribers(sub.topic, key)
  BY <1>1, <1>4, <1>5 DEF Subscribers
<1>7. i - 1 \in RoutedTo(sub.topic, key)
  BY <1>4, <1>6 DEF RoutedAsSubscribed
<1>8. ASSUME sub.topic \notin DOMAIN router PROVE FALSE
  <2>1. Entry(router, sub.topic, EmptyTopicRouter) = EmptyTopicRouter
    BY <1>8 DEF Entry
  <2>2. WritersFor(router, sub.topic, key) = <<>>
    BY <2>1 DEF WritersFor, TopicWritersFor, EmptyTopicRouter, EmptyMap, Entry
  <2> QED BY <1>7, <2>2 DEF RoutedTo, Range
<1> QED BY <1>8 DEF sub

(***************************************************************************)
(* A task that polls is assigned all the partitions of the topics of its   *)
(* writers and of its control topic, and there is at least one of each.    *)
(***************************************************************************)
THEOREM AllTopicsAssigned == TaskSpec => []TopicsAssigned
<1> DEFINE Inv == StageInv /\ AssignedOK
<1>1. TaskInit => Inv
  BY TaskInvInit, StageInit DEF TaskInit, StageInv, AssignedOK
<1>2. Inv /\ [TaskNext]_vars => Inv'
  BY TaskInvStep, StageStep, AssignedStep, TypeParts DEF StageInv, TaskInv
<1>3. Inv => TopicsAssigned
  <2> SUFFICES ASSUME Inv, stage = "poll"
               PROVE  {ControlTopic} \cup UNION {{writers[i].subscriptions[j].topic :
                        j \in DOMAIN writers[i].subscriptions} : i \in DOMAIN writers}
                          \subseteq AssignedTopics
    BY DEF TopicsAssigned, AssignedOK
  <2>1. FileTypeOK /\ RoutedAsSubscribed
    BY DEF StageInv, TaskInv, AlignedInv, RoutingInv
  <2>2. \A i \in DOMAIN writers : \A j \in DOMAIN writers[i].subscriptions :
          writers[i].subscriptions[j].topic \in AssignedTopics
    BY <2>1, SubscribedTopics DEF AssignedTopics, RoutedTopics
  <2> QED BY <2>2 DEF AssignedTopics
<1> QED BY <1>1, <1>2, <1>3, PTL DEF TaskSpec

-----------------------------------------------------------------------------
(***************************************************************************)
(* The rows of the events that a writer was given.                         *)
(***************************************************************************)
Ids(col) == {col[i][1] : i \in DOMAIN col}

LEMMA ExtendedRows ==
  ASSUME NEW col \in Seq(Cells), NEW id \in MessageIds, NEW k \in Nat
  PROVE  Ids(WriteSlice(Resize(col, Len(col) + k), Len(col), Rows(id, k)))
           = Ids(col) \cup (IF k > 0 THEN {id} ELSE {})
<1> DEFINE n   == Len(col)
           big == Resize(col, n + k)
           new == WriteSlice(big, n, Rows(id, k))
<1>1. n \in Nat /\ DOMAIN col = 1..n
  OBVIOUS
<1>2. Len(big) = n + k /\ big \in Seq(Cells)
  <2>1. n + k \in Nat
    BY <1>1
  <2> HIDE DEF n
  <2> QED BY <2>1, ResizeType
<1>3. DOMAIN new = 1..(n + k)
  <2> HIDE DEF big, n
  <2>1. DOMAIN new = 1..Len(big)
    BY DEF WriteSlice
  <2> QED BY <1>2, <2>1
<1>4. ASSUME NEW i \in 1..n PROVE i \in 1..(n + k) /\ new[i] = col[i]
  <2>1. i \in 1..(n + k) /\ i <= n
    BY <1>1
  <2>2. new[i] = big[i]
    BY <1>2, <2>1 DEF WriteSlice
  <2>3. big[i] = col[i]
    BY <2>1 DEF Resize
  <2> QED BY <2>1, <2>2, <2>3
<1>5. ASSUME NEW i \in 1..(n + k), ~(i <= n) PROVE k > 0 /\ new[i][1] = id
  <2>1. i - n \in 1..k
    BY <1>1, <1>5
  <2>2. new[i] = Rows(id, k)[i - n]
    BY <1>2, <1>5 DEF WriteSlice
  <2>3. Rows(id, k)[i - n] = <<id, i - n>>
    BY <2>1 DEF Rows
  <2> QED BY <2>1, <2>2, <2>3
<1>6. k > 0 => n + 1 \in 1..(n + k) /\ ~(n + 1 <= n)
  BY <1>1
<1> HIDE DEF n, big, new
<1>7. Ids(new) \subseteq Ids(col) \cup (IF k > 0 THEN {id} ELSE {})
  <2> SUFFICES ASSUME NEW i \in 1..(n + k)
               PROVE  new[i][1] \in Ids(col) \cup (IF k > 0 THEN {id} ELSE {})
    BY <1>3 DEF Ids
  <2>1. CASE i <= n
    <3>1. i \in DOMAIN col /\ new[i] = col[i]
      BY <1>1, <1>4, <2>1
    <3> QED BY <3>1 DEF Ids
  <2>2. CASE ~(i <= n)
    BY <1>5, <2>2
  <2> QED BY <2>1, <2>2
<1>8. Ids(col) \subseteq Ids(new)
  BY <1>1, <1>3, <1>4 DEF Ids
<1>9. k > 0 => id \in Ids(new)
  <2> SUFFICES ASSUME k > 0 PROVE id \in Ids(new)
    OBVIOUS
  <2>1. n + 1 \in DOMAIN new /\ new[n + 1][1] = id
    BY <1>3, <1>5, <1>6
  <2> QED BY <2>1 DEF Ids
<1> QED BY <1>7, <1>8, <1>9 DEF n, big, new

LEMMA WriteEventsRows ==
  ASSUME NEW w \in PlacedWriter, NEW m \in Message, Aligned(w), NEW out \in WriteEvents(w, m),
         out.result = "Ok"
  PROVE  Recorded(out.writer)
           = Recorded(w) \cup (IF ValidEvents(m) /\ m.pixel_id > 0 THEN {m.id} ELSE {})
<1>1. CASE ~ValidEvents(m)
  <2>1. out = Outcome(w, "Ok")
    BY <1>1 DEF WriteEvents
  <2> QED BY <1>1, <2>1 DEF Outcome
<1>2. CASE ValidEvents(m)
  <2> DEFINE n    == Len(w.event_time_offset)
             k    == m.pixel_id
             ids  == [w EXCEPT !.event_id = Resize(@, n + k)]
             two  == [ids EXCEPT !.event_time_offset = Resize(@, n + k)]
             idw  == [two EXCEPT !.event_id = WriteSlice(@, n, Rows(m.id, k))]
             all  == [idw EXCEPT !.event_time_offset = WriteSlice(@, n, Rows(m.id, k))]
             new  == WriteSlice(Resize(w.event_id, n + k), n, Rows(m.id, k))
  <2>1. /\ k \in Nat /\ k = m.time_of_flight /\ m.id \in MessageIds
        /\ w.event_id \in Seq(Cells) /\ n = Len(w.event_id)
    BY <1>2 DEF PlacedWriter, ValidEvents, Message, Aligned
  <2>2. out \in UNION {Broken(w), Broken(ids), Broken(two), Broken(idw), {Outcome(all, "Ok")}}
    BY <1>2, <2>1 DEF WriteEvents
  <2>3. all.event_id = new
    BY DEF PlacedWriter
  <2> HIDE DEF ids, two, idw, all
  <2>4. \A v : out \in Broken(v) => out.result = "Err"
    BY DEF Broken, Outcome
  <2>5. out = Outcome(all, "Ok")
    BY <2>2, <2>4
  <2>6. out.writer.event_id = new
    BY <2>3, <2>5 DEF Outcome
  <2>7. new = WriteSlice(Resize(w.event_id, Len(w.event_id) + k), Len(w.event_id), Rows(m.id, k))
    BY <2>1
  <2> HIDE DEF new, n, k
  <2>8. Ids(new) = Ids(w.event_id) \cup (IF k > 0 THEN {m.id} ELSE {})
    <3>1. w.event_id \in Seq(Cells) /\ m.id \in MessageIds /\ k \in Nat
      BY <2>1
    <3> QED BY <2>7, <3>1, ExtendedRows
  <2>9. Recorded(out.writer) = Ids(new)
    BY <2>6 DEF Recorded, Ids
  <2>10. Recorded(w) = Ids(w.event_id)
    BY DEF Recorded, Ids
  <2> QED BY <1>2, <2>8, <2>9, <2>10 DEF k
<1> QED BY <1>1, <1>2

\* What an event writer does with a message, as far as its events go
LEMMA OnMessageRows ==
  ASSUME NEW w \in PlacedWriter, w.kind = "NXevent_data", Aligned(w), NEW m \in Message,
         NEW out \in OnMessage(w, m), out.result = "Ok"
  PROVE  /\ out.writer.run_start_time_ms = w.run_start_time_ms
         /\ Recorded(out.writer) = Recorded(w) \cup
              (IF EventsOf(m, w.run_start_time_ms, w.run_stop_time_ms) THEN {m.id} ELSE {})
<1> DEFINE Brings == m.schema = "ev44" /\ ValidEvents(m) /\ m.pixel_id > 0
           seen   == [w EXCEPT !.latest_message_time_ms = m.timestamp]
<1>1. ASSUME NEW v \in PlacedWriter, Aligned(v), out \in WriteData(v, m)
      PROVE  /\ out.writer.run_start_time_ms = v.run_start_time_ms
             /\ Recorded(out.writer) = Recorded(v) \cup (IF Brings THEN {m.id} ELSE {})
  <2>1. CASE m.schema = "pu00"
    <3>1. out \in WritePulse(v, m.id)
      BY <1>1, <2>1 DEF WriteData
    <3>2. /\ out.writer.run_start_time_ms = v.run_start_time_ms
          /\ out.writer.event_id = v.event_id
      BY <3>1, WritePulseType DEF SameWriter, Message
    <3>3. Recorded(out.writer) = Recorded(v)
      BY <3>2 DEF Recorded
    <3> QED BY <2>1, <3>2, <3>3
  <2>2. CASE m.schema = "ev44"
    <3>1. out \in WriteEvents(v, m)
      BY <1>1, <2>2 DEF WriteData
    <3>2. out.writer.run_start_time_ms = v.run_start_time_ms
      BY <1>1, <3>1, WriteEventsType DEF SameWriter
    <3> QED BY <1>1, <2>2, <3>1, <3>2, WriteEventsRows
  <2>3. CASE m.schema \notin {"pu00", "ev44"}
    <3>1. out = Outcome(v, "Ok")
      BY <1>1, <2>3 DEF WriteData
    <3> QED BY <2>3, <3>1 DEF Outcome
  <2> QED BY <2>1, <2>2, <2>3
<1>2. out \in NXeventdataOnMessage(w, m)
  BY DEF OnMessage
<1>3. CASE m.timestamp = None
  <2>1. out \in WriteData(w, m)
    BY <1>2, <1>3 DEF NXeventdataOnMessage
  <2> QED BY <1>1, <1>3, <2>1 DEF EventsOf
<1>4. CASE m.timestamp # None
  <2>1. ~(m.timestamp < 0)
    BY <1>2, <1>4 DEF NXeventdataOnMessage, Outcome
  <2>2. m.timestamp \in Nat
    BY <1>4, <2>1 DEF Message
  <2>3. /\ seen \in PlacedWriter /\ Aligned(seen) /\ Recorded(seen) = Recorded(w)
        /\ seen.run_start_time_ms = w.run_start_time_ms
        /\ seen.run_stop_time_ms = w.run_stop_time_ms
    BY <2>2 DEF PlacedWriter, Aligned, Recorded
  <2>4. \/ InWindow(seen, m.timestamp) /\ out \in WriteData(seen, m)
        \/ ~InWindow(seen, m.timestamp) /\ out = Outcome(seen, "Ok")
    BY <1>2, <1>4, <2>1 DEF NXeventdataOnMessage
  <2> HIDE DEF seen
  <2>5. CASE InWindow(seen, m.timestamp)
    BY <1>1, <1>4, <2>3, <2>4, <2>5 DEF InWindow, EventsOf
  <2>6. CASE ~InWindow(seen, m.timestamp)
    BY <1>4, <2>3, <2>4, <2>6 DEF InWindow, EventsOf, Outcome
  <2> QED BY <2>5, <2>6
<1> QED BY <1>3, <1>4

-----------------------------------------------------------------------------
(***************************************************************************)
(* Writer w, which was given the messages in given, has recorded those of  *)
(* them that are in the run by every stop time in stops, and nothing but   *)
(* what some stop time admits of the messages in all.                      *)
(***************************************************************************)
SoFar(w, given, all, stops, start) ==
  w.kind = "NXevent_data" =>
    /\ w.run_start_time_ms = start /\ w.run_stop_time_ms \in stops
    /\ \A m \in given :
         For(w, m) /\ (\A s \in stops : EventsOf(m, start, s)) => m.id \in Recorded(w)
    /\ \A id \in Recorded(w) : \E m \in all, s \in stops :
         m.id = id /\ For(w, m) /\ EventsOf(m, start, s)

\* What writer i has been given: everything but, maybe, the message being handled
Given(i) == {m \in handled : ~(m = msg /\ phase = "message" /\ (i - 1) \in Range(todo))}

RecordedOK ==
  phase # "failed" =>
    /\ phase = "building" =>
         /\ handled = {}
         /\ adding # None => SoFar(adding, {}, {}, {run.stop_time_ms}, run.start_time_ms)
    /\ phase \in {"message", "stop"} => msg \in handled
    /\ phase = "stop" => IsOwnStop(msg)
    /\ phase = "message" => \A id \in Range(todo) : For(writers[id + 1], msg)
    /\ \A i \in DOMAIN writers :
         SoFar(writers[i], Given(i), handled, StopTimes, run.start_time_ms)

LEMMA SoFarMore ==
  ASSUME NEW w, NEW given, NEW all, NEW stops, NEW start, SoFar(w, given, all, stops, start),
         NEW given2, NEW all2, NEW stops2, all \subseteq all2, stops \subseteq stops2,
         \A m \in given2 : \/ m \in given
                           \/ ~For(w, m)
                           \/ \E s \in stops2 : ~EventsOf(m, start, s)
  PROVE  SoFar(w, given2, all2, stops2, start)
<1> SUFFICES ASSUME w.kind = "NXevent_data"
             PROVE  SoFar(w, given2, all2, stops2, start)
  BY DEF SoFar
<1>1. w.run_start_time_ms = start /\ w.run_stop_time_ms \in stops2
  BY DEF SoFar
<1>2. ASSUME NEW m \in given2, For(w, m), \A s \in stops2 : EventsOf(m, start, s)
      PROVE  m.id \in Recorded(w)
  BY <1>2 DEF SoFar
<1>3. ASSUME NEW id \in Recorded(w)
      PROVE  \E m \in all2, s \in stops2 : m.id = id /\ For(w, m) /\ EventsOf(m, start, s)
  <2>1. PICK m \in all, s \in stops : m.id = id /\ For(w, m) /\ EventsOf(m, start, s)
    BY DEF SoFar
  <2> QED BY <2>1
<1> QED BY <1>1, <1>2, <1>3 DEF SoFar

LEMMA SoFarGiven ==
  ASSUME NEW w \in PlacedWriter, Aligned(w), NEW m \in Message,
         NEW out \in OnMessage(w, m), out.result = "Ok", For(w, m),
         NEW given, NEW all, NEW stops, NEW start, SoFar(w, given, all, stops, start),
         m \in all, NEW given2, given2 \subseteq given \cup {m}
  PROVE  SoFar(out.writer, given2, all, stops, start)
<1>1. out.writer.kind = w.kind /\ out.writer.subscriptions = w.subscriptions
      /\ out.writer.run_stop_time_ms = w.run_stop_time_ms
  BY OnMessageType DEF SameWriter
<1> SUFFICES ASSUME w.kind = "NXevent_data"
             PROVE  SoFar(out.writer, given2, all, stops, start)
  BY <1>1 DEF SoFar
<1>2. \A x : For(out.writer, x) <=> For(w, x)
  BY <1>1 DEF For
<1>3. /\ out.writer.run_start_time_ms = w.run_start_time_ms
      /\ Recorded(out.writer) = Recorded(w) \cup
           (IF EventsOf(m, w.run_start_time_ms, w.run_stop_time_ms) THEN {m.id} ELSE {})
  BY OnMessageRows
<1>4. w.run_start_time_ms = start /\ w.run_stop_time_ms \in stops
  BY DEF SoFar
<1>5. ASSUME NEW x \in given2, For(w, x), \A s \in stops : EventsOf(x, start, s)
      PROVE  x.id \in Recorded(out.writer)
  BY <1>3, <1>4, <1>5 DEF SoFar
<1>6. ASSUME NEW id \in Recorded(out.writer)
      PROVE  \E x \in all, s \in stops : x.id = id /\ For(w, x) /\ EventsOf(x, start, s)
  <2>1. CASE id \in Recorded(w)
    BY <2>1 DEF SoFar
  <2>2. CASE id \notin Recorded(w)
    BY <1>3, <1>4, <2>2
  <2> QED BY <2>1, <2>2
<1> QED BY <1>1, <1>2, <1>3, <1>4, <1>5, <1>6 DEF SoFar

LEMMA SoFarStopped ==
  ASSUME NEW w \in PlacedWriter, NEW m \in Message, NEW out \in OnRunStop(w, m),
         NEW given, NEW all, NEW stops, NEW start, SoFar(w, given, all, stops, start),
         m.stop_time \in stops
  PROVE  SoFar(out.writer, given, all, stops, start)
<1>1. out.writer.kind = w.kind /\ out.writer.subscriptions = w.subscriptions
      /\ out.writer.run_start_time_ms = w.run_start_time_ms
      /\ (w.kind = "NXevent_data" => out.writer.run_stop_time_ms = m.stop_time)
  BY OnRunStopType DEF SameWriter
<1> SUFFICES ASSUME w.kind = "NXevent_data"
             PROVE  SoFar(out.writer, given, all, stops, start)
  BY <1>1 DEF SoFar
<1>2. \A x : For(out.writer, x) <=> For(w, x)
  BY <1>1 DEF For
<1>3. out = Outcome([w EXCEPT !.run_stop_time_ms = m.stop_time], "Ok")
  BY DEF OnRunStop
<1>4. out.writer.event_id = w.event_id
  BY <1>3 DEF Outcome, PlacedWriter
<1>5. Recorded(out.writer) = Recorded(w)
  BY <1>4 DEF Recorded
<1> QED BY <1>1, <1>2, <1>5 DEF SoFar

\* The writers of a message are those that it is for.
LEMMA RoutedIffFor ==
  ASSUME FileTypeOK, RoutedAsSubscribed, NEW m \in Message, NEW i \in DOMAIN writers
  PROVE  (i - 1) \in Range(WritersFor(router, m.topic, m.key)) <=> For(writers[i], m)
<1>1. /\ i \in Nat /\ i - 1 \in 0..Len(writers) /\ i - 1 < Len(writers) /\ (i - 1) + 1 = i
      /\ m.topic \in Topics /\ m.key \in Keys \cup {None}
  BY DEF FileTypeOK, Message
<1>2. Registered(i - 1) = Range(writers[i].subscriptions)
  BY <1>1 DEF Registered
<1>3. Range(WritersFor(router, m.topic, m.key)) = Subscribers(m.topic, m.key)
  BY <1>1 DEF RoutedAsSubscribed, RoutedTo
<1>4. i - 1 \in Subscribers(m.topic, m.key)
        <=> \E sub \in Range(writers[i].subscriptions) : Matches(sub, m.topic, m.key)
  BY <1>1, <1>2 DEF Subscribers
<1> QED BY <1>3, <1>4 DEF For, Range

LEMMA NoStopYet == handled = {} => StopTimes = {run.stop_time_ms}
  BY DEF StopTimes

LEMMA RecordedBuild ==
  ASSUME FileTypeOK, RecordedOK, Build, UNCHANGED handled
  PROVE  RecordedOK'
<1>1. phase = "building" /\ run' = run /\ handled = {} /\ phase' \in {"building", "ready", "failed"}
      /\ (adding # None => SoFar(adding, {}, {}, {run.stop_time_ms}, run.start_time_ms))
  BY DEF RecordedOK, Build, CreateWriter, PlacementFails, SubscribeWriter, PushWriter,
         FinishStructure, Fail
<1>2. StopTimes = {run.stop_time_ms} /\ StopTimes' = {run.stop_time_ms}
  BY <1>1, NoStopYet DEF StopTimes
<1>3. \A i : Given(i) = {} /\ Given(i)' = {}
  BY <1>1 DEF Given
<1>4. \A i \in DOMAIN writers : SoFar(writers[i], {}, {}, {run.stop_time_ms}, run.start_time_ms)
  BY <1>1, <1>2, <1>3 DEF RecordedOK
<1>5. ASSUME /\ \A i \in DOMAIN writers' :
                  SoFar(writers'[i], {}, {}, {run.stop_time_ms}, run.start_time_ms)
             /\ adding' # None =>
                  SoFar(adding', {}, {}, {run.stop_time_ms}, run.start_time_ms)
      PROVE  RecordedOK'
  BY <1>1, <1>2, <1>3, <1>5 DEF RecordedOK
<1>6. CASE CreateWriter
  <2>1. adding' = NewWriter(Head(specs), run) /\ writers' = writers
    BY <1>6 DEF CreateWriter
  <2>2. Recorded(adding') = {} /\ adding'.run_start_time_ms = run.start_time_ms
        /\ adding'.run_stop_time_ms = run.stop_time_ms
    BY <2>1 DEF NewWriter, Recorded
  <2> QED BY <1>4, <1>5, <2>1, <2>2 DEF SoFar
<1>7. CASE PushWriter
  <2>1. writers' = Append(writers, adding) /\ writers \in Seq(PlacedWriter)
        /\ adding # None /\ adding \in PlacedWriter /\ adding' = None
    BY <1>7 DEF PushWriter, FileTypeOK
  <2>2. \A i \in DOMAIN writers' :
          (i \in DOMAIN writers /\ writers'[i] = writers[i]) \/ writers'[i] = adding
    BY <2>1
  <2> QED BY <1>1, <1>4, <1>5, <2>1, <2>2
<1>8. CASE PlacementFails \/ SubscribeWriter \/ FinishStructure
  BY <1>1, <1>4, <1>5, <1>8 DEF PlacementFails, SubscribeWriter, FinishStructure, placement
<1> QED BY <1>6, <1>7, <1>8 DEF Build

LEMMA RecordedHandle ==
  ASSUME FileTypeOK, RoutedAsSubscribed, RecordedOK,
         NEW m \in Message, HandleMessage(m), handled' = handled \cup {m}
  PROVE  RecordedOK'
<1>1. phase = "ready" /\ UNCHANGED <<run, writers, router>>
      /\ phase' \in {"ready", "message", "stop"}
  BY DEF HandleMessage, IgnoreMessage, UnroutedMessage, StopWithoutWriters, BeginMessage,
         BeginRunStop, Begin, fileVars, placement
<1>2. phase' \in {"message", "stop"} => msg' = m
  BY <1>1 DEF HandleMessage, IgnoreMessage, UnroutedMessage, StopWithoutWriters, BeginMessage,
         BeginRunStop, Begin, fileVars
<1>3. phase' = "stop" => IsOwnStop(m)
  BY <1>1 DEF HandleMessage, IgnoreMessage, UnroutedMessage, StopWithoutWriters, BeginMessage,
         BeginRunStop, Begin, fileVars
<1>4. phase' = "message" => todo' = WritersFor(router, m.topic, m.key)
  BY <1>1 DEF HandleMessage, IgnoreMessage, UnroutedMessage, StopWithoutWriters, BeginMessage,
         BeginRunStop, Begin, fileVars
<1>5. phase' # "message" => m.schema # "ev44" \/ WritersFor(router, m.topic, m.key) = <<>>
  BY DEF HandleMessage, IgnoreMessage, UnroutedMessage, StopWithoutWriters, BeginMessage,
         BeginRunStop, Begin, IsOwnStop
<1>6. StopTimes \subseteq StopTimes' /\ run.stop_time_ms \in StopTimes'
  BY <1>1 DEF StopTimes, IsOwnStop
<1>7. \A i \in DOMAIN writers : Given(i) = handled
  BY <1>1 DEF Given
<1>8. ASSUME NEW i \in DOMAIN writers
      PROVE  SoFar(writers'[i], Given(i)', handled', StopTimes', run'.start_time_ms)
  <2>1. ASSUME NEW x \in Given(i)'
        PROVE  \/ x \in Given(i) \/ ~For(writers[i], x)
               \/ \E s \in StopTimes' : ~EventsOf(x, run.start_time_ms, s)
    <3>1. CASE x \in handled
      BY <1>7, <3>1
    <3>2. CASE x = m
      <4>1. CASE phase' = "message"
        <5>1. (i - 1) \notin Range(WritersFor(router, m.topic, m.key))
          BY <1>2, <1>4, <2>1, <3>2, <4>1 DEF Given
        <5> QED BY <3>2, <5>1, RoutedIffFor
      <4>2. CASE m.schema # "ev44"
        BY <1>6, <3>2, <4>2 DEF EventsOf
      <4>3. CASE WritersFor(router, m.topic, m.key) = <<>>
        <5>1. Range(WritersFor(router, m.topic, m.key)) = {}
          BY <4>3 DEF Range
        <5> QED BY <3>2, <5>1, RoutedIffFor
      <4> QED BY <1>5, <4>1, <4>2, <4>3
    <3> QED BY <2>1, <3>1, <3>2 DEF Given
  <2>2. SoFar(writers[i], Given(i), handled, StopTimes, run.start_time_ms)
    BY <1>1 DEF RecordedOK
  <2>3. handled \subseteq handled'
    OBVIOUS
  <2>4. SoFar(writers[i], Given(i)', handled', StopTimes', run.start_time_ms)
    BY <1>6, <2>1, <2>2, <2>3, SoFarMore
  <2> QED BY <1>1, <2>4
<1>9. phase' = "message" => \A id \in Range(todo') : For(writers'[id + 1], m)
  <2> SUFFICES ASSUME phase' = "message", NEW id \in Range(todo')
               PROVE  For(writers[id + 1], m)
    BY <1>1
  <2>1. id \in Range(WritersFor(router, m.topic, m.key))
    BY <1>4
  <2>2. PICK k \in DOMAIN WritersFor(router, m.topic, m.key) :
               id = WritersFor(router, m.topic, m.key)[k]
    BY <2>1 DEF Range
  <2>3. m.topic \in Topics /\ m.key \in Keys \cup {None}
    BY DEF Message
  <2>4. id < Len(writers)
    BY <1>1, <2>2, <2>3, RoutedWithin
  <2>5. WritersFor(router, m.topic, m.key) \in Seq(Nat)
    BY <2>3, RouteType DEF FileTypeOK
  <2>6. id \in Nat
    BY <2>2, <2>5
  <2>7. id + 1 \in DOMAIN writers /\ (id + 1) - 1 = id
    BY <2>4, <2>6 DEF FileTypeOK
  <2> QED BY <2>1, <2>7, RoutedIffFor
<1>10. m \in handled'
  OBVIOUS
<1>11. \A x : IsOwnStop(x)' <=> IsOwnStop(x)
  BY <1>1 DEF IsOwnStop
<1> QED BY <1>1, <1>2, <1>3, <1>8, <1>9, <1>10, <1>11 DEF RecordedOK

LEMMA RangeTail ==
  ASSUME NEW s \in Seq(Nat), s # <<>>
  PROVE  Range(s) = {Head(s)} \cup Range(Tail(s))
<1>1. /\ Len(s) \in Nat /\ Len(s) > 0 /\ DOMAIN s = 1..Len(s) /\ Head(s) = s[1]
      /\ DOMAIN Tail(s) = 1..(Len(s) - 1) /\ \A i \in 1..(Len(s) - 1) : Tail(s)[i] = s[i + 1]
  OBVIOUS
<1>2. \A i \in 1..Len(s) : i = 1 \/ (i - 1 \in 1..(Len(s) - 1) /\ s[i] = Tail(s)[i - 1])
  BY <1>1
<1>3. \A i \in 1..(Len(s) - 1) : i + 1 \in 1..Len(s)
  BY <1>1
<1>4. Range(s) \subseteq {Head(s)} \cup Range(Tail(s))
  <2> SUFFICES ASSUME NEW i \in 1..Len(s) PROVE s[i] \in {Head(s)} \cup Range(Tail(s))
    BY <1>1 DEF Range
  <2>1. CASE i = 1
    BY <1>1, <2>1
  <2>2. CASE i # 1
    <3>1. i - 1 \in DOMAIN Tail(s) /\ s[i] = Tail(s)[i - 1]
      BY <1>1, <1>2, <2>2
    <3> QED BY <3>1 DEF Range
  <2> QED BY <2>1, <2>2
<1>5. {Head(s)} \cup Range(Tail(s)) \subseteq Range(s)
  <2>1. 1 \in DOMAIN s
    BY <1>1
  <2> QED BY <1>1, <1>3, <2>1 DEF Range
<1> QED BY <1>4, <1>5

\* What either loop leaves alone, with the writer that it visits and the outcome
LEMMA Visit ==
  ASSUME AlignedInv, NotifyWriter \/ StopWriter, phase' # "failed"
  PROVE  \E out :
           /\ \/ phase = "message" /\ out \in OnMessage(writers[Head(todo) + 1], msg)
                 /\ Notify(Head(todo), out, FALSE) /\ phase' \in {"ready", "message"}
              \/ phase = "stop" /\ out \in OnRunStop(writers[Head(todo) + 1], msg)
                 /\ Notify(Head(todo), out, TRUE) /\ phase' \in {"ready", "stop"}
           /\ out.result = "Ok"
           /\ todo' = Tail(todo) /\ todo \in Seq(Nat) /\ todo # <<>>
           /\ (Tail(todo) = <<>> <=> phase' = "ready") /\ (Tail(todo) # <<>> => msg' = msg)
           /\ msg \in Message /\ run' = run
           /\ Head(todo) + 1 \in DOMAIN writers /\ DOMAIN writers' = DOMAIN writers
           /\ writers[Head(todo) + 1] \in PlacedWriter /\ Aligned(writers[Head(todo) + 1])
           /\ writers'[Head(todo) + 1] = out.writer
           /\ \A i \in DOMAIN writers : i # Head(todo) + 1 => writers'[i] = writers[i]
           /\ \A i \in DOMAIN writers : SameWriter(writers[i], writers'[i])
<1>1. FileTypeOK /\ WriterAlwaysFound /\ ColumnsAligned
  BY DEF AlignedInv, RoutingInv
<1>2. PICK out : /\ \/ phase = "message" /\ out \in OnMessage(writers[Head(todo) + 1], msg)
                       /\ Notify(Head(todo), out, FALSE)
                    \/ phase = "stop" /\ out \in OnRunStop(writers[Head(todo) + 1], msg)
                       /\ Notify(Head(todo), out, TRUE)
                 /\ SameWriter(writers[Head(todo) + 1], out.writer)
                 /\ run' = run
  BY <1>1, LoopStep
<1>3. PICK stopping \in BOOLEAN : Notify(Head(todo), out, stopping)
  BY <1>2
<1>4. out.result = "Ok" /\ Continue(stopping)
  BY <1>3 DEF Notify, Fail
<1>5. /\ Head(todo) + 1 \in DOMAIN writers /\ DOMAIN writers' = DOMAIN writers
      /\ writers'[Head(todo) + 1] = out.writer
      /\ \A i \in DOMAIN writers : i # Head(todo) + 1 => writers'[i] = writers[i]
  BY <1>1, <1>2, <1>3, LoopUpdate
<1>6. /\ todo \in Seq(Nat) /\ todo # <<>> /\ msg \in Message
      /\ \A i \in DOMAIN writers : writers[i] \in PlacedWriter
  <2>1. phase \in {"message", "stop"}
    BY <1>2
  <2> QED BY <1>1, <2>1 DEF FileTypeOK
<1>7. /\ todo' = Tail(todo) /\ (Tail(todo) = <<>> <=> phase' = "ready")
      /\ (Tail(todo) # <<>> => msg' = msg) /\ phase' \in {"ready", phase}
  BY <1>2, <1>4 DEF Continue
<1>8. \A i \in DOMAIN writers : SameWriter(writers[i], writers'[i])
  BY <1>2, <1>5, <1>6 DEF SameWriter
<1>9. Aligned(writers[Head(todo) + 1])
  BY <1>1, <1>2, <1>5 DEF ColumnsAligned
<1> QED BY <1>2, <1>4, <1>5, <1>6, <1>7, <1>8, <1>9

LEMMA RecordedLoop ==
  ASSUME AlignedInv, RecordedOK, NotifyWriter \/ StopWriter, UNCHANGED handled
  PROVE  RecordedOK'
<1> SUFFICES ASSUME phase' # "failed" PROVE RecordedOK'
  BY DEF RecordedOK
<1>1. PICK out :
        /\ \/ phase = "message" /\ out \in OnMessage(writers[Head(todo) + 1], msg)
              /\ Notify(Head(todo), out, FALSE) /\ phase' \in {"ready", "message"}
           \/ phase = "stop" /\ out \in OnRunStop(writers[Head(todo) + 1], msg)
              /\ Notify(Head(todo), out, TRUE) /\ phase' \in {"ready", "stop"}
        /\ out.result = "Ok"
        /\ todo' = Tail(todo) /\ todo \in Seq(Nat) /\ todo # <<>>
        /\ (Tail(todo) = <<>> <=> phase' = "ready") /\ (Tail(todo) # <<>> => msg' = msg)
        /\ msg \in Message /\ run' = run
        /\ Head(todo) + 1 \in DOMAIN writers /\ DOMAIN writers' = DOMAIN writers
        /\ writers[Head(todo) + 1] \in PlacedWriter /\ Aligned(writers[Head(todo) + 1])
        /\ writers'[Head(todo) + 1] = out.writer
        /\ \A i \in DOMAIN writers : i # Head(todo) + 1 => writers'[i] = writers[i]
        /\ \A i \in DOMAIN writers : SameWriter(writers[i], writers'[i])
  BY Visit
<1> PICK v \in DOMAIN writers : v = Head(todo) + 1
  BY <1>1
<1>2. StopTimes' = StopTimes /\ \A x : IsOwnStop(x)' <=> IsOwnStop(x)
  BY <1>1 DEF StopTimes, IsOwnStop
<1>3. Range(todo) = {Head(todo)} \cup Range(todo') /\ Head(todo) \in Nat /\ v - 1 = Head(todo)
  <2>1. todo \in Seq(Nat) /\ todo # <<>> /\ todo' = Tail(todo)
    BY <1>1
  <2>2. Range(todo) = {Head(todo)} \cup Range(Tail(todo))
    BY <2>1, RangeTail
  <2>3. Head(todo) \in Nat
    BY <2>1
  <2> QED BY <2>1, <2>2, <2>3
<1>4. /\ msg \in handled
      /\ phase = "stop" => IsOwnStop(msg)
      /\ phase = "message" => \A id \in Range(todo) : For(writers[id + 1], msg)
      /\ \A i \in DOMAIN writers :
           SoFar(writers[i], Given(i), handled, StopTimes, run.start_time_ms)
  BY <1>1 DEF RecordedOK
<1>5. ASSUME NEW i \in DOMAIN writers, i # v
      PROVE  SoFar(writers'[i], Given(i)', handled', StopTimes', run'.start_time_ms)
  <2>1. i - 1 # Head(todo)
    BY <1>1, <1>3, <1>5 DEF AlignedInv, RoutingInv, FileTypeOK
  <2>2. i - 1 \in Range(todo) => i - 1 \in Range(todo')
    BY <1>3, <2>1
  <2>3. todo' = <<>> => Range(todo') = {}
    BY DEF Range
  <2>4. Given(i)' \subseteq Given(i)
    BY <1>1, <2>2, <2>3 DEF Given
  <2>5. SoFar(writers[i], Given(i)', handled, StopTimes, run.start_time_ms)
    BY <1>4, <2>4, SoFarMore
  <2> QED BY <1>1, <1>2, <1>5, <2>5
<1>6. SoFar(writers'[v], Given(v)', handled', StopTimes', run'.start_time_ms)
  <2>1. Given(v)' \subseteq Given(v) \cup {msg}
    BY <1>1 DEF Given
  <2>2. SoFar(writers[v], Given(v), handled, StopTimes, run.start_time_ms)
    BY <1>1, <1>4
  <2>3. CASE phase = "message"
    <3>1. For(writers[v], msg)
      BY <1>3, <1>4, <2>3
    <3>2. /\ out \in OnMessage(writers[v], msg) /\ out.result = "Ok"
          /\ writers[v] \in PlacedWriter /\ Aligned(writers[v])
          /\ msg \in Message /\ msg \in handled
      BY <1>1, <1>4, <2>3
    <3>3. SoFar(out.writer, Given(v)', handled, StopTimes, run.start_time_ms)
      BY <2>1, <2>2, <3>1, <3>2, SoFarGiven
    <3> QED BY <1>1, <1>2, <3>3
  <2>4. CASE phase = "stop"
    <3>1. msg.stop_time \in StopTimes
      BY <1>4, <2>4 DEF StopTimes
    <3>2. out \in OnRunStop(writers[v], msg)
      BY <1>1, <2>4
    <3>3. Given(v)' \subseteq Given(v)
      BY <1>1, <2>4 DEF Given
    <3>4. SoFar(writers[v], Given(v)', handled, StopTimes, run.start_time_ms)
      BY <2>2, <3>3, SoFarMore
    <3>5. SoFar(out.writer, Given(v)', handled, StopTimes, run.start_time_ms)
      BY <1>1, <3>1, <3>2, <3>4, SoFarStopped
    <3> QED BY <1>1, <1>2, <3>5
  <2> QED BY <1>1, <2>3, <2>4
<1>7. phase' = "message" => \A id \in Range(todo') : For(writers'[id + 1], msg')
  <2> SUFFICES ASSUME phase' = "message", NEW id \in Range(todo')
               PROVE  For(writers'[id + 1], msg)
    BY <1>1
  <2>1. phase = "message" /\ id \in Range(todo)
    BY <1>1, <1>3
  <2>2. id + 1 \in DOMAIN writers
    BY <1>1, <2>1 DEF AlignedInv, RoutingInv, WriterAlwaysFound, Range, FileTypeOK
  <2>3. writers'[id + 1].subscriptions = writers[id + 1].subscriptions
    BY <1>1, <2>2 DEF SameWriter
  <2> QED BY <1>4, <2>1, <2>3 DEF For
<1>8. \A i \in DOMAIN writers' :
        SoFar(writers'[i], Given(i)', handled', StopTimes', run'.start_time_ms)
  BY <1>1, <1>5, <1>6
<1>9. phase' # "building" /\ (phase' \in {"message", "stop"} => msg' = msg)
      /\ (phase' = "stop" => phase = "stop")
  BY <1>1
<1> QED BY <1>2, <1>4, <1>7, <1>8, <1>9 DEF RecordedOK

LEMMA RecordedStep ==
  ASSUME TaskInv, RecordedOK, [TaskNext]_vars
  PROVE  RecordedOK'
<1>1. FileTypeOK /\ LogOK /\ ConsumerOK /\ AlignedInv /\ RoutedAsSubscribed
  BY TypeParts DEF TaskInv, AlignedInv, RoutingInv
<1>2. CASE UNCHANGED fileVars /\ UNCHANGED handled
  <2>1. StopTimes' = StopTimes /\ \A x : IsOwnStop(x)' <=> IsOwnStop(x)
    BY <1>2 DEF StopTimes, IsOwnStop, fileVars
  <2>2. \A i : Given(i)' = Given(i)
    BY <1>2 DEF Given, fileVars
  <2> QED BY <1>2, <2>1, <2>2 DEF RecordedOK, fileVars
<1>3. CASE \/ ResolveStructure \/ CreateFile \/ Assign \/ LeaveLoop \/ Unassign \/ CloseFile
           \/ UNCHANGED vars \/ \E p \in Partitions : Publish(p) \/ ResolveEnd(p)
  <2>1. UNCHANGED fileVars /\ UNCHANGED handled
    BY <1>3 DEF ResolveStructure, CreateFile, Assign, LeaveLoop, Unassign, CloseFile, Publish,
                ResolveEnd, vars, taskVars
  <2> QED BY <1>2, <2>1
<1>4. CASE BuildFile
  <2>1. UNCHANGED handled /\ (Build \/ UNCHANGED fileVars)
    BY <1>4 DEF BuildFile
  <2> QED BY <1>1, <1>2, <2>1, RecordedBuild
<1>5. CASE PassOn
  BY <1>1, <1>5, RecordedLoop DEF PassOn, taskVars
<1>6. ASSUME NEW p \in Partitions, Poll(p) PROVE RecordedOK'
  <2> DEFINE m == log[p][position[p] + 1]
  <2>1. m \in Message /\ HandleMessage(m) /\ handled' = handled \cup {m}
    BY <1>1, <1>6, NextMessage DEF Poll
  <2> QED BY <1>1, <2>1, RecordedHandle
<1> QED BY <1>3, <1>4, <1>5, <1>6 DEF TaskNext, TaskStep

RecordedInv == StageInv /\ AssignedOK /\ RecordedOK

LEMMA RecordedInit == TaskInit => RecordedInv
<1> SUFFICES ASSUME TaskInit PROVE RecordedInv
  OBVIOUS
<1>1. StageInv /\ AssignedOK
  BY TaskInvInit, StageInit DEF TaskInit, StageInv, AssignedOK
<1>2. RecordedOK
  BY DEF TaskInit, FileInit, RecordedOK
<1> QED BY <1>1, <1>2 DEF RecordedInv

LEMMA RecordedInvStep == RecordedInv /\ [TaskNext]_vars => RecordedInv'
  BY TaskInvStep, StageStep, AssignedStep, RecordedStep, TypeParts
  DEF RecordedInv, StageInv, TaskInv

LEMMA RecordedInvariance == TaskSpec => []RecordedInv
<1> QED BY RecordedInit, RecordedInvStep, PTL DEF TaskSpec

(***************************************************************************)
(* No order of events and run stops makes an event writer skip an event    *)
(* that every stop time admits, or keep one that none does.                *)
(***************************************************************************)
THEOREM EventsRecorded == TaskSpec => []ReceivedEventsRecorded
<1>1. RecordedInv => ReceivedEventsRecorded
  <2> SUFFICES ASSUME RecordedInv, phase = "ready",
                      NEW i \in DOMAIN writers, writers[i].kind = "NXevent_data"
               PROVE  /\ \A m \in handled :
                           For(writers[i], m)
                             /\ (\A s \in StopTimes : EventsOf(m, run.start_time_ms, s))
                               => m.id \in Recorded(writers[i])
                      /\ \A id \in Recorded(writers[i]) : \E m \in handled, s \in StopTimes :
                           /\ m.id = id /\ For(writers[i], m)
                           /\ EventsOf(m, run.start_time_ms, s)
    BY DEF ReceivedEventsRecorded, EventWriters
  <2>1. Given(i) = handled
    BY DEF Given
  <2>2. SoFar(writers[i], handled, handled, StopTimes, run.start_time_ms)
    BY <2>1 DEF RecordedInv, RecordedOK
  <2> QED BY <2>2 DEF SoFar
<1> QED BY <1>1, RecordedInvariance, PTL

-----------------------------------------------------------------------------
(***************************************************************************)
(* What a writer has last seen, and what the consumer has passed.          *)
(***************************************************************************)
\* latest_message_time_ms is the timestamp of a message for the writer, if not that of new()
Seen(w, all) ==
  w.kind = "NXevent_data" =>
    \/ w.latest_message_time_ms = 0
    \/ \E m \in all : For(w, m) /\ m.timestamp = w.latest_message_time_ms

SeenOK ==
  phase # "failed" =>
    /\ adding # None => Seen(adding, {})
    /\ \A i \in DOMAIN writers : Seen(writers[i], handled)

LEMMA OnMessageLatest ==
  ASSUME NEW w \in PlacedWriter, w.kind = "NXevent_data", NEW m \in Message,
         NEW out \in OnMessage(w, m), out.result = "Ok"
  PROVE  out.writer.latest_message_time_ms \in {w.latest_message_time_ms, m.timestamp}
<1> DEFINE seen == [w EXCEPT !.latest_message_time_ms = m.timestamp]
<1>1. ASSUME NEW v \in PlacedWriter, out \in WriteData(v, m)
      PROVE  out.writer.latest_message_time_ms = v.latest_message_time_ms
  <2>1. CASE m.schema = "pu00"
    <3> DEFINE n       == Len(v.event_time_zero)
               resized == [v EXCEPT !.event_time_zero = Resize(@, n + 1)]
               written == [resized EXCEPT !.event_time_zero = WriteSlice(@, n, Rows(m.id, 1))]
    <3>1. out \in Broken(v) \cup Broken(resized) \cup {Outcome(written, "Ok")}
      BY <1>1, <2>1 DEF WriteData, WritePulse
    <3>2. written.latest_message_time_ms = v.latest_message_time_ms
      BY DEF PlacedWriter
    <3> HIDE DEF resized, written
    <3>3. \A x : out \in Broken(x) => out.result = "Err"
      BY DEF Broken, Outcome
    <3> QED BY <3>1, <3>2, <3>3 DEF Outcome
  <2>2. CASE m.schema = "ev44" /\ ValidEvents(m)
    <3> DEFINE n   == Len(v.event_time_offset)
               ids == [v   EXCEPT !.event_id          = Resize(@, n + m.pixel_id)]
               two == [ids EXCEPT !.event_time_offset = Resize(@, n + m.time_of_flight)]
               idw == [two EXCEPT !.event_id = WriteSlice(@, n, Rows(m.id, m.pixel_id))]
               all == [idw EXCEPT !.event_time_offset =
                         WriteSlice(@, n, Rows(m.id, m.time_of_flight))]
    <3>1. out \in UNION {Broken(v), Broken(ids), Broken(two), Broken(idw), {Outcome(all, "Ok")}}
      BY <1>1, <2>2 DEF WriteData, WriteEvents
    <3>2. all.latest_message_time_ms = v.latest_message_time_ms
      BY DEF PlacedWriter
    <3> HIDE DEF ids, two, idw, all
    <3>3. \A x : out \in Broken(x) => out.result = "Err"
      BY DEF Broken, Outcome
    <3> QED BY <3>1, <3>2, <3>3 DEF Outcome
  <2>3. CASE m.schema \notin {"pu00", "ev44"} \/ (m.schema = "ev44" /\ ~ValidEvents(m))
    BY <1>1, <2>3 DEF WriteData, WriteEvents, Outcome
  <2> QED BY <2>1, <2>2, <2>3
<1>2. out \in NXeventdataOnMessage(w, m)
  BY DEF OnMessage
<1>3. CASE m.timestamp = None
  BY <1>1, <1>2, <1>3 DEF NXeventdataOnMessage
<1>4. CASE m.timestamp # None
  <2>1. ~(m.timestamp < 0)
    BY <1>2, <1>4 DEF NXeventdataOnMessage, Outcome
  <2>2. m.timestamp \in Nat
    BY <1>4, <2>1 DEF Message
  <2>3. seen \in PlacedWriter /\ seen.latest_message_time_ms = m.timestamp
    BY <2>2 DEF PlacedWriter
  <2>4. out \in WriteData(seen, m) \/ out = Outcome(seen, "Ok")
    BY <1>2, <1>4, <2>1 DEF NXeventdataOnMessage
  <2> HIDE DEF seen
  <2> QED BY <1>1, <2>3, <2>4 DEF Outcome
<1> QED BY <1>3, <1>4

LEMMA SeenLoop ==
  ASSUME AlignedInv, RecordedOK, SeenOK, NotifyWriter \/ StopWriter, UNCHANGED handled
  PROVE  SeenOK'
<1> SUFFICES ASSUME phase' # "failed" PROVE SeenOK'
  BY DEF SeenOK
<1>1. PICK out :
        /\ \/ phase = "message" /\ out \in OnMessage(writers[Head(todo) + 1], msg)
           \/ phase = "stop" /\ out \in OnRunStop(writers[Head(todo) + 1], msg)
        /\ out.result = "Ok" /\ msg \in Message
        /\ todo \in Seq(Nat) /\ todo # <<>>
        /\ Head(todo) + 1 \in DOMAIN writers /\ DOMAIN writers' = DOMAIN writers
        /\ writers[Head(todo) + 1] \in PlacedWriter
        /\ writers'[Head(todo) + 1] = out.writer
        /\ \A i \in DOMAIN writers : i # Head(todo) + 1 => writers'[i] = writers[i]
        /\ \A i \in DOMAIN writers : SameWriter(writers[i], writers'[i])
  BY Visit
<1>2. phase \in {"message", "stop"} /\ adding' = adding
  BY <1>1 DEF NotifyWriter, StopWriter, placement
<1>3. PICK v \in DOMAIN writers : v = Head(todo) + 1
  BY <1>1
<1>4. msg \in handled /\ (adding # None => Seen(adding, {}))
      /\ \A i \in DOMAIN writers : Seen(writers[i], handled)
  BY <1>2 DEF RecordedOK, SeenOK
<1>5. Seen(writers'[v], handled)
  <2> SUFFICES ASSUME writers[v].kind = "NXevent_data" PROVE Seen(writers'[v], handled)
    BY <1>1 DEF SameWriter, Seen
  <2>1. /\ writers'[v] = out.writer /\ out.writer.subscriptions = writers[v].subscriptions
        /\ writers[v] \in PlacedWriter
    BY <1>1, <1>3 DEF SameWriter
  <2>2. \A m : For(out.writer, m) <=> For(writers[v], m)
    BY <2>1 DEF For
  <2>3. CASE phase = "message"
    <3>1. Head(todo) \in Range(todo)
      BY <1>1, RangeTail
    <3>2. For(writers[v], msg)
      BY <1>3, <2>3, <3>1 DEF RecordedOK
    <3>3. out \in OnMessage(writers[v], msg)
      BY <1>1, <1>3, <2>3
    <3>4. out.writer.latest_message_time_ms \in {writers[v].latest_message_time_ms, msg.timestamp}
      BY <1>1, <2>1, <3>3, OnMessageLatest
    <3> QED BY <1>4, <2>1, <2>2, <3>2, <3>4 DEF Seen
  <2>4. CASE phase = "stop"
    <3>1. out \in OnRunStop(writers[v], msg)
      BY <1>1, <1>3, <2>4
    <3>2. out = Outcome([writers[v] EXCEPT !.run_stop_time_ms = msg.stop_time], "Ok")
      BY <3>1 DEF OnRunStop
    <3>3. out.writer.latest_message_time_ms = writers[v].latest_message_time_ms
      BY <2>1, <3>2 DEF Outcome, PlacedWriter
    <3> QED BY <1>4, <2>1, <2>2, <3>3 DEF Seen
  <2> QED BY <1>2, <2>3, <2>4
<1>6. \A i \in DOMAIN writers' : Seen(writers'[i], handled)
  BY <1>1, <1>3, <1>4, <1>5
<1> QED BY <1>2, <1>4, <1>6 DEF SeenOK

LEMMA SeenStep ==
  ASSUME TaskInv, RecordedOK, SeenOK, [TaskNext]_vars
  PROVE  SeenOK'
<1>1. FileTypeOK /\ LogOK /\ ConsumerOK /\ AlignedInv
  BY TypeParts DEF TaskInv
<1>2. CASE UNCHANGED <<phase, adding, writers>> /\ handled \subseteq handled'
  BY <1>2 DEF SeenOK, Seen
<1>3. CASE \/ ResolveStructure \/ CreateFile \/ Assign \/ LeaveLoop \/ Unassign \/ CloseFile
           \/ UNCHANGED vars \/ \E p \in Partitions : Publish(p) \/ ResolveEnd(p)
  <2>1. UNCHANGED fileVars /\ UNCHANGED handled
    BY <1>3 DEF ResolveStructure, CreateFile, Assign, LeaveLoop, Unassign, CloseFile, Publish,
                ResolveEnd, vars, taskVars
  <2> QED BY <1>2, <2>1 DEF fileVars
<1>4. CASE BuildFile
  <2>1. UNCHANGED handled /\ (Build \/ UNCHANGED fileVars)
    BY <1>4 DEF BuildFile
  <2>2. CASE CreateWriter
    <3>1. adding' = NewWriter(Head(specs), run) /\ writers' = writers /\ phase' = phase
      BY <2>2 DEF CreateWriter
    <3>2. Seen(adding', {})
      BY <3>1 DEF NewWriter, Seen
    <3> QED BY <2>1, <3>1, <3>2 DEF SeenOK
  <2>3. CASE PushWriter
    <3>1. writers' = Append(writers, adding) /\ writers \in Seq(PlacedWriter)
          /\ adding # None /\ adding \in PlacedWriter /\ adding' = None /\ phase' = phase
      BY <1>1, <2>3 DEF PushWriter, FileTypeOK
    <3>2. \A i \in DOMAIN writers' :
            (i \in DOMAIN writers /\ writers'[i] = writers[i]) \/ writers'[i] = adding
      BY <3>1
    <3>3. Seen(adding, {}) => Seen(adding, handled)
      BY DEF Seen
    <3> QED BY <2>1, <3>1, <3>2, <3>3 DEF SeenOK
  <2>4. CASE PlacementFails \/ SubscribeWriter \/ FinishStructure
    <3>1. UNCHANGED <<writers, adding>> /\ phase # "failed"
      BY <2>4 DEF PlacementFails, SubscribeWriter, FinishStructure, placement
    <3> QED BY <2>1, <3>1 DEF SeenOK
  <2> QED BY <1>2, <2>1, <2>2, <2>3, <2>4 DEF Build, fileVars
<1>5. CASE PassOn
  BY <1>1, <1>5, SeenLoop DEF PassOn, taskVars
<1>6. ASSUME NEW p \in Partitions, Poll(p) PROVE SeenOK'
  <2>1. UNCHANGED <<writers, adding>> /\ handled \subseteq handled' /\ phase # "failed"
    BY <1>6 DEF Poll, HandleMessage, IgnoreMessage, UnroutedMessage, StopWithoutWriters,
                BeginMessage, BeginRunStop, Begin, fileVars, placement
  <2> QED BY <2>1 DEF SeenOK, Seen
<1> QED BY <1>3, <1>4, <1>5, <1>6 DEF TaskNext, TaskStep

(***************************************************************************)
(* Of a partition whose place was known, what lies between that place and  *)
(* the consumer was handled, and what lies before it is too old.           *)
(***************************************************************************)
TooOld(p, i) == log[p][i].timestamp = None \/ ~(log[p][i].timestamp >= SeekTimestamp)

ReadOn(p) ==
  assignment[p] # AtEnd =>
    /\ assignment[p] \in Nat /\ position[p] \in Nat /\ assignment[p] <= position[p]
    /\ \A i \in 1..assignment[p] : TooOld(p, i)
    /\ \A i \in 1..position[p] : i <= assignment[p] \/ log[p][i] \in handled

\* Message m is one that the consumer has passed.
Passed(m) ==
  \E p \in DOMAIN position : \E i \in DOMAIN log[p] :
    position[p] \in Nat /\ i <= position[p] /\ m = log[p][i]

ConsumedOK ==
  /\ \A p \in Partitions : \A i \in DOMAIN log[p] : log[p][i].topic = p[1]
  /\ stage \in {"structure", "create", "build", "assign"} => handled = {}
  /\ stage \in {"poll", "unassign"} =>
       (\A p \in DOMAIN assignment : ReadOn(p)) /\ \A m \in handled : Passed(m)

LEMMA ConsumedInit == TaskInit => ConsumedOK
<1> SUFFICES ASSUME TaskInit PROVE ConsumedOK
  OBVIOUS
<1>1. PICK h \in Histories : log = h.log
  BY DEF TaskInit
<1>2. \A p \in Partitions : \A i \in DOMAIN h.log[p] : h.log[p][i].topic = p[1]
  BY TaskAssumption
<1> QED BY <1>1, <1>2 DEF TaskInit, ConsumedOK

\* offsets_for_times passes over nothing that is late enough.
LEMMA OffsetTooOld ==
  ASSUME NEW p, published[p] \in Nat, NEW offset, offset = OffsetForTime(p, SeekTimestamp),
         offset # AtEnd
  PROVE  offset \in Nat /\ \A i \in 1..offset : TooOld(p, i)
<1> DEFINE late(i) == log[p][i].timestamp # None /\ log[p][i].timestamp >= SeekTimestamp
           first   == {i \in 1..published[p] : late(i) /\ \A j \in 1..(i - 1) : ~late(j)}
<1>1. first # {}
  BY DEF OffsetForTime
<1>2. PICK f \in first : offset = f - 1
  <2>1. (CHOOSE i \in first : TRUE) \in first
    BY <1>1
  <2>2. offset = (CHOOSE i \in first : TRUE) - 1
    BY <1>1 DEF OffsetForTime
  <2> QED BY <2>1, <2>2
<1>3. f \in 1..published[p] /\ \A j \in 1..(f - 1) : ~late(j)
  OBVIOUS
<1> HIDE DEF first
<1>4. \A j : ~late(j) => TooOld(p, j)
  BY DEF TooOld
<1> HIDE DEF late
<1> QED BY <1>2, <1>3, <1>4

LEMMA ConsumedStep ==
  ASSUME LogOK, ConsumerOK, StageOK, ConsumedOK, [TaskNext]_vars
  PROVE  ConsumedOK'
<1>1. log' = log /\ run' = run
  <2>1. [FileNext]_fileVars /\ log' = log
    BY FileStep, LogStep
  <2> QED BY <2>1 DEF FileNext, Build, CreateWriter, PlacementFails, SubscribeWriter, PushWriter,
                FinishStructure, NotifyWriter, StopWriter, HandleMessage, IgnoreMessage,
                UnroutedMessage, StopWithoutWriters, BeginMessage, BeginRunStop, Begin, fileVars
<1>2. \A p, i : TooOld(p, i)' <=> TooOld(p, i)
  BY <1>1 DEF TooOld, SeekTimestamp
<1>3. \A p \in Partitions : \A i \in DOMAIN log'[p] : log'[p][i].topic = p[1]
  BY <1>1 DEF ConsumedOK
<1>4. ASSUME UNCHANGED <<assignment, position, handled>>,
             stage' = stage \/ (stage = "poll" /\ stage' = "unassign")
      PROVE  ConsumedOK'
  BY <1>1, <1>2, <1>3, <1>4 DEF ConsumedOK, ReadOn, Passed
<1>5. CASE \/ ResolveStructure \/ CreateFile \/ BuildFile \/ PassOn \/ LeaveLoop \/ CloseFile
           \/ UNCHANGED vars \/ \E p \in Partitions : Publish(p)
  <2>1. UNCHANGED <<assignment, position, handled>>
    BY <1>5 DEF ResolveStructure, CreateFile, BuildFile, PassOn, LeaveLoop, CloseFile, Publish,
                vars, taskVars, consumer
  <2>2. \/ stage' = stage \/ (stage = "poll" /\ stage' = "unassign")
        \/ stage' \in {"close", "done"}
        \/ {stage, stage'} \subseteq {"structure", "create", "build", "assign"}
    BY <1>5 DEF ResolveStructure, CreateFile, BuildFile, PassOn, LeaveLoop, CloseFile, Publish,
                Return, Abandon, vars, taskVars
  <2>3. CASE stage' = stage \/ (stage = "poll" /\ stage' = "unassign")
    BY <1>4, <2>1, <2>3
  <2>4. CASE stage' \in {"close", "done"}
    BY <1>3, <2>4 DEF ConsumedOK
  <2>5. CASE {stage, stage'} \subseteq {"structure", "create", "build", "assign"}
    BY <1>3, <2>1, <2>5 DEF ConsumedOK
  <2> QED BY <2>2, <2>3, <2>4, <2>5
<1>6. CASE Unassign
  <2>1. stage' = "close"
    BY <1>6 DEF Unassign
  <2> QED BY <1>3, <2>1 DEF ConsumedOK
<1>7. CASE Assign
  <2>1. CASE stage' = "close"
    BY <1>3, <2>1 DEF ConsumedOK
  <2>2. CASE AssignPartitions
    <3>1. position' = assignment' /\ handled = {} /\ handled' = {} /\ stage' = "poll"
      BY <1>7, <2>2 DEF AssignPartitions, Assign, ConsumedOK
    <3>2. ASSUME NEW p \in DOMAIN assignment', assignment'[p] # AtEnd
          PROVE  /\ assignment'[p] \in Nat /\ \A i \in 1..assignment'[p] : TooOld(p, i)
      <4>1. p \in Partitions /\ assignment'[p] = OffsetForTime(p, SeekTimestamp)
        BY <2>2, <3>2, AssignmentOf
      <4>2. published[p] \in Nat
        BY <4>1 DEF LogOK
      <4> QED BY <3>2, <4>1, <4>2, OffsetTooOld
    <3>3. \A p \in DOMAIN assignment' : ReadOn(p)'
      BY <1>2, <3>1, <3>2 DEF ReadOn
    <3> QED BY <1>3, <3>1, <3>3 DEF ConsumedOK
  <2> QED BY <1>7, <2>1, <2>2 DEF Assign, Abandon
<1>8. ASSUME NEW p \in Partitions, ResolveEnd(p) PROVE ConsumedOK'
  <2>1. /\ UNCHANGED <<assignment, handled, stage>> /\ position[p] = AtEnd /\ p \in DOMAIN position
        /\ position' = [position EXCEPT ![p] = published[p]]
        /\ DOMAIN position = DOMAIN assignment
    BY <1>8 DEF ResolveEnd, ConsumerOK
  <2>2. AtEnd \notin Nat
    BY TaskAssumption
  <2>3. \A q \in DOMAIN position : position[q] \in Nat => position'[q] = position[q]
    BY <2>1, <2>2
  <2>4. \A m : Passed(m) => Passed(m)'
    BY <1>1, <2>1, <2>3 DEF Passed
  <2>5. \A q \in DOMAIN assignment : ReadOn(q) => ReadOn(q)'
    BY <1>1, <1>2, <2>1, <2>3 DEF ReadOn
  <2> QED BY <1>3, <2>1, <2>4, <2>5 DEF ConsumedOK
<1>9. ASSUME NEW p \in Partitions, Poll(p) PROVE ConsumedOK'
  <2>0. position[p] \in Nat
    BY <1>9, NextMessage DEF Poll
  <2> PICK n \in Nat : n = position[p] + 1
    BY <2>0
  <2>1. /\ UNCHANGED <<assignment, stage>> /\ stage = "poll"
        /\ position' = [position EXCEPT ![p] = n] /\ p \in DOMAIN position
        /\ handled' = handled \cup {log[p][n]} /\ DOMAIN position = DOMAIN assignment
        /\ position[p] \in Nat /\ n \in DOMAIN log[p]
    BY <1>9, NextMessage DEF Poll, ConsumerOK
  <2>2. /\ \A q \in DOMAIN position : q # p => position'[q] = position[q]
        /\ position'[p] = n /\ DOMAIN position' = DOMAIN position
    BY <2>1
  <2>3. \A q \in DOMAIN position : position[q] \in Nat =>
          position'[q] \in Nat /\ position'[q] >= position[q]
    BY <2>1, <2>2
  <2>4. \A m : Passed(m) => Passed(m)'
    <3> SUFFICES ASSUME NEW m, Passed(m) PROVE Passed(m)'
      OBVIOUS
    <3>1. PICK q \in DOMAIN position : \E i \in DOMAIN log[q] :
                 position[q] \in Nat /\ i <= position[q] /\ m = log[q][i]
      BY DEF Passed
    <3>2. PICK i \in DOMAIN log[q] : position[q] \in Nat /\ i <= position[q] /\ m = log[q][i]
      BY <3>1
    <3>3. i \in Nat
      <4>1. q \in Partitions
        BY <2>1 DEF ConsumerOK
      <4> QED BY <4>1 DEF LogOK
    <3>4. position'[q] \in Nat /\ i <= position'[q]
      BY <2>3, <3>2, <3>3
    <3> QED BY <1>1, <2>2, <3>2, <3>4 DEF Passed
  <2>5. ASSUME NEW m, m = log[p][n] PROVE Passed(m)'
    <3>1. p \in DOMAIN position' /\ n \in DOMAIN log'[p] /\ m = log'[p][n]
      BY <1>1, <2>1, <2>2, <2>5
    <3>2. position'[p] \in Nat /\ n <= position'[p]
      BY <2>2
    <3> QED BY <3>1, <3>2 DEF Passed
  <2>6. ASSUME NEW q \in DOMAIN assignment PROVE ReadOn(q)'
    <3>1. ReadOn(q)
      BY <2>1 DEF ConsumedOK
    <3>2. CASE q # p
      BY <1>1, <1>2, <2>1, <2>2, <3>1, <3>2 DEF ReadOn
    <3>3. CASE q = p
      <4> SUFFICES ASSUME assignment[p] # AtEnd PROVE ReadOn(p)'
        BY <2>1, <3>3 DEF ReadOn
      <4>1. /\ assignment[p] \in Nat /\ assignment[p] <= position[p]
            /\ \A i \in 1..assignment[p] : TooOld(p, i)
            /\ \A i \in 1..position[p] : i <= assignment[p] \/ log[p][i] \in handled
        BY <3>1, <3>3 DEF ReadOn
      <4>2. \A i \in 1..n : i \in 1..position[p] \/ i = n
        BY <2>1
      <4>3. assignment[p] <= n /\ n \in Nat
        BY <2>1, <4>1
      <4>4. \A i \in 1..n : i <= assignment[p] \/ log[p][i] \in handled'
        BY <2>1, <4>1, <4>2
      <4>5. assignment'[p] = assignment[p] /\ position'[p] = n
        BY <2>1, <2>2
      <4> QED BY <1>1, <1>2, <4>1, <4>3, <4>4, <4>5 DEF ReadOn
    <3> QED BY <3>2, <3>3
  <2>7. \A m \in handled' : Passed(m)'
    <3>1. \A m \in handled : Passed(m)'
      BY <2>1, <2>4 DEF ConsumedOK
    <3> QED BY <2>1, <2>5, <3>1
  <2> QED BY <1>3, <2>1, <2>6, <2>7 DEF ConsumedOK
<1> QED BY <1>5, <1>6, <1>7, <1>8, <1>9 DEF TaskNext, TaskStep

CompleteInv == RecordedInv /\ SeenOK /\ ConsumedOK

LEMMA CompleteInvariance == TaskSpec => []CompleteInv
<1>1. TaskInit => RecordedInv /\ ConsumedOK
  BY RecordedInit, ConsumedInit
<1>2. TaskInit => SeenOK
  BY DEF TaskInit, FileInit, SeenOK
<1>3. CompleteInv /\ [TaskNext]_vars => CompleteInv'
  BY RecordedInvStep, SeenStep, ConsumedStep, TypeParts
  DEF CompleteInv, RecordedInv, StageInv, TaskInv
<1> QED BY <1>1, <1>2, <1>3, PTL DEF TaskSpec, CompleteInv

(***************************************************************************)
(* An event writer of one partition in order, whose place was known when   *)
(* the consumer was assigned, has been given every event of the run when   *)
(* the loop ends well: its last message is at or after the stop time and   *)
(* comes from that partition, and nothing before it was passed over.       *)
(***************************************************************************)
THEOREM Complete == TaskSpec => []CompleteWhenInOrder
<1>1. CompleteInv => CompleteWhenInOrder
  <2> SUFFICES ASSUME CompleteInv, stage = "unassign", error = None,
                      NEW n \in DOMAIN writers, writers[n].kind = "NXevent_data",
                      NEW p \in Partitions, PartitionsOf(writers[n]) = {p}, InOrder(p),
                      assignment[p] # AtEnd, writers[n].run_stop_time_ms > 0,
                      NEW i \in Wanted(writers[n], p)
               PROVE  log[p][i] \in handled
    BY DEF CompleteWhenInOrder, EventWriters
  <2> DEFINE w == writers[n]
  <2>1. FileTypeOK /\ LogOK /\ ConsumerOK /\ StageOK /\ SeenOK /\ ConsumedOK /\ AssignedOK
    BY TypeParts DEF CompleteInv, RecordedInv, StageInv, TaskInv
  <2>2. phase = "ready" /\ Finished
    BY <2>1 DEF StageOK, FileTypeOK
  <2>3. w \in PlacedWriter /\ n \in 1..Len(writers)
    BY <2>1 DEF FileTypeOK
  <2>4. w.latest_message_time_ms >= w.run_stop_time_ms
    BY <2>2, <2>3 DEF Finished, WriterFinished
  <2>5. Seen(w, handled)
    BY <2>1, <2>2 DEF SeenOK
  <2> HIDE DEF w
  <2>6. w.latest_message_time_ms \in Nat /\ w.run_stop_time_ms \in Nat
        /\ w.run_stop_time_ms > 0 /\ w.kind = "NXevent_data" /\ PartitionsOf(w) = {p}
    BY <2>3 DEF PlacedWriter, w
  <2>7. PICK m \in handled : For(w, m) /\ m.timestamp = w.latest_message_time_ms
    <3>1. w.latest_message_time_ms # 0
      BY <2>4, <2>6
    <3> QED BY <2>5, <2>6, <3>1 DEF Seen
  <2>8. PICK q \in DOMAIN position : \E k \in DOMAIN log[q] :
               position[q] \in Nat /\ k <= position[q] /\ m = log[q][k]
    BY <2>1, <2>7 DEF ConsumedOK, Passed
  <2>9. PICK k \in DOMAIN log[q] : position[q] \in Nat /\ k <= position[q] /\ m = log[q][k]
    BY <2>8
  <2>10. q = p
    <3>1. q \in Partitions
      BY <2>1 DEF ConsumerOK
    <3>2. m.topic = q[1]
      BY <2>1, <2>9, <3>1 DEF ConsumedOK
    <3>3. \E j \in DOMAIN w.subscriptions : w.subscriptions[j].topic = q[1]
      BY <2>7, <3>2 DEF For, Matches
    <3>4. q \in PartitionsOf(w)
      BY <3>1, <3>3 DEF PartitionsOf
    <3> QED BY <2>6, <3>4
  <2>11. log[p] \in Seq(Message) /\ DOMAIN log[p] = 1..Len(log[p]) /\ Len(log[p]) \in Nat
    BY <2>1 DEF LogOK
  <2>12. /\ i \in DOMAIN log[p] /\ log[p][i].timestamp # None
         /\ run.start_time_ms <= log[p][i].timestamp
         /\ log[p][i].timestamp <= w.run_stop_time_ms
    BY DEF Wanted, EventsOf, InOrder, w
  <2>13. /\ i \in Nat /\ k \in Nat /\ k \in DOMAIN log[p] /\ i >= 1
         /\ log[p][i].timestamp \in Int /\ log[p][k].timestamp = w.latest_message_time_ms
    <3>1. i \in 1..Len(log[p]) /\ k \in 1..Len(log[p])
      BY <2>9, <2>10, <2>11, <2>12
    <3>2. log[p][i] \in Message
      BY <2>11, <3>1
    <3>3. log[p][i].timestamp \in Int
      BY <2>12, <3>2 DEF Message
    <3>4. log[p][k].timestamp = w.latest_message_time_ms
      BY <2>7, <2>9, <2>10
    <3> QED BY <2>11, <3>1, <3>3, <3>4
  <2>14. i <= k
    <3> SUFFICES ASSUME k < i PROVE FALSE
      BY <2>13
    <3>1. log[p][k].timestamp < log[p][i].timestamp
      BY <2>12, <2>13 DEF InOrder
    <3> QED BY <2>4, <2>6, <2>12, <2>13, <3>1
  <2>15. i \in 1..position[p]
    BY <2>9, <2>10, <2>13, <2>14
  <2>16. ReadOn(p)
    BY <2>1, <2>8, <2>10 DEF ConsumedOK, ConsumerOK
  <2>17. ~TooOld(p, i)
    <3>1. run.start_time_ms \in Nat /\ SeekBack \in Nat
      BY <2>1, TaskAssumption DEF FileTypeOK, RunStart
    <3>2. SeekTimestamp <= run.start_time_ms /\ SeekTimestamp \in Int
      BY <3>1 DEF SeekTimestamp
    <3> QED BY <2>12, <2>13, <3>1, <3>2 DEF TooOld
  <2>18. assignment[p] \in Nat /\ ~(i <= assignment[p])
    BY <2>13, <2>16, <2>17 DEF ReadOn
  <2> QED BY <2>15, <2>16, <2>18 DEF ReadOn
<1> QED BY <1>1, CompleteInvariance, PTL
=============================================================================
