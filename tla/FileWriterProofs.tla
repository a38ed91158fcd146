-------------------------- MODULE FileWriterProofs -------------------------
(***************************************************************************)
(* The safety properties of FileWriter for any processes, partitions, run  *)
(* starts and number of faults.  Nothing is assumed but PoolAssumption.    *)
(*                                                                         *)
(* The inductive invariant is Inv.  What it adds to the properties is      *)
(* where a reader stands (Reading): the owner of a partition is going to   *)
(* read what follows the committed offset, unless it has one message more  *)
(* in its hands, which it is about to commit.                              *)
(***************************************************************************)
EXTENDS FileWriter, TLAPS

\* To unsubscribe is to leave the group.
USE DEF Unsubscribe

\* A reader that has n messages behind it goes on from the committed offset.
Resumes(x, n) ==
  IF committed[x] < 0 THEN Reset = "earliest" => n = 0 ELSE n = committed[x]

At(x, p) ==
  IF pc[p] = "commit" /\ got[p][1] = x
  THEN next[x] = got[p][2] /\ Resumes(x, got[p][2] - 1)
  ELSE Resumes(x, next[x])

Reading == \A x \in PoolPartitions, p \in Processes : owner[x] = p => At(x, p)

\* The file being written is the one that this run created.
OwnFile == \A p \in Processes : pc[p] = "write" => files[FileOf(got[p])] = got[p]

Inv ==
  /\ TypeOK /\ Reading /\ TakenRunsCommitted /\ CommittedRunsTaken
  /\ NoRunPassedOver /\ OneProcessPerRun /\ OwnFile /\ FileIsOfItsRun

-----------------------------------------------------------------------------
LEMMA MessageType ==
  ASSUME NEW r \in Messages
  PROVE  /\ r \in PoolPartitions \X Nat /\ r[1] \in PoolPartitions
         /\ r[2] \in Nat /\ r[2] >= 1 /\ r[2] <= Len(Pool[r[1]])
         /\ r # None /\ r = <<r[1], r[2]>>
         /\ Msg(r).kind \in Kinds /\ FileOf(r) \in Filenames
<1>1. PICK x \in PoolPartitions : r \in {x} \X (1..Len(Pool[x]))
  BY DEF Messages
<1> DEFINE M == [kind : Kinds, filename : Filenames]
<1>2. Pool[x] \in Seq(M)
  BY PoolAssumption
<1>3. Len(Pool[x]) \in Nat /\ r[1] = x /\ r[2] \in 1..Len(Pool[x]) /\ r = <<r[1], r[2]>>
  BY <1>1, <1>2
<1>4. Pool[x][r[2]] \in M
  <2> HIDE DEF M
  <2> QED BY <1>2, <1>3
<1> QED BY <1>3, <1>4, PoolAssumption DEF Msg, FileOf

LEMMA MessageExists ==
  ASSUME NEW x \in PoolPartitions, NEW n \in Nat, n >= 1, n <= Len(Pool[x])
  PROVE  <<x, n>> \in Messages
<1>1. Len(Pool[x]) \in Nat
  BY PoolAssumption
<1>2. <<x, n>> \in {x} \X (1..Len(Pool[x]))
  BY <1>1
<1> QED BY <1>2 DEF Messages

LEMMA RunType == ASSUME NEW r \in Runs PROVE r \in Messages /\ Msg(r).kind # "other"
  BY DEF Runs

\* What a message in hand says of its process
LEMMA InHand ==
  ASSUME TypeOK, NEW p \in Processes, pc[p] = "commit" \/ Busy(p)
  PROVE  /\ got[p] \in Messages /\ got[p] # None
         /\ Busy(p) => got[p] \in Runs
  BY DEF TypeOK, Runs, Busy

-----------------------------------------------------------------------------
LEMMA TypeInit == Init => TypeOK
<1> SUFFICES ASSUME Init PROVE TypeOK
  OBVIOUS
<1>1. \A x \in PoolPartitions : Len(Pool[x]) \in Nat
  BY PoolAssumption
<1> QED BY <1>1, PoolAssumption DEF Init, TypeOK, Busy, Labels, Fates

LEMMA LeaveType ==
  ASSUME TypeOK, NEW p \in Processes, Leave(p)
  PROVE  /\ joined' \subseteq Processes /\ owner' \in [PoolPartitions -> Processes \cup {None}]
         /\ next' = next
  BY DEF TypeOK, Leave

HandsType ==
  /\ pc' \in [Processes -> Labels] /\ got' \in [Processes -> Messages \cup {None}]
  /\ \A q \in Processes :
       /\ (got'[q] # None) = (pc'[q] = "commit" \/ Busy(q)')
       /\ Busy(q)' => Msg(got'[q]).kind = "start"

LEMMA GotoType ==
  ASSUME TypeOK, NEW p \in Processes, NEW l \in Labels, NEW r \in Messages \cup {None},
         Goto(p, l, r), (r # None) = (l \in {"commit", "consumer", "create", "write"}),
         l \in {"consumer", "create", "write"} => Msg(r).kind = "start"
  PROVE  HandsType
<1>1. pc' \in [Processes -> Labels] /\ got' \in [Processes -> Messages \cup {None}]
  BY DEF TypeOK, Goto
<1>2. ASSUME NEW q \in Processes
      PROVE  /\ (got'[q] # None) = (pc'[q] = "commit" \/ Busy(q)')
             /\ Busy(q)' => Msg(got'[q]).kind = "start"
  <2>1. CASE q = p
    <3>1. pc'[q] = l /\ got'[q] = r
      BY <2>1 DEF TypeOK, Goto
    <3> QED BY <3>1 DEF Busy, Msg
  <2>2. CASE q # p
    <3>1. pc'[q] = pc[q] /\ got'[q] = got[q]
      BY <2>2 DEF TypeOK, Goto
    <3> QED BY <3>1 DEF TypeOK, Busy, Msg
  <2> QED BY <2>1, <2>2
<1> QED BY <1>1, <1>2 DEF HandsType

LEMMA ReturnType ==
  ASSUME TypeOK, NEW p \in Processes, Return(p)
  PROVE  HandsType
<1> DEFINE l == IF p \in SingleFile THEN "exited" ELSE "subscribe"
<1>1. l \in Labels /\ l \notin {"commit", "consumer", "create", "write"}
  BY DEF Labels
<1>2. Goto(p, l, None)
  BY DEF Return
<1> HIDE DEF l
<1> QED BY <1>1, <1>2, GotoType

LEMMA FateType ==
  ASSUME TypeOK, NEW r, NEW f \in Fates, Becomes(r, f)
  PROVE  fate' \in [Runs -> Fates]
  BY DEF TypeOK, Becomes

LEMMA FaultType == ASSUME TypeOK, Fault \/ faults' = faults PROVE faults' \in 0..MaxFaults
  BY PoolAssumption DEF TypeOK, Fault

LEMMA CommitType ==
  ASSUME TypeOK, NEW r \in Messages, CommitOffset(r)
  PROVE  committed' \in [PoolPartitions -> Nat \cup {-1}]
  BY MessageType DEF TypeOK, CommitOffset

LEMMA TypeStep == TypeOK /\ [Next]_vars => TypeOK'
<1> SUFFICES ASSUME TypeOK, [Next]_vars PROVE TypeOK'
  OBVIOUS
<1> USE DEF group
<1>1. CASE Rebalance
  <2>1. \A x \in PoolPartitions : ResetOffset(x) \in Nat
    BY <1>1 DEF TypeOK, ResetOffset
  <2> QED BY <1>1, <2>1 DEF Rebalance, TypeOK, Waiting, Busy
<1>2. ASSUME NEW x \in PoolPartitions, Publish(x) PROVE TypeOK'
  BY <1>2, PoolAssumption DEF Publish, TypeOK, Busy
<1>3. ASSUME NEW p \in Processes, Subscribe(p) PROVE TypeOK'
  <2>1. CASE Goto(p, "poll", None) /\ faults' = faults
    <3>1. "poll" \in Labels
      BY DEF Labels
    <3>2. HandsType
      BY <2>1, <3>1, GotoType
    <3> QED BY <1>3, <2>1, <3>2 DEF Subscribe, TypeOK, HandsType
  <2>2. CASE Return(p) /\ Fault
    <3>1. HandsType /\ faults' \in 0..MaxFaults
      BY <2>2, ReturnType, FaultType
    <3> QED BY <1>3, <3>1 DEF Subscribe, TypeOK, HandsType
  <2> QED BY <1>3, <2>1, <2>2 DEF Subscribe
<1>4. ASSUME NEW p \in Processes, NEW x \in PoolPartitions, Poll(p, x) PROVE TypeOK'
  <2>1. <<x, next[x] + 1>> \in Messages
    <3>1. next[x] \in Nat /\ published[x] \in Nat /\ next[x] < published[x]
          /\ published[x] <= Len(Pool[x]) /\ Len(Pool[x]) \in Nat
      BY <1>4, PoolAssumption DEF Poll, TypeOK
    <3>2. next[x] + 1 \in Nat /\ next[x] + 1 >= 1 /\ next[x] + 1 <= Len(Pool[x])
      BY <3>1
    <3> QED BY <3>2, MessageExists
  <2>2. <<x, next[x] + 1>> # None /\ "commit" \in Labels
    BY <2>1, MessageType DEF Labels
  <2>3. next' \in [PoolPartitions -> Nat]
    BY <1>4 DEF Poll, TypeOK
  <2>4. HandsType
    BY <1>4, <2>1, <2>2, GotoType DEF Poll
  <2> QED BY <1>4, <2>3, <2>4 DEF Poll, TypeOK, HandsType
<1>5. ASSUME NEW p \in Processes, CommitThenIgnore(p) PROVE TypeOK'
  <2>1. got[p] \in Messages /\ "poll" \in Labels
    BY <1>5, InHand DEF CommitThenIgnore, Labels
  <2>2. HandsType /\ committed' \in [PoolPartitions -> Nat \cup {-1}]
    BY <1>5, <2>1, CommitType, GotoType DEF CommitThenIgnore
  <2> QED BY <1>5, <2>2 DEF CommitThenIgnore, TypeOK, HandsType
<1>6. ASSUME NEW p \in Processes, CommitThenTake(p) PROVE TypeOK'
  <2>1. got[p] \in Messages /\ got[p] # None /\ "consumer" \in Labels /\ "taken" \in Fates
    BY <1>6, InHand DEF CommitThenTake, Labels, Fates
  <2>2. HandsType
    BY <1>6, <2>1, GotoType DEF CommitThenTake
  <2> QED BY <1>6, <2>1, <2>2, CommitType, LeaveType, FateType DEF CommitThenTake, TypeOK, HandsType
<1>7. ASSUME NEW p \in Processes, CommitThenRefuse(p) PROVE TypeOK'
  <2>1. got[p] \in Messages /\ "refused" \in Fates
    BY <1>7, InHand DEF CommitThenRefuse, Fates
  <2> QED BY <1>7, <2>1, CommitType, ReturnType, LeaveType, FateType
          DEF CommitThenRefuse, TypeOK, HandsType
<1>8. ASSUME NEW p \in Processes, CommitFails(p) PROVE TypeOK'
  BY <1>8, ReturnType, LeaveType, FaultType DEF CommitFails, TypeOK, HandsType
<1>9. ASSUME NEW p \in Processes, CommitUnanswered(p) PROVE TypeOK'
  <2>1. got[p] \in Messages /\ "lost" \in Fates
    BY <1>9, InHand DEF CommitUnanswered, Fates
  <2> QED BY <1>9, <2>1, CommitType, ReturnType, LeaveType, FateType, FaultType
          DEF CommitUnanswered, TypeOK, HandsType
<1>10. ASSUME NEW p \in Processes, TaskFails(p) PROVE TypeOK'
  <2>1. "failed" \in Fates
    BY DEF Fates
  <2> QED BY <1>10, <2>1, ReturnType, FateType, FaultType DEF TaskFails, TypeOK, HandsType
<1>11. ASSUME NEW p \in Processes, CreateDataConsumer(p) PROVE TypeOK'
  <2>1. /\ got[p] \in Messages /\ got[p] # None /\ "create" \in Labels
        /\ Msg(got[p]).kind = "start"
    BY <1>11, InHand DEF CreateDataConsumer, Labels, TypeOK, Busy
  <2>2. HandsType
    BY <1>11, <2>1, GotoType DEF CreateDataConsumer
  <2> QED BY <1>11, <2>2 DEF CreateDataConsumer, TypeOK, HandsType
<1>12. ASSUME NEW p \in Processes, CreateFile(p) PROVE TypeOK'
  <2>1. /\ got[p] \in Runs /\ got[p] \in Messages /\ got[p] # None /\ "write" \in Labels
        /\ Msg(got[p]).kind = "start"
    BY <1>12, InHand DEF CreateFile, Labels, TypeOK, Busy
  <2>2. CASE files[FileOf(got[p])] = None
    <3>1. HandsType
      BY <1>12, <2>1, <2>2, GotoType DEF CreateFile
    <3> QED BY <1>12, <2>1, <2>2, <3>1 DEF CreateFile, TypeOK, HandsType
  <2>3. CASE files[FileOf(got[p])] # None
    <3>1. "failed" \in Fates
      BY DEF Fates
    <3> QED BY <1>12, <2>3, <3>1, ReturnType, FateType DEF CreateFile, TypeOK, HandsType
  <2> QED BY <2>2, <2>3
<1>13. ASSUME NEW p \in Processes, EndTask(p) PROVE TypeOK'
  <2>1. {"written", "failed"} \subseteq Fates
    BY DEF Fates
  <2> QED BY <1>13, <2>1, ReturnType, FateType DEF EndTask, TypeOK, HandsType
<1>14. ASSUME NEW p \in Processes, Fence(p) PROVE TypeOK'
  BY <1>14, LeaveType, FaultType DEF Fence, TypeOK, Busy, Msg
<1>15. ASSUME NEW p \in Processes, Crash(p) PROVE TypeOK'
  <2>1. "subscribe" \in Labels /\ {"failed", "lost"} \subseteq Fates
    BY DEF Labels, Fates
  <2>2. committed' \in [PoolPartitions -> Nat \cup {-1}] /\ fate' \in [Runs -> Fates]
    BY <1>15, <2>1, InHand, CommitType, FateType DEF Crash, TypeOK
  <2>3. HandsType
    BY <1>15, <2>1, GotoType DEF Crash
  <2> QED BY <1>15, <2>2, <2>3, LeaveType, FaultType DEF Crash, TypeOK, HandsType
<1>16. CASE UNCHANGED vars
  BY <1>16 DEF vars, TypeOK, Busy, Msg
<1> QED BY <1>1, <1>2, <1>3, <1>4, <1>5, <1>6, <1>7, <1>8, <1>9, <1>10, <1>11, <1>12, <1>13,
           <1>14, <1>15, <1>16 DEF Next, WriteOneFile, Calls, WaitForRunStart

(***************************************************************************)
(* FileWriter keeps to its types, and a process beyond wait_for_run_start  *)
(* has the run start it was given (write_one_file).                        *)
(***************************************************************************)
THEOREM Types == Spec => []TypeOK
<1> QED BY TypeInit, TypeStep, PTL DEF Spec
-----------------------------------------------------------------------------
\* Nothing happens to the partitions that a process keeps, nor to what it has in hand.
Kept ==
  \A x \in PoolPartitions, p \in Processes :
    owner'[x] = p =>
      /\ owner[x] = p /\ committed'[x] = committed[x] /\ next'[x] = next[x]
      /\ (pc'[p] = "commit") = (pc[p] = "commit")
      /\ pc[p] = "commit" => got'[p] = got[p]

LEMMA KeptReading == ASSUME Reading, Kept PROVE Reading'
<1> SUFFICES ASSUME NEW x \in PoolPartitions, NEW p \in Processes, owner'[x] = p
             PROVE  At(x, p)'
  BY DEF Reading
<1>1. At(x, p)
  BY DEF Reading, Kept
<1>2. /\ committed'[x] = committed[x] /\ next'[x] = next[x]
      /\ (pc'[p] = "commit") = (pc[p] = "commit")
      /\ pc[p] = "commit" => got'[p] = got[p]
  BY DEF Kept
<1> QED BY <1>1, <1>2 DEF At, Resumes

\* One who leaves the group disturbs no other, even if it commits a message it owns.
LEMMA LeaveKept ==
  ASSUME TypeOK, NEW p \in Processes, Leave(p), NEW l, NEW r, Goto(p, l, r),
         \/ committed' = committed
         \/ pc[p] = "commit" /\ Owns(p) /\ CommitOffset(got[p])
  PROVE  Kept
<1> SUFFICES ASSUME NEW x \in PoolPartitions, NEW q \in Processes, owner'[x] = q
             PROVE  /\ owner[x] = q /\ committed'[x] = committed[x] /\ next'[x] = next[x]
                    /\ pc'[q] = pc[q] /\ got'[q] = got[q]
  BY DEF Kept
<1>1. owner[x] = q /\ q # p /\ next' = next
  BY PoolAssumption DEF Leave
<1>2. pc'[q] = pc[q] /\ got'[q] = got[q]
  BY <1>1 DEF Goto, TypeOK
<1>3. committed'[x] = committed[x]
  BY <1>1 DEF Owns, CommitOffset, TypeOK
<1> QED BY <1>1, <1>2, <1>3

\* A step of a process that has nothing to commit, before or after
LEMMA GotoKept ==
  ASSUME TypeOK, NEW p \in Processes, NEW l, NEW r, Goto(p, l, r),
         pc[p] # "commit", l # "commit", UNCHANGED <<committed, group>>
  PROVE  Kept
<1> SUFFICES ASSUME NEW q \in Processes
             PROVE  /\ (pc'[q] = "commit") = (pc[q] = "commit")
                    /\ pc[q] = "commit" => got'[q] = got[q]
  BY DEF Kept, group
<1> QED BY DEF Goto, TypeOK

LEMMA ReturnGoto ==
  ASSUME NEW p \in Processes, Return(p)
  PROVE  \E l \in {"exited", "subscribe"} : Goto(p, l, None)
  BY DEF Return

LEMMA ReadingStep == TypeOK /\ Reading /\ [Next]_vars => Reading'
<1> SUFFICES ASSUME TypeOK, Reading, [Next]_vars PROVE Reading'
  OBVIOUS
<1>1. CASE Rebalance
  <2> SUFFICES ASSUME NEW x \in PoolPartitions, NEW p \in Processes, owner'[x] = p
               PROVE  At(x, p)'
    BY DEF Reading
  <2>1. pc'[p] = "poll" /\ committed' = committed
    BY <1>1 DEF Rebalance, Waiting
  <2>2. next'[x] = IF committed[x] < 0 THEN ResetOffset(x) ELSE committed[x]
    BY <1>1 DEF Rebalance
  <2> QED BY <2>1, <2>2 DEF At, Resumes, ResetOffset
<1>2. ASSUME NEW x \in PoolPartitions, Publish(x) PROVE Reading'
  BY <1>2, KeptReading DEF Publish, Kept, group
<1>3. ASSUME NEW q \in Processes, NEW y \in PoolPartitions, Poll(q, y) PROVE Reading'
  <2> SUFFICES ASSUME NEW x \in PoolPartitions, NEW p \in Processes, owner'[x] = p
               PROVE  At(x, p)'
    BY DEF Reading
  <2>1. At(x, p) /\ owner[y] = q /\ committed' = committed /\ owner' = owner
    BY <1>3 DEF Poll, Reading
  <2>2. CASE p = q /\ x = y
    <3>1. /\ pc[p] # "commit" /\ pc'[p] = "commit" /\ next'[x] = next[x] + 1
          /\ got'[p] = <<x, next[x] + 1>> /\ next[x] \in Nat
      BY <1>3, <2>2 DEF Poll, Goto, TypeOK
    <3>2. got'[p][1] = x /\ got'[p][2] = next[x] + 1 /\ (next[x] + 1) - 1 = next[x]
      BY <3>1
    <3> QED BY <2>1, <3>1, <3>2 DEF At, Resumes
  <2>3. CASE p = q /\ x # y
    <3>1. /\ pc[p] # "commit" /\ next'[x] = next[x] /\ got'[p][1] = y
      BY <1>3, <2>3 DEF Poll, Goto, TypeOK
    <3> QED BY <2>1, <2>3, <3>1 DEF At, Resumes
  <2>4. CASE p # q
    <3>1. x # y
      BY <2>1, <2>4
    <3>2. pc'[p] = pc[p] /\ got'[p] = got[p] /\ next'[x] = next[x]
      BY <1>3, <2>4, <3>1 DEF Poll, Goto, TypeOK
    <3> QED BY <2>1, <3>2 DEF At, Resumes
  <2> QED BY <2>2, <2>3, <2>4
<1>4. ASSUME NEW q \in Processes, CommitThenIgnore(q) PROVE Reading'
  <2> SUFFICES ASSUME NEW x \in PoolPartitions, NEW p \in Processes, owner'[x] = p
               PROVE  At(x, p)'
    BY DEF Reading
  <2>1. At(x, p) /\ owner[got[q][1]] = q /\ next' = next /\ owner' = owner
    BY <1>4 DEF CommitThenIgnore, Owns, group, Reading
  <2>2. got[q] \in Messages /\ got[q][2] \in Nat /\ got[q][1] \in PoolPartitions
    BY <1>4, InHand, MessageType DEF CommitThenIgnore
  <2>3. CASE x = got[q][1]
    <3>1. p = q /\ committed'[x] = got[q][2] /\ pc[q] = "commit" /\ pc'[q] = "poll"
      BY <1>4, <2>1, <2>3 DEF CommitThenIgnore, CommitOffset, Goto, TypeOK
    <3> QED BY <2>1, <2>2, <2>3, <3>1 DEF At, Resumes
  <2>4. CASE x # got[q][1] /\ p = q
    <3>1. committed'[x] = committed[x] /\ pc'[q] = "poll"
      BY <1>4, <2>4 DEF CommitThenIgnore, CommitOffset, Goto, TypeOK
    <3> QED BY <2>1, <2>4, <3>1 DEF At, Resumes
  <2>5. CASE x # got[q][1] /\ p # q
    <3>1. committed'[x] = committed[x] /\ pc'[p] = pc[p] /\ got'[p] = got[p]
      BY <1>4, <2>5 DEF CommitThenIgnore, CommitOffset, Goto, TypeOK
    <3> QED BY <2>1, <3>1 DEF At, Resumes
  <2> QED BY <2>1, <2>3, <2>4, <2>5
<1>5. ASSUME NEW p \in Processes,
             CommitThenTake(p) \/ CommitThenRefuse(p) \/ CommitFails(p) \/ CommitUnanswered(p)
      PROVE  Reading'
  <2>1. \E l, r : Goto(p, l, r)
    BY <1>5 DEF CommitThenTake, CommitThenRefuse, CommitFails, CommitUnanswered, Return
  <2>2. /\ Leave(p)
        /\ committed' = committed \/ (pc[p] = "commit" /\ Owns(p) /\ CommitOffset(got[p]))
    BY <1>5 DEF CommitThenTake, CommitThenRefuse, CommitFails, CommitUnanswered
  <2> QED BY <2>1, <2>2, LeaveKept, KeptReading
<1>6. ASSUME NEW p \in Processes, Crash(p) PROVE Reading'
  <2>1. Goto(p, "subscribe", None) /\ Leave(p)
    BY <1>6 DEF Crash
  <2>2. committed' = committed \/ (pc[p] = "commit" /\ Owns(p) /\ CommitOffset(got[p]))
    BY <1>6 DEF Crash
  <2> QED BY <2>1, <2>2, LeaveKept, KeptReading
<1>7. ASSUME NEW p \in Processes,
             \/ Subscribe(p) \/ TaskFails(p) \/ CreateDataConsumer(p) \/ CreateFile(p)
             \/ EndTask(p)
      PROVE  Reading'
  <2>1. \E l \in {"poll", "exited", "subscribe", "create", "write"} : \E r : Goto(p, l, r)
    BY <1>7, ReturnGoto DEF Subscribe, TaskFails, CreateDataConsumer, CreateFile, EndTask
  <2>2. pc[p] # "commit" /\ UNCHANGED <<committed, group>>
    BY <1>7 DEF Subscribe, TaskFails, CreateDataConsumer, CreateFile, EndTask
  <2> QED BY <2>1, <2>2, GotoKept, KeptReading
<1>8. ASSUME NEW p \in Processes, Fence(p) PROVE Reading'
  <2>1. \A x \in PoolPartitions, q \in Processes : owner'[x] = q => owner[x] = q
    BY <1>8, PoolAssumption DEF Fence, Leave
  <2>2. UNCHANGED <<committed, next, pc, got>>
    BY <1>8 DEF Fence, Leave
  <2> QED BY <2>1, <2>2, KeptReading DEF Kept
<1>9. CASE UNCHANGED vars
  BY <1>9, KeptReading DEF vars, group, Kept
<1> QED BY <1>1, <1>2, <1>3, <1>4, <1>5, <1>6, <1>7, <1>8, <1>9
        DEF Next, WriteOneFile, Calls, WaitForRunStart
-----------------------------------------------------------------------------
(***************************************************************************)
(* The two ways in which the fate of a run changes: a process commits the  *)
(* message it owns, or it is done with the run that it took.               *)
(***************************************************************************)
Commits(p) ==
  /\ pc[p] = "commit" /\ Owns(p) /\ CommitOffset(got[p])
  /\ \/ got[p] \notin Runs /\ fate' = fate
     \/ \E f \in {"taken", "refused", "lost"} : Becomes(got[p], f)

Ends(p) ==
  /\ Busy(p) /\ committed' = committed
  /\ \E f \in {"written", "failed"} : Becomes(got[p], f) /\ (f = "written" => pc[p] = "write")

LEMMA FateStep ==
  ASSUME TypeOK, [Next]_vars
  PROVE  UNCHANGED <<committed, fate>> \/ \E p \in Processes : Commits(p) \/ Ends(p)
<1>1. CASE Rebalance \/ UNCHANGED vars
           \/ (\E x \in PoolPartitions : Publish(x)) \/ (\E p \in Processes : Fence(p))
  BY <1>1 DEF Rebalance, vars, Publish, Fence
<1>2. ASSUME NEW p \in Processes,
             \/ Subscribe(p) \/ (\E x \in PoolPartitions : Poll(p, x)) \/ CommitFails(p)
             \/ CreateDataConsumer(p)
      PROVE  UNCHANGED <<committed, fate>>
  BY <1>2 DEF Subscribe, Poll, CommitFails, CreateDataConsumer
<1>3. ASSUME NEW p \in Processes, CommitThenIgnore(p) PROVE Commits(p)
  BY <1>3, RunType DEF CommitThenIgnore, Commits
<1>4. ASSUME NEW p \in Processes,
             CommitThenTake(p) \/ CommitThenRefuse(p) \/ CommitUnanswered(p)
      PROVE  Commits(p)
  BY <1>4 DEF CommitThenTake, CommitThenRefuse, CommitUnanswered, Commits
<1>5. ASSUME NEW p \in Processes, TaskFails(p) \/ EndTask(p) PROVE Ends(p)
  BY <1>5 DEF TaskFails, EndTask, Ends, Busy
<1>6. ASSUME NEW p \in Processes, CreateFile(p) PROVE UNCHANGED <<committed, fate>> \/ Ends(p)
  BY <1>6 DEF CreateFile, Ends, Busy
<1>7. ASSUME NEW p \in Processes, Crash(p)
      PROVE  UNCHANGED <<committed, fate>> \/ Commits(p) \/ Ends(p)
  <2>1. CASE pc[p] \in {"consumer", "create", "write"}
             /\ Becomes(got[p], "failed") /\ UNCHANGED committed
    BY <2>1 DEF Ends, Busy
  <2>2. CASE pc[p] = "commit" /\ Owns(p) /\ CommitOffset(got[p]) /\ Becomes(got[p], "lost")
    BY <2>2 DEF Commits
  <2> QED BY <1>7, <2>1, <2>2 DEF Crash
<1> QED BY <1>1, <1>2, <1>3, <1>4, <1>5, <1>6, <1>7 DEF Next, WriteOneFile, Calls, WaitForRunStart

\* A message about to be committed by its owner is the first after the committed ones.
LEMMA CommitFacts ==
  ASSUME TypeOK, Reading, NEW p \in Processes, pc[p] = "commit", Owns(p)
  PROVE  /\ got[p] \in Messages /\ committed[got[p][1]] < got[p][2]
         /\ committed[got[p][1]] >= 0 => got[p][2] = committed[got[p][1]] + 1
         /\ Reset = "earliest" =>
              got[p][2] = IF committed[got[p][1]] < 0 THEN 1 ELSE committed[got[p][1]] + 1
<1>1. /\ got[p] \in Messages /\ got[p][1] \in PoolPartitions
      /\ got[p][2] \in Nat /\ got[p][2] >= 1
  BY InHand, MessageType
<1>2. Resumes(got[p][1], got[p][2] - 1)
  BY <1>1 DEF Reading, At, Owns
<1>3. committed[got[p][1]] \in Nat \cup {-1}
  BY <1>1 DEF TypeOK
<1> QED BY <1>1, <1>2, <1>3 DEF Resumes

LEMMA CommittedStep ==
  ASSUME TypeOK, Reading, TakenRunsCommitted, CommittedRunsTaken, OneProcessPerRun, [Next]_vars
  PROVE  TakenRunsCommitted' /\ CommittedRunsTaken'
<1>1. CASE UNCHANGED <<committed, fate>>
  BY <1>1 DEF TakenRunsCommitted, CommittedRunsTaken
<1>2. ASSUME NEW p \in Processes, Commits(p) PROVE TakenRunsCommitted' /\ CommittedRunsTaken'
  <2> DEFINE g == got[p]
  <2>1. /\ g \in Messages /\ committed[g[1]] < g[2]
        /\ Reset = "earliest" =>
             g[2] = IF committed[g[1]] < 0 THEN 1 ELSE committed[g[1]] + 1
    BY <1>2, CommitFacts DEF Commits
  <2>2. /\ g[1] \in PoolPartitions /\ g[2] \in Nat /\ g = <<g[1], g[2]>>
        /\ committed[g[1]] \in Nat \cup {-1}
    BY <2>1, MessageType DEF TypeOK
  <2>3. \A x \in PoolPartitions : committed'[x] = IF x = g[1] THEN g[2] ELSE committed[x]
    BY <1>2 DEF Commits, CommitOffset, TypeOK
  <2>4. \A r \in Runs : IF r = g THEN fate'[r] # "waiting" ELSE fate'[r] = fate[r]
    BY <1>2 DEF Commits, Becomes, TypeOK
  <2>5. ASSUME NEW r \in Runs
        PROVE  /\ r[1] \in PoolPartitions /\ r[2] \in Nat /\ r[2] >= 1 /\ r = <<r[1], r[2]>>
               /\ committed[r[1]] \in Nat \cup {-1}
    BY RunType, MessageType DEF TypeOK
  <2> HIDE DEF g
  <2>6. ASSUME NEW r \in Runs, fate'[r] # "waiting" PROVE r[2] <= committed'[r[1]]
    <3>1. CASE r = g
      BY <2>2, <2>3, <3>1
    <3>2. CASE r # g
      BY <2>1, <2>2, <2>3, <2>4, <2>5, <2>6, <3>2 DEF TakenRunsCommitted
    <3> QED BY <3>1, <3>2
  <2>7. ASSUME Reset = "earliest", NEW r \in Runs, r[2] <= committed'[r[1]]
        PROVE  fate'[r] # "waiting"
    <3>1. CASE r = g
      BY <2>4, <3>1
    <3>2. CASE r # g /\ r[1] = g[1]
      <4>1. r[2] # g[2] /\ r[2] <= g[2]
        BY <2>2, <2>3, <2>5, <2>7, <3>2
      <4>2. r[2] <= committed[r[1]]
        BY <2>1, <2>2, <2>5, <2>7, <3>2, <4>1
      <4> QED BY <2>4, <2>7, <3>2, <4>2 DEF CommittedRunsTaken
    <3>3. CASE r # g /\ r[1] # g[1]
      BY <2>3, <2>4, <2>5, <2>7, <3>3 DEF CommittedRunsTaken
    <3> QED BY <3>1, <3>2, <3>3
  <2> QED BY <2>6, <2>7 DEF TakenRunsCommitted, CommittedRunsTaken
<1>3. ASSUME NEW p \in Processes, Ends(p) PROVE TakenRunsCommitted' /\ CommittedRunsTaken'
  <2>1. got[p] \in Runs /\ fate[got[p]] = "taken" /\ committed' = committed
    BY <1>3, InHand DEF Ends, OneProcessPerRun
  <2>2. \A r \in Runs : (fate'[r] # "waiting") <=> (fate[r] # "waiting")
    BY <1>3, <2>1 DEF Ends, Becomes, TypeOK
  <2> QED BY <2>1, <2>2 DEF TakenRunsCommitted, CommittedRunsTaken
<1> QED BY <1>1, <1>2, <1>3, FateStep

(***************************************************************************)
(* The offset that is committed moves by one message once there is one, so *)
(* that of the runs after one that was taken the next to be committed is   *)
(* the only one that has neither been committed nor taken.                 *)
(***************************************************************************)
LEMMA PassedStep ==
  ASSUME TypeOK, Reading, TakenRunsCommitted, NoRunPassedOver, OneProcessPerRun, [Next]_vars
  PROVE  NoRunPassedOver'
<1>1. CASE UNCHANGED <<committed, fate>>
  BY <1>1 DEF NoRunPassedOver
<1>2. ASSUME NEW p \in Processes, Commits(p) PROVE NoRunPassedOver'
  <2> DEFINE g == got[p]
  <2>1. /\ g \in Messages /\ committed[g[1]] < g[2]
        /\ committed[g[1]] >= 0 => g[2] = committed[g[1]] + 1
    BY <1>2, CommitFacts DEF Commits
  <2>2. /\ g[1] \in PoolPartitions /\ g[2] \in Nat /\ g = <<g[1], g[2]>>
        /\ committed[g[1]] \in Nat \cup {-1}
    BY <2>1, MessageType DEF TypeOK
  <2>3. \A x \in PoolPartitions : committed'[x] = IF x = g[1] THEN g[2] ELSE committed[x]
    BY <1>2 DEF Commits, CommitOffset, TypeOK
  <2>4. \A r \in Runs : IF r = g THEN fate'[r] # "waiting" ELSE fate'[r] = fate[r]
    BY <1>2 DEF Commits, Becomes, TypeOK
  <2>5. ASSUME NEW r \in Runs
        PROVE  /\ r[1] \in PoolPartitions /\ r[2] \in Nat /\ r[2] >= 1 /\ r = <<r[1], r[2]>>
               /\ committed[r[1]] \in Nat \cup {-1}
    BY RunType, MessageType DEF TypeOK
  <2> HIDE DEF g
  <2> SUFFICES ASSUME NEW r \in Runs, NEW s \in Runs, Before(r, s), fate'[r] # "waiting",
                      s[2] <= committed'[s[1]], s # g
               PROVE  fate[s] # "waiting"
    BY <2>4 DEF NoRunPassedOver, Before
  <2>6. r[1] = s[1] /\ r[2] < s[2]
    BY DEF Before
  <2>7. CASE s[1] # g[1]
    <3>1. r # g /\ fate[r] # "waiting" /\ s[2] <= committed[s[1]]
      BY <2>3, <2>4, <2>5, <2>6, <2>7
    <3> QED BY <3>1 DEF NoRunPassedOver
  <2>8. CASE s[1] = g[1]
    <3>1. s[2] < g[2]
      BY <2>2, <2>3, <2>5, <2>8
    <3>2. r # g
      BY <2>2, <2>5, <2>6, <3>1
    <3>3. fate[r] # "waiting"
      BY <2>4, <3>2
    <3>4. r[2] <= committed[g[1]]
      BY <2>6, <2>8, <3>3 DEF TakenRunsCommitted
    <3>5. s[2] <= committed[s[1]]
      BY <2>1, <2>2, <2>5, <2>8, <3>1, <3>4
    <3> QED BY <3>3, <3>5 DEF NoRunPassedOver
  <2> QED BY <2>7, <2>8
<1>3. ASSUME NEW p \in Processes, Ends(p) PROVE NoRunPassedOver'
  <2>1. got[p] \in Runs /\ fate[got[p]] = "taken" /\ committed' = committed
    BY <1>3, InHand DEF Ends, OneProcessPerRun
  <2>2. \A r \in Runs : (fate'[r] # "waiting") <=> (fate[r] # "waiting")
    BY <1>3, <2>1 DEF Ends, Becomes, TypeOK
  <2> QED BY <2>1, <2>2 DEF NoRunPassedOver
<1> QED BY <1>1, <1>2, <1>3, FateStep
-----------------------------------------------------------------------------
(***************************************************************************)
(* Only one process moves, and it is busy afterwards only with what it was *)
(* busy with or with a run that it has just taken.                         *)
(***************************************************************************)
LEMMA OneMoves ==
  ASSUME TypeOK, OneProcessPerRun, NEW p \in Processes,
         \A q \in Processes : q # p => pc'[q] = pc[q] /\ got'[q] = got[q],
         \A r \in Runs : \/ fate'[r] = fate[r] \/ fate[r] # "taken"
                         \/ Busy(p) /\ r = got[p],
         Busy(p)' => /\ fate'[got'[p]] = "taken"
                     /\ (Busy(p) /\ got'[p] = got[p]) \/ fate[got'[p]] # "taken"
  PROVE  OneProcessPerRun'
<1>1. ASSUME NEW q \in Processes, q # p, Busy(q)'
      PROVE  /\ Busy(q) /\ got'[q] = got[q] /\ got[q] \in Runs /\ fate[got[q]] = "taken"
             /\ (Busy(p) => got[p] # got[q])
             /\ fate'[got'[q]] = "taken"
  <2>1. Busy(q) /\ got'[q] = got[q]
    BY <1>1 DEF Busy
  <2>2. got[q] \in Runs /\ fate[got[q]] = "taken" /\ (Busy(p) => got[p] # got[q])
    BY <1>1, <2>1, InHand DEF OneProcessPerRun
  <2> QED BY <2>1, <2>2
<1>2. ASSUME NEW q \in Processes, q # p, Busy(q)', Busy(p)' PROVE got'[p] # got'[q]
  BY <1>1, <1>2
<1>3. ASSUME NEW a \in Processes, NEW b \in Processes, a # b, Busy(a)', Busy(b)'
      PROVE  got'[a] # got'[b]
  <2>1. CASE a = p \/ b = p
    BY <1>2, <1>3, <2>1
  <2>2. CASE a # p /\ b # p
    <3>1. Busy(a) /\ Busy(b) /\ got'[a] = got[a] /\ got'[b] = got[b]
      BY <1>1, <1>3, <2>2
    <3> QED BY <1>3, <3>1 DEF OneProcessPerRun
  <2> QED BY <2>1, <2>2
<1>4. \A q \in Processes : Busy(q)' => fate'[got'[q]] = "taken"
  BY <1>1
<1> QED BY <1>3, <1>4 DEF OneProcessPerRun

\* A process that is not busy afterwards, and changed no fate but of what it had in hand
LEMMA OneLeaves ==
  ASSUME TypeOK, OneProcessPerRun, NEW p \in Processes, NEW l, NEW r, Goto(p, l, r),
         l \notin {"consumer", "create", "write"},
         fate' = fate \/ Ends(p) \/ (pc[p] = "commit" /\ fate[got[p]] # "taken"
                                     /\ \E f : Becomes(got[p], f))
  PROVE  OneProcessPerRun'
<1>1. pc'[p] = l /\ \A q \in Processes : q # p => pc'[q] = pc[q] /\ got'[q] = got[q]
  BY DEF Goto, TypeOK
<1>2. ~Busy(p)'
  BY <1>1 DEF Busy
<1>3. ASSUME NEW s \in Runs
      PROVE  fate'[s] = fate[s] \/ fate[s] # "taken" \/ (Busy(p) /\ s = got[p])
  BY DEF Ends, Becomes, TypeOK
<1> QED BY <1>1, <1>2, <1>3, OneMoves

\* A run in the hands of a process that is about to commit it has not been taken.
LEMMA CommitNew ==
  ASSUME TypeOK, Reading, TakenRunsCommitted,
         NEW p \in Processes, pc[p] = "commit", Owns(p), got[p] \in Runs
  PROVE  fate[got[p]] = "waiting"
<1>1. committed[got[p][1]] < got[p][2] /\ got[p] \in Messages
  BY CommitFacts
<1>2. committed[got[p][1]] \in Nat \cup {-1} /\ got[p][2] \in Nat
  BY <1>1, MessageType DEF TypeOK
<1> QED BY <1>1, <1>2 DEF TakenRunsCommitted

LEMMA OneProcessStep ==
  ASSUME TypeOK, Reading, TakenRunsCommitted, OneProcessPerRun, [Next]_vars
  PROVE  OneProcessPerRun'
<1>1. CASE Rebalance \/ UNCHANGED vars
           \/ (\E x \in PoolPartitions : Publish(x)) \/ (\E p \in Processes : Fence(p))
  <2>1. UNCHANGED <<pc, got, fate>>
    BY <1>1 DEF Rebalance, vars, Publish, Fence
  <2> QED BY <2>1 DEF OneProcessPerRun, Busy
<1>2. ASSUME NEW p \in Processes,
             \/ Subscribe(p) \/ (\E x \in PoolPartitions : Poll(p, x)) \/ CommitThenIgnore(p)
             \/ CommitFails(p)
      PROVE  OneProcessPerRun'
  <2>1. fate' = fate /\ \E l \in {"poll", "commit", "exited", "subscribe"} : \E r : Goto(p, l, r)
    BY <1>2, ReturnGoto DEF Subscribe, Poll, CommitThenIgnore, CommitFails
  <2> QED BY <2>1, OneLeaves
<1>3. ASSUME NEW p \in Processes, CommitThenRefuse(p) \/ CommitUnanswered(p)
      PROVE  OneProcessPerRun'
  <2>1. pc[p] = "commit" /\ Owns(p) /\ \E l \in {"exited", "subscribe"} : Goto(p, l, None)
    BY <1>3, ReturnGoto DEF CommitThenRefuse, CommitUnanswered
  <2>2. fate' = fate \/ (fate[got[p]] # "taken" /\ \E f : Becomes(got[p], f))
    BY <1>3, <2>1, CommitNew DEF CommitThenRefuse, CommitUnanswered, Becomes
  <2> QED BY <2>1, <2>2, OneLeaves
<1>4. ASSUME NEW p \in Processes, CommitThenTake(p) PROVE OneProcessPerRun'
  <2>1. got[p] \in Runs
    BY <1>4, InHand DEF CommitThenTake, Runs
  <2>2. fate[got[p]] = "waiting"
    BY <1>4, <2>1, CommitNew DEF CommitThenTake
  <2>3. fate' = [fate EXCEPT ![got[p]] = "taken"] /\ Goto(p, "consumer", got[p])
    BY <1>4, <2>1 DEF CommitThenTake, Becomes
  <2>4. got'[p] = got[p] /\ \A q \in Processes : q # p => pc'[q] = pc[q] /\ got'[q] = got[q]
    BY <2>3 DEF Goto, TypeOK
  <2>5. fate'[got[p]] = "taken" /\ \A r \in Runs : r # got[p] => fate'[r] = fate[r]
    BY <2>1, <2>3 DEF TypeOK
  <2> QED BY <2>2, <2>4, <2>5, OneMoves
<1>5. ASSUME NEW p \in Processes, NEW l, Goto(p, l, got[p]), Busy(p), fate' = fate
      PROVE  OneProcessPerRun'
  <2>1. got'[p] = got[p] /\ \A q \in Processes : q # p => pc'[q] = pc[q] /\ got'[q] = got[q]
    BY <1>5 DEF Goto, TypeOK
  <2>2. fate'[got'[p]] = "taken"
    BY <1>5, <2>1 DEF OneProcessPerRun
  <2> QED BY <1>5, <2>1, <2>2, OneMoves
<1>6. ASSUME NEW p \in Processes, TaskFails(p) \/ EndTask(p) PROVE OneProcessPerRun'
  <2>1. Ends(p) /\ \E l \in {"exited", "subscribe"} : Goto(p, l, None)
    BY <1>6, ReturnGoto DEF TaskFails, EndTask, Ends, Busy
  <2> QED BY <2>1, OneLeaves
<1>7. ASSUME NEW p \in Processes, CreateDataConsumer(p) PROVE OneProcessPerRun'
  BY <1>5, <1>7 DEF CreateDataConsumer, Busy
<1>8. ASSUME NEW p \in Processes, CreateFile(p) PROVE OneProcessPerRun'
  <2>1. CASE files[FileOf(got[p])] = None
    BY <1>5, <1>8, <2>1 DEF CreateFile, Busy
  <2>2. CASE files[FileOf(got[p])] # None
    <3>1. Ends(p) /\ \E l \in {"exited", "subscribe"} : Goto(p, l, None)
      BY <1>8, <2>2, ReturnGoto DEF CreateFile, Ends, Busy
    <3> QED BY <3>1, OneLeaves
  <2> QED BY <2>1, <2>2
<1>9. ASSUME NEW p \in Processes, Crash(p) PROVE OneProcessPerRun'
  <2>1. CASE pc[p] \in {"consumer", "create", "write"}
             /\ Becomes(got[p], "failed") /\ UNCHANGED committed
    <3>1. Ends(p)
      BY <2>1 DEF Ends, Busy
    <3> QED BY <1>9, <3>1, OneLeaves DEF Crash
  <2>2. CASE pc[p] = "commit" /\ Owns(p) /\ CommitOffset(got[p]) /\ Becomes(got[p], "lost")
    <3>1. fate' = fate \/ (fate[got[p]] # "taken" /\ \E f : Becomes(got[p], f))
      BY <2>2, CommitNew DEF Becomes
    <3> QED BY <1>9, <2>2, <3>1, OneLeaves DEF Crash
  <2>3. CASE UNCHANGED fate
    BY <1>9, <2>3, OneLeaves DEF Crash
  <2> QED BY <1>9, <2>1, <2>2, <2>3 DEF Crash
<1> QED BY <1>1, <1>2, <1>3, <1>4, <1>6, <1>7, <1>8, <1>9
        DEF Next, WriteOneFile, Calls, WaitForRunStart
-----------------------------------------------------------------------------
\* A step that neither makes nor truncates a file, and begins no write
Filed(p) == files' = files /\ \E l \in Labels \ {"write"} : \E r : Goto(p, l, r)

\* The step in which a file comes to be, which was none before
Creates(p) ==
  /\ files[FileOf(got[p])] = None /\ pc[p] = "create"
  /\ files' = [files EXCEPT ![FileOf(got[p])] = got[p]]
  /\ Goto(p, "write", got[p]) /\ fate' = fate

LEMMA FilesStep ==
  ASSUME [Next]_vars
  PROVE  UNCHANGED <<files, pc, got>> \/ \E p \in Processes : Filed(p) \/ Creates(p)
<1> USE DEF Labels
<1>1. CASE Rebalance \/ UNCHANGED vars
           \/ (\E x \in PoolPartitions : Publish(x)) \/ (\E p \in Processes : Fence(p))
  BY <1>1 DEF Rebalance, vars, Publish, Fence
<1>2. ASSUME NEW p \in Processes,
             \/ Subscribe(p) \/ (\E x \in PoolPartitions : Poll(p, x)) \/ CommitThenIgnore(p)
      PROVE  Filed(p)
  BY <1>2, ReturnGoto DEF Subscribe, Poll, CommitThenIgnore, Filed
<1>3. ASSUME NEW p \in Processes,
             CommitThenTake(p) \/ CommitThenRefuse(p) \/ CommitFails(p) \/ CommitUnanswered(p)
      PROVE  Filed(p)
  BY <1>3, ReturnGoto
     DEF CommitThenTake, CommitThenRefuse, CommitFails, CommitUnanswered, Filed
<1>4. ASSUME NEW p \in Processes,
             TaskFails(p) \/ CreateDataConsumer(p) \/ EndTask(p) \/ Crash(p)
      PROVE  Filed(p)
  BY <1>4, ReturnGoto DEF TaskFails, CreateDataConsumer, EndTask, Crash, Filed
<1>5. ASSUME NEW p \in Processes, CreateFile(p) PROVE Filed(p) \/ Creates(p)
  BY <1>5, ReturnGoto DEF CreateFile, Filed, Creates
<1> QED BY <1>1, <1>2, <1>3, <1>4, <1>5 DEF Next, WriteOneFile, Calls, WaitForRunStart

\* No file changes hands.
LEMMA FileKept ==
  ASSUME TypeOK, [Next]_vars, NEW f \in Filenames, files[f] # None
  PROVE  files'[f] = files[f]
<1>1. ASSUME NEW p \in Processes, Creates(p) PROVE files'[f] = files[f]
  BY <1>1 DEF Creates, TypeOK
<1> QED BY <1>1, FilesStep DEF Filed

LEMMA OwnFileStep == ASSUME TypeOK, OwnFile, [Next]_vars PROVE OwnFile'
<1> SUFFICES ASSUME NEW q \in Processes, pc'[q] = "write"
             PROVE  files'[FileOf(got'[q])] = got'[q]
  BY DEF OwnFile, FileOf, Msg
<1>1. ASSUME pc[q] = "write", got'[q] = got[q] PROVE files'[FileOf(got'[q])] = got'[q]
  <2>1. got[q] \in Messages /\ got[q] # None /\ FileOf(got[q]) \in Filenames
    BY <1>1, InHand, MessageType DEF Busy
  <2> QED BY <1>1, <2>1, FileKept DEF OwnFile
<1>2. CASE UNCHANGED <<files, pc, got>>
  BY <1>1, <1>2
<1>3. ASSUME NEW p \in Processes, Filed(p) PROVE pc[q] = "write" /\ got'[q] = got[q]
  BY <1>3 DEF Filed, Goto, TypeOK
<1>4. ASSUME NEW p \in Processes, Creates(p) PROVE files'[FileOf(got'[q])] = got'[q]
  <2>1. CASE p = q
    <3>1. got[q] \in Messages /\ FileOf(got[q]) \in Filenames
      BY <1>4, <2>1, InHand, MessageType DEF Busy, Creates
    <3>2. got'[q] = got[q]
      BY <1>4, <2>1 DEF Creates, Goto, TypeOK
    <3> QED BY <1>4, <2>1, <3>1, <3>2 DEF Creates, TypeOK
  <2>2. CASE p # q
    <3>1. pc[q] = "write" /\ got'[q] = got[q]
      BY <1>4, <2>2 DEF Creates, Goto, TypeOK
    <3> QED BY <1>1, <3>1
  <2> QED BY <2>1, <2>2
<1> QED BY <1>1, <1>2, <1>3, <1>4, FilesStep

LEMMA FileOfRunStep ==
  ASSUME TypeOK, OwnFile, FileIsOfItsRun, [Next]_vars
  PROVE  FileIsOfItsRun'
<1> SUFFICES ASSUME NEW r \in Runs, fate'[r] = "written"
             PROVE  files'[FileOf(r)] = r
  BY DEF FileIsOfItsRun, FileOf, Msg
<1>1. r # None /\ FileOf(r) \in Filenames
  BY RunType, MessageType
<1>2. files[FileOf(r)] = r
  <2>1. CASE fate[r] = "written"
    BY <2>1 DEF FileIsOfItsRun
  <2>2. CASE fate[r] # "written"
    <3>1. PICK p \in Processes : Commits(p) \/ Ends(p)
      BY <2>2, FateStep
    <3>2. r = got[p] /\ pc[p] = "write"
      BY <2>2, <3>1 DEF Commits, Ends, Becomes, TypeOK
    <3> QED BY <3>2 DEF OwnFile
  <2> QED BY <2>1, <2>2
<1> QED BY <1>1, <1>2, FileKept
-----------------------------------------------------------------------------
LEMMA InvInit == Init => Inv
<1> SUFFICES ASSUME Init PROVE Inv
  OBVIOUS
<1>1. TypeOK
  BY TypeInit
<1>2. Reading
  BY PoolAssumption DEF Init, Reading
<1>3. TakenRunsCommitted
  BY DEF Init, TakenRunsCommitted
<1>4. CommittedRunsTaken
  <2> SUFFICES ASSUME NEW r \in Runs PROVE ~(r[2] <= committed[r[1]])
    BY DEF CommittedRunsTaken
  <2>1. r[1] \in PoolPartitions /\ r[2] \in Nat
    BY RunType, MessageType
  <2> QED BY <2>1 DEF Init
<1>5. OneProcessPerRun /\ OwnFile /\ NoRunPassedOver
  BY DEF Init, OneProcessPerRun, OwnFile, Busy, NoRunPassedOver
<1>6. FileIsOfItsRun
  BY DEF Init, FileIsOfItsRun
<1> QED BY <1>1, <1>2, <1>3, <1>4, <1>5, <1>6 DEF Inv

LEMMA InvStep == Inv /\ [Next]_vars => Inv'
<1> SUFFICES ASSUME Inv, [Next]_vars PROVE Inv'
  OBVIOUS
<1>1. TypeOK' /\ Reading'
  BY TypeStep, ReadingStep DEF Inv
<1>2. TakenRunsCommitted' /\ CommittedRunsTaken' /\ OneProcessPerRun'
  BY CommittedStep, OneProcessStep DEF Inv
<1>4. NoRunPassedOver'
  BY PassedStep DEF Inv
<1>3. OwnFile' /\ FileIsOfItsRun'
  BY OwnFileStep, FileOfRunStep DEF Inv
<1> QED BY <1>1, <1>2, <1>3, <1>4 DEF Inv

LEMMA Invariance == Spec => []Inv
<1> QED BY InvInit, InvStep, PTL DEF Spec

(***************************************************************************)
(* The commit of wait_for_run_start comes before the run is taken, however *)
(* many processes share the group and whenever it is rebalanced.           *)
(***************************************************************************)
THEOREM TakenCommitted == Spec => []TakenRunsCommitted
<1>1. Inv => TakenRunsCommitted
  BY DEF Inv
<1> QED BY <1>1, Invariance, PTL

(***************************************************************************)
(* With auto.offset.reset=earliest no commit of wait_for_run_start passes  *)
(* over a run that nobody took.                                            *)
(***************************************************************************)
THEOREM CommittedTaken == Spec => []CommittedRunsTaken
<1>1. Inv => CommittedRunsTaken
  BY DEF Inv
<1> QED BY <1>1, Invariance, PTL

(***************************************************************************)
(* Nor does any commit after the first run that the group has taken from a *)
(* partition, whatever auto.offset.reset is (KafkaStream::commit_message). *)
(***************************************************************************)
THEOREM PassedOver == Spec => []NoRunPassedOver
<1>1. Inv => NoRunPassedOver
  BY DEF Inv
<1> QED BY <1>1, Invariance, PTL

(***************************************************************************)
(* Between wait_for_run_start and the end of write_one_file, no other      *)
(* process has the same run.                                               *)
(***************************************************************************)
THEOREM OneProcess == Spec => []OneProcessPerRun
<1>1. Inv => OneProcessPerRun
  BY DEF Inv
<1> QED BY <1>1, Invariance, PTL

(***************************************************************************)
(* File::create_excl keeps what a run has written from every other run, in *)
(* whichever process.                                                      *)
(***************************************************************************)
THEOREM FilesKept == Spec => []FileIsOfItsRun
<1>1. Inv => FileIsOfItsRun
  BY DEF Inv
<1> QED BY <1>1, Invariance, PTL
-----------------------------------------------------------------------------
LEMMA PoolStep == Inv /\ [Next]_vars => [Promise!Next]_fate
<1> SUFFICES ASSUME Inv, [Next]_vars PROVE [Promise!Next]_fate
  OBVIOUS
<1>1. CASE fate' = fate
  BY <1>1
<1>2. ASSUME NEW p \in Processes, Commits(p), fate' # fate PROVE Promise!Next
  <2>1. PICK f \in {"taken", "refused", "lost"} : got[p] \in Runs /\ Becomes(got[p], f)
    BY <1>2 DEF Commits, Becomes
  <2>2. fate[got[p]] = "waiting"
    BY <1>2, <2>1, CommitNew DEF Commits, Inv
  <2>3. Promise!Take(got[p]) \/ Promise!Drop(got[p])
    BY <2>1, <2>2 DEF Becomes, Promise!Take, Promise!Drop, Promise!Becomes
  <2> QED BY <2>1, <2>3 DEF Promise!Next
<1>3. ASSUME NEW p \in Processes, Ends(p) PROVE Promise!Next
  <2>1. got[p] \in Runs /\ fate[got[p]] = "taken"
    BY <1>3, InHand DEF Ends, Inv, OneProcessPerRun
  <2>2. Promise!End(got[p])
    BY <1>3, <2>1 DEF Ends, Becomes, Promise!End, Promise!Becomes
  <2> QED BY <2>1, <2>2 DEF Promise!Next
<1> QED BY <1>1, <1>2, <1>3, FateStep DEF Inv

(***************************************************************************)
(* The processes together keep the promise of RunPool: a commit takes or   *)
(* drops a waiting run, a task's end ends a taken one, and all else is a   *)
(* stutter.                                                                *)
(***************************************************************************)
THEOREM Implements == Spec => IsRunPool
<1>1. Init => Promise!Init
  BY DEF Init, Promise!Init
<1>2. Inv /\ [Next]_vars => [Promise!Next]_fate
  BY PoolStep
<1> QED BY <1>1, <1>2, Invariance, PTL DEF Spec, IsRunPool, Promise!Spec
=============================================================================
