----------------------------- MODULE FileWriter ----------------------------
(***************************************************************************)
(* Several file-writer processes on one job-pool topic: write_files and    *)
(* write_one_file (src/file_writer.rs) around wait_for_run_start           *)
(* (src/run_writer/job_pool.rs).  The job-pool consumers share a group.id, *)
(* so that Kafka gives each partition of the topic to one process of those *)
(* that are subscribed.  Writing the file is here a step that ends well or *)
(* badly, or never; WriteTask says how.                                    *)
(*                                                                         *)
(* Offsets are committed by commit_message only: this takes for granted    *)
(* enable.auto.commit=false in the configuration of the job-pool consumer, *)
(* as in config.example.toml; librdkafka's own default is true.            *)
(*                                                                         *)
(* A run is a message of the pool, <<partition, number>>, counted from 1,  *)
(* so that committing message i commits i: what is read next has i before  *)
(* it.                                                                     *)
(***************************************************************************)
EXTENDS Integers, Sequences

CONSTANTS
  Processes,
  PoolPartitions,
  Pool,           \* per partition, the messages it holds and will hold: [kind, filename]
  Filenames,
  Reset,          \* auto.offset.reset of the job-pool consumer: earliest or latest
  SingleFile,     \* the processes with config.exit_after_writing_one_file
  MaxFaults,      \* bound on crashes, fencings and calls that fail
  None

Kinds == {"start", "incomplete", "other"}

ASSUME PoolAssumption ==
  /\ Pool \in [PoolPartitions -> Seq([kind : Kinds, filename : Filenames])]
  /\ Reset \in {"earliest", "latest"} /\ SingleFile \subseteq Processes /\ MaxFaults \in Nat
  /\ None \notin Processes \cup (PoolPartitions \X Nat)

VARIABLES
  published,   \* how much of each partition the brokers have
  committed,   \* the group's committed offset per partition, -1 before the first commit
  joined,      \* the members of the group's current generation
  owner,       \* which of them reads a partition, None while it is not assigned
  next,        \* how many messages lie before the one its owner reads next
  pc,          \* per process, the call it makes next
  got,         \* per process, the message or the run it is busy with, or None
  files,       \* per name, the run that created the file, None while there is none
  fate,        \* per run, what has become of it (history)
  faults

group == <<joined, owner, next>>
vars  == <<published, committed, group, pc, got, files, fate, faults>>

Messages == UNION {{x} \X (1..Len(Pool[x])) : x \in PoolPartitions}
Msg(r)   == Pool[r[1]][r[2]]
Runs     == {r \in Messages : Msg(r).kind # "other"}

Init ==
  /\ published \in [PoolPartitions -> {0}] /\ committed = [x \in PoolPartitions |-> -1]
  /\ joined = {} /\ owner = [x \in PoolPartitions |-> None]
  /\ next = [x \in PoolPartitions |-> 0]
  /\ pc = [p \in Processes |-> "subscribe"] /\ got = [p \in Processes |-> None]
  /\ files = [f \in Filenames |-> None] /\ fate = [r \in Runs |-> "waiting"] /\ faults = 0

-----------------------------------------------------------------------------
(***************************************************************************)
(* The broker's side: the log, the group and its committed offsets.        *)
(***************************************************************************)
Publish(x) ==
  /\ published[x] < Len(Pool[x])
  /\ published' = [published EXCEPT ![x] = @ + 1]
  /\ UNCHANGED <<committed, group, pc, got, files, fate, faults>>

Fault == faults < MaxFaults /\ faults' = faults + 1

\* A process is out of the group; nobody reads what it read until the next rebalance.
Leave(p) ==
  /\ joined' = joined \ {p}
  /\ owner' = [x \in PoolPartitions |-> IF owner[x] = p THEN None ELSE owner[x]]
  /\ next' = next

\* Slip: the consumer is kept, and its subscription with it, while the file is written
StaySubscribed(p) == UNCHANGED group

Unsubscribe(p) == Leave(p)

Waiting == {p \in Processes : pc[p] = "poll"}

ResetOffset(x) == IF Reset = "earliest" THEN 0 ELSE published[x]

\* Slip: without a group.id of their own the offsets are forgotten
RebalanceAnew ==
  /\ Waiting # {} /\ (Waiting # joined \/ \E x \in PoolPartitions : owner[x] = None)
  /\ \A x \in PoolPartitions : owner[x] \in Waiting \cup {None}
  /\ joined' = Waiting /\ owner' \in [PoolPartitions -> Waiting]
  /\ next' = [x \in PoolPartitions |-> ResetOffset(x)]
  /\ UNCHANGED <<published, committed, pc, got, files, fate, faults>>

\* Someone joined or left, and whoever has partitions is back at poll(), where it rejoins.
Rebalance ==
  /\ Waiting # {} /\ (Waiting # joined \/ \E x \in PoolPartitions : owner[x] = None)
  /\ \A x \in PoolPartitions : owner[x] \in Waiting \cup {None}
  /\ joined' = Waiting /\ owner' \in [PoolPartitions -> Waiting]
  /\ next' = [x \in PoolPartitions |-> IF committed[x] < 0 THEN ResetOffset(x) ELSE committed[x]]
  /\ UNCHANGED <<published, committed, pc, got, files, fate, faults>>

\* The session of a member times out, in the middle of whatever it is doing.
Fence(p) ==
  /\ p \in joined /\ Fault /\ Leave(p)
  /\ UNCHANGED <<published, committed, pc, got, files, fate>>

-----------------------------------------------------------------------------
Goto(p, label, r) == pc' = [pc EXCEPT ![p] = label] /\ got' = [got EXCEPT ![p] = r]

Becomes(r, f) == fate' = IF r \in Runs THEN [fate EXCEPT ![r] = f] ELSE fate

\* Slip: an error leaves the loop of write_files, as `?` would
ReturnForGood(p) == Goto(p, "exited", None)

\* write_one_file returns; write_files returns with it or goes on to the next file
Return(p) == Goto(p, IF p \in SingleFile THEN "exited" ELSE "subscribe", None)

\* The consumer is created and subscribed
Subscribe(p) ==
  /\ pc[p] = "subscribe"
  /\ \/ Goto(p, "poll", None) /\ faults' = faults
     \/ Return(p) /\ Fault
  /\ UNCHANGED <<published, committed, group, files, fate>>

Poll(p, x) ==
  /\ pc[p] = "poll" /\ owner[x] = p /\ next[x] < published[x]
  /\ next' = [next EXCEPT ![x] = @ + 1]
  /\ Goto(p, "commit", <<x, next[x] + 1>>)
  /\ UNCHANGED <<published, committed, joined, owner, files, fate, faults>>

Owns(p) == owner[got[p][1]] = p

\* Slips: the offset of the message for that of the next one, and one too many
CommitOwnOffset(r)  == committed' = [committed EXCEPT ![r[1]] = r[2] - 1]
CommitPastOffset(r) == committed' = [committed EXCEPT ![r[1]] = r[2] + 1]

CommitOffset(r) == committed' = [committed EXCEPT ![r[1]] = r[2]]

(***************************************************************************)
(* commit_message succeeds, and the loop goes on or returns.  On the way   *)
(* out with_subscription_to_job_pool unsubscribes.                         *)
(***************************************************************************)
CommitThenIgnore(p) ==
  /\ pc[p] = "commit" /\ Owns(p) /\ Msg(got[p]).kind = "other"
  /\ CommitOffset(got[p]) /\ Goto(p, "poll", None)
  /\ UNCHANGED <<published, group, files, fate, faults>>

\* Slips: the commit is left for when the file is written; no field is required
TakeThenCommit(p) ==
  /\ pc[p] = "commit" /\ Owns(p) /\ Msg(got[p]).kind = "start"
  /\ Goto(p, "consumer", got[p]) /\ Unsubscribe(p) /\ Becomes(got[p], "taken")
  /\ UNCHANGED <<published, committed, files, faults>>

CommitThenTakeAny(p) ==
  /\ pc[p] = "commit" /\ Owns(p) /\ got[p] \in Runs
  /\ CommitOffset(got[p]) /\ Goto(p, "consumer", got[p]) /\ Unsubscribe(p)
  /\ Becomes(got[p], "taken")
  /\ UNCHANGED <<published, files, faults>>

CommitThenTake(p) ==
  /\ pc[p] = "commit" /\ Owns(p) /\ Msg(got[p]).kind = "start"
  /\ CommitOffset(got[p]) /\ Goto(p, "consumer", got[p]) /\ Unsubscribe(p)
  /\ Becomes(got[p], "taken")
  /\ UNCHANGED <<published, files, faults>>

\* from_pl72 finds a field missing
CommitThenRefuse(p) ==
  /\ pc[p] = "commit" /\ Owns(p) /\ Msg(got[p]).kind = "incomplete"
  /\ CommitOffset(got[p]) /\ Return(p) /\ Unsubscribe(p)
  /\ Becomes(got[p], "refused")
  /\ UNCHANGED <<published, files, faults>>

\* Slip: a commit that fails is only logged
CommitErrorIgnored(p) ==
  /\ pc[p] = "commit" /\ Msg(got[p]).kind = "start"
  /\ Goto(p, "consumer", got[p]) /\ Unsubscribe(p) /\ Becomes(got[p], "taken")
  /\ (~Owns(p) /\ faults' = faults) \/ Fault
  /\ UNCHANGED <<published, committed, files>>

\* The broker refuses a commit of one who was fenced, and may fail for others.
CommitFails(p) ==
  /\ pc[p] = "commit" /\ Return(p) /\ Unsubscribe(p)
  /\ (~Owns(p) /\ faults' = faults) \/ Fault
  /\ UNCHANGED <<published, committed, files, fate>>

\* The commit took effect, but its answer does not arrive.
CommitUnanswered(p) ==
  /\ pc[p] = "commit" /\ Owns(p) /\ Fault
  /\ CommitOffset(got[p]) /\ Return(p) /\ Unsubscribe(p)
  /\ Becomes(got[p], "lost")
  /\ UNCHANGED <<published, files>>

WaitForRunStart(p) ==
  \/ \E x \in PoolPartitions : Poll(p, x)
  \/ CommitThenIgnore(p) \/ CommitThenTake(p) \/ CommitThenRefuse(p)
  \/ CommitFails(p) \/ CommitUnanswered(p)

-----------------------------------------------------------------------------
FileOf(r) == Msg(r).filename

\* write_data_for_run ends with an error before it makes a file, or something before it does
TaskFails(p) ==
  /\ pc[p] \in {"consumer", "create"} /\ Fault
  /\ Return(p) /\ Becomes(got[p], "failed")
  /\ UNCHANGED <<published, committed, group, files>>

CreateDataConsumer(p) ==
  /\ pc[p] = "consumer" /\ Goto(p, "create", got[p])
  /\ UNCHANGED <<published, committed, group, files, fate, faults>>

\* Slip: File::create, which truncates
CreateFileAnew(p) ==
  /\ pc[p] = "create"
  /\ files' = [files EXCEPT ![FileOf(got[p])] = got[p]]
  /\ Goto(p, "write", got[p])
  /\ UNCHANGED <<published, committed, group, fate, faults>>

\* File::create_excl, in a directory that the processes may share
CreateFile(p) ==
  /\ pc[p] = "create"
  /\ IF files[FileOf(got[p])] = None
     THEN /\ files' = [files EXCEPT ![FileOf(got[p])] = got[p]]
          /\ Goto(p, "write", got[p]) /\ fate' = fate
     ELSE Return(p) /\ Becomes(got[p], "failed") /\ files' = files
  /\ UNCHANGED <<published, committed, group, faults>>

\* write_data_for_run returns, if it does
EndTask(p) ==
  /\ pc[p] = "write" /\ Return(p)
  /\ \E f \in {"written", "failed"} : Becomes(got[p], f)
  /\ UNCHANGED <<published, committed, group, files, faults>>

\* The calls of write_one_file but for the rest of the task
Calls(p) ==
  Subscribe(p) \/ WaitForRunStart(p) \/ TaskFails(p) \/ CreateDataConsumer(p) \/ CreateFile(p)

WriteOneFile(p) == Calls(p) \/ EndTask(p)

(***************************************************************************)
(* A process dies and is started again.  A commit that it had sent may yet *)
(* take effect; the file that it was writing stays as it is.               *)
(***************************************************************************)
Crash(p) ==
  /\ pc[p] # "exited" /\ Fault
  /\ Goto(p, "subscribe", None) /\ Leave(p)
  /\ \/ pc[p] \in {"consumer", "create", "write"}
        /\ Becomes(got[p], "failed") /\ UNCHANGED committed
     \/ pc[p] = "commit" /\ Owns(p) /\ CommitOffset(got[p]) /\ Becomes(got[p], "lost")
     \/ pc[p] \in {"subscribe", "poll", "commit"} /\ UNCHANGED <<committed, fate>>
  /\ UNCHANGED <<published, files>>

Next ==
  \/ Rebalance \/ \E x \in PoolPartitions : Publish(x)
  \/ \E p \in Processes : WriteOneFile(p) \/ Fence(p) \/ Crash(p)

Spec == Init /\ [][Next]_vars

(***************************************************************************)
(* A process is one thread; at a poll it gets a message if it has one, and *)
(* its other calls return.  The write task may not: nothing bounds its     *)
(* loop (WriteTask), so EndTask is not fair.  The producers write and the  *)
(* group balances.  Nor are faults fair, and there are at most MaxFaults.  *)
(***************************************************************************)
FairSpec ==
  /\ Spec /\ WF_vars(Rebalance)
  /\ \A x \in PoolPartitions : WF_vars(Publish(x))
  /\ \A p \in Processes : WF_vars(Calls(p))

-----------------------------------------------------------------------------
Fates  == {"waiting", "taken", "written", "failed", "refused", "lost"}
Labels == {"subscribe", "poll", "commit", "consumer", "create", "write", "exited"}
Busy(p) == pc[p] \in {"consumer", "create", "write"}

\* The types, and when a process has a message: a start, once it has taken a run.
TypeOK ==
  /\ published \in [PoolPartitions -> Nat] /\ committed \in [PoolPartitions -> Nat \cup {-1}]
  /\ joined \subseteq Processes /\ owner \in [PoolPartitions -> Processes \cup {None}]
  /\ next \in [PoolPartitions -> Nat] /\ pc \in [Processes -> Labels]
  /\ got \in [Processes -> Messages \cup {None}] /\ files \in [Filenames -> Runs \cup {None}]
  /\ fate \in [Runs -> Fates] /\ faults \in 0..MaxFaults
  /\ \A x \in PoolPartitions : published[x] <= Len(Pool[x])
  /\ \A p \in Processes :
       /\ (got[p] # None) = (pc[p] = "commit" \/ Busy(p))
       /\ Busy(p) => Msg(got[p]).kind = "start"

(***************************************************************************)
(* wait_for_run_start commits a message before it looks at it, so that the *)
(* group is never behind what was taken, and no rebalance, fencing, failed *)
(* commit or restart makes a process read a taken run again.               *)
(***************************************************************************)
TakenRunsCommitted ==
  \A r \in Runs : fate[r] # "waiting" => r[2] <= committed[r[1]]

(***************************************************************************)
(* Nor is the group ever ahead: with auto.offset.reset=earliest, of what   *)
(* lies before the committed offset every run was taken or refused, unless *)
(* it was lost in a commit of which the process did not hear.              *)
(***************************************************************************)
CommittedRunsTaken ==
  Reset = "earliest" => \A r \in Runs : r[2] <= committed[r[1]] => fate[r] # "waiting"

(***************************************************************************)
(* At no time do two processes work on the same run, and the one that does *)
(* is the one that took it: nothing has become of the run in the meantime. *)
(***************************************************************************)
OneProcessPerRun ==
  /\ \A p, q \in Processes : p # q /\ Busy(p) /\ Busy(q) => got[p] # got[q]
  /\ \A p \in Processes : Busy(p) => fate[got[p]] = "taken"

(***************************************************************************)
(* The file a run has written is still its own: a later run of the same    *)
(* name, on any process, fails and leaves it alone.                        *)
(***************************************************************************)
FileIsOfItsRun == \A r \in Runs : fate[r] = "written" => files[FileOf(r)] = r

Before(r, s) == r[1] = s[1] /\ r[2] < s[2]

(***************************************************************************)
(* Whatever auto.offset.reset is, it skips only what lies before the first *)
(* run start that the group takes from a partition: from that one on, no   *)
(* commit passes over a run that nobody took or refused.                   *)
(***************************************************************************)
NoRunPassedOver ==
  \A r, s \in Runs :
    Before(r, s) /\ fate[r] # "waiting" /\ s[2] <= committed[s[1]] => fate[s] # "waiting"

Promise == INSTANCE RunPool

(***************************************************************************)
(* Whatever the order of polls, commits, rebalances and crashes, a run is  *)
(* taken at most once and what has become of it is final.                  *)
(***************************************************************************)
IsRunPool == Promise!Spec

\* Some process is not kept for good by a task that never ends.
SomeProcessReturns == \E p \in Processes : []<>(pc[p] # "write")

(***************************************************************************)
(* No run start waits for ever (auto.offset.reset=earliest), though other  *)
(* processes hang in a task for good, as long as one does not: the         *)
(* partition of a process that is busy, hangs, was fenced or died goes to  *)
(* another, and one whose run failed or was refused is back for the next.  *)
(***************************************************************************)
EveryRunTaken == SomeProcessReturns => \A r \in Runs : <>(fate[r] # "waiting")

(***************************************************************************)
(* With either auto.offset.reset, once a partition has had a run taken     *)
(* from it, no later run of it waits for ever, on the same condition.      *)
(***************************************************************************)
LaterRunsTaken ==
  SomeProcessReturns =>
    \A r, s \in Runs : Before(r, s) => (fate[r] # "waiting" ~> fate[s] # "waiting")
=============================================================================
