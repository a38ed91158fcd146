# Verification of kafka_file_writer

`kafka_file_writer` is the ISIS file writer. It waits on a Kafka *job pool* topic for a run
start (`pl72`), takes the run, creates an HDF5/NeXus file shaped by the run start's
`nexus_structure`, reads the data topics from some time before the start of the run, hands each
message to the *writer modules* that subscribed to it, and closes the file when a run stop
(`6s4t`) was read and every module says that it has finished.

This directory holds TLA+ models of it, TLC configurations that check them on small instances,
and TLAPS proofs, for instances of any size, of every safety property and every refinement that
the passing runs check. Paths below are relative to the crate's `src/`.

## 1. The system

| Component | State it keeps | Operations | What makes it correct |
|---|---|---|---|
| File writer and job pool: `file_writer.rs`, `run_writer/job_pool.rs`, `stream/scope.rs`, `bin/kafka_file_writer.rs` | none of its own between two files; the consumer group's membership and committed offsets live in Kafka, the files in a directory that processes may share | `write_files`, `write_one_file`, `wait_for_run_start`, subscribe, commit, unsubscribe | A run is taken at most once by any process, no run start is skipped, an error leads back to the pool, no file is overwritten |
| Write task of a run: `run_writer/single_file_write_task.rs`, `hdf/scope.rs`, `hdf/file_creator.rs`, `stream/scope.rs` | the call that comes next, the open file, the assignment of the data consumer | `write_data_for_run`, `handle_messages_until_run_stop`, `with_nexus_file`, `with_assignment` | The file holds the events of the run, whole and once; the first error is the one returned; the task ends; the file is closed and the consumer unassigned on every path |
| In-progress file: `run_writer/in_progress_file.rs`, `placed_writer.rs` | `writers`, `router`, `run_stop_received` | `new` (`use_structure`, `add_child`, `add_placed_writer`), `on_message`, `on_run_stop`, `finished` | Ids in the router and indices of writers agree; a stop reaches every writer before the run counts as stopped |
| Message router: `run_writer/message_router.rs`, `subscription.rs` | two levels of hash maps, topic to key to writer ids | `subscribe`, `topics`, `writers_for` | A message goes to the writers that subscribed to it and to no other |
| Writer modules: `writer_module.rs`, `writer_modules/nxevent_data.rs`, `ixseblock.rs` | `run_start_time_ms`, `run_stop_time_ms`, `latest_message_time_ms`, three datasets | `on_message`, `on_run_stop`, `finished` | Columns stay aligned; what is in the run is written, what is not is not; `finished` is true when everything was received |
| Kafka stream: `stream/kafka.rs` | the consumer (librdkafka) | `assign_from_timestamp`, `unassign`, `poll`, `subscribe`, `unsubscribe`, `commit_message` | Every stream is replayed from the seek timestamp |
| NeXus structure: `nexus_structure.rs`, `writer_module_factories.rs`, the recursion of `in_progress_file.rs`, `hdf/attr.rs`, `bin/structure_verify.rs` | the registry of factories; the stack of the recursion; groups, datasets and attributes in the file | deserialization, `register_module`, `use_structure`, `add_child`, `add_nexus_group`, `add_root_dataset_attributes`, `create`, `init` | The file can be built exactly if the document, the registry and the path say so; it holds the structure and nothing else; every event writer has datasets of its own |
| Run start parameters: `run_start_parameters.rs` | the fields of the run start | `from_pl72`, `structure`, `control_topic` | An incomplete run start is refused, once |
| Configuration, error types, `stream/fake.rs` | none that steers the program | – | not modelled, see section 8 |

How they interact: `FileWriter` calls the job pool, which blocks on the job-pool consumer; then it
creates a data consumer and a `SingleFileWriteTask`, which calls the in-progress file once per
message; that asks the router for ids and calls the placed writers one after the other. Inside a
process everything is one thread, so what is concurrent is: the processes of the pool with each
other and with Kafka's group coordinator; the task with the producers of its topics; the
partitions of a topic with one another, since `poll()` merges them in any order; and
librdkafka's fetcher with the calls that configure it.

What is hard, and which the models therefore keep: the order of messages of different partitions;
run stops that come early, late, twice or for another job; calls that fail after earlier calls of
the same operation took effect (four HDF5 calls per `ev44` message, a loop over writers, a loop
over subscriptions); two errors of which one is reported; a job-pool partition that changes hands
while its message is in flight; a commit whose answer is lost; a process that dies and comes
back; a file name asked for twice; names in the file that clash, attributes that come in another
order on each run, and a build that breaks off in the middle of the tree. `PROJECT.json` lists
these as hazards, each at its line, with the properties that cover it.

## 2. The modules

    StreamTypes
      MessageRouter, WriterModules     extend StreamTypes
        InProgressFile                 extends both
          WriteTask                    extends InProgressFile, implements EventFile and RunFate
        NexusStructure                 extends both, implements the build of InProgressFile
    FileWriter                         implements RunPool; its write task is RunFate

**StreamTypes** – a Kafka message: the metadata of `stream/traits.rs` and, of the payload, only
what the program looks at. FlatBuffers decoding is the field `schema`: `empty` (no payload),
`garbage` (does not decode), `stop`, `pu00`, `ev44`, `other`. The vectors of an `ev44` message are
their lengths. `id` tells messages apart, so that a property can say where a row came from.

**MessageRouter** – `Subscribe` and `WritersFor` on the two levels of maps, with
`entry().or_default()` spelled out as the read (`Entry`) and the write-back (`Insert`), because
this is where a subscription could be lost. `Matches` is the promise of `subscription.rs`.

**WriterModules** – `NXevent_data`, `IXseblock`, and a `plugin` that stands for any other
implementation of the `WriterModule` trait: it accepts a message or fails, and says that it has
finished or not as it likes (`WriterFinished` and `WriterUnfinished` are both possible). `FromPl72`
is what `from_pl72` does to the times: a stop time of 0 in a run start is `Forever`. An operation that
can fail part-way is the *set of its outcomes*. A dataset is the sequence of its cells; `Resize`
makes cells that hold `Fill` and `WriteSlice` fills them, so that the state after each failing
HDF5 call is visible. `InvalidData` is turned into success by `PlacedWriter::on_message`, and is
an `Ok` outcome that changes nothing here too.

**InProgressFile** – the fields of the struct, and `phase`, `msg`, `todo`, `specs`, `adding`,
`subscribed`, which say where the loops stand: each iteration of the loop over subscriptions
(`SubscribeWriter`) and over writers (`NotifyWriter`, `StopWriter`) is a step of its own. The
tree of the `nexus_structure` is the list of modules in the order in which `add_child` visits
them; unknown modules, bad configurations and HDF5 errors on the way are `PlacementFails`.

**NexusStructure** – the same build, seen from the document. A document is its objects, numbered
in the order of the text, with the fields and values that deserialization tells apart; `last[n]`
is the last object that is inside object `n`, so that the first child of `n` is `n + 1` and the
one after child `m` is `last[m] + 1`. `Parses`, `IsGroup`, `IsWriterModule` are serde's
`deny_unknown_fields`, `untagged` and `tag`. One step is one call of `register_module` (`Register`,
until `ParseStructure` takes over) or one HDF5 call, which succeeds only if the name is free and
the value encodes; otherwise `Refuse` ends the build and leaves the file as it is. An attribute is two
calls, `create` and `write_scalar`: when the second fails (`AttributeFails`) the build ends with a
name in the file that has no value. `stack` is the
recursion of `add_child` and `add_nexus_group`, a frame per open group; `making` is the factory
that is at work. A group of the file is named by the handle that `create_group` returned, which
is the number of the object it was made for, the root being 0. `AddAttribute` takes the
attributes in any order, as a `HashMap` does. What the document means is said without walking it:
`Reached` are its items, `Parent` the group an item is in, `Modules`, `Rank` and `Specs` the list
of writer modules, `ObjectsOf` and `AttributesOf` what an item puts into the file, and
`Instantiable` whether all of it can be put there. `File` is `InProgressFile` with the list that
`Specs` gives: the walk implements that module's `Build`, so that what is proved of
`InProgressFile` for every list of modules is about trees too.

**WriteTask** – `write_data_for_run` around an `InProgressFile`: `stage` is the call that comes
next. A partition is a log, of which the brokers have the first `published`; the others are
appended while the task runs. `OffsetForTime` is `offsets_for_times`, evaluated on what is there
at that moment, with `Offset::End` if nothing is late enough; `ResolveEnd` is the later moment at
which the fetcher asks where the end is. `offsets_for_times` also reports errors of single
partitions, which `assign` is given unchecked: such a partition (`missed`) is read from its end,
whatever it holds. A topic without partitions is one the brokers do not
know (`Known`), for which `partitions_for` is an error. `handled` is history: the messages that
`handle_one_message` was given. The three calls within `assign_from_timestamp` are one step:
only the brokers could move between them, and a message published between the look-up and
`assign` behaves as one published after it.

**FileWriter** – several processes, each at the call `pc`, on a job pool of several partitions.
`joined`, `owner` and `next` are the consumer group; `Rebalance` hands out the partitions anew
when every owner is back at `poll()`, `Fence` takes one out in the middle of anything it does,
`Crash` ends and restarts a process. Kafka refuses the commit of one that is no longer the owner
(`Owns`). Writing a file is `CreateDataConsumer`, `CreateFile` (`create_excl`) and `EndTask`.
A process that has a run, or has failed to take one, unsubscribes first (`Unsubscribe`).
`fate` is history: what has become of each run. Offsets move by `commit_message` alone, for which the
configuration of the job-pool consumer must hold `enable.auto.commit=false`, as
`config.example.toml` does: the code does not set it, and librdkafka's default is `true`.

**EventFile**, **RunPool** – what the two halves promise to their users, in a page together.
*EventFile*: writers are placed in an open file while it holds no event; then each takes the
events of a message, all of them or none, at most once and in the order of its partition, and
nothing changes after the file is closed. `WriteTask` maps to it the rows on which both columns
agree (`Visible`). *RunPool*: a run is taken at most once, only a
taken run is written, and what has become of a run is final; it may be refused (incomplete run
start) or lost (a commit whose answer did not arrive).

**RunFate** – the write task as `FileWriter` takes it: `CreateFile` and `EndTask` allow a task
to make its file once, to end well only after that, and to end badly with or without a file; what
has ended begins no more. `WriteTask` implements it (`TaskKeepsFate`). This is how the two are
composed: what the pool takes for granted of a task is what a task does. That a task ends at all
is *not* taken for granted, see Fairness.

**MCInProgressFile**, **MCNexusStructure**, **MCWriteTask**, **MCFileWriter** – the small
instances.

The proofs, each module extending those it builds on:

    MessageRouterProofs                lemmas on the two levels of maps
      InProgressFileProofs             types, routing, columns, run stops
        DeliveryProofs                 what is in the lists of writers, counted
        WriteTaskProofs                the task, its outcome, the events it has written
          EventFileProofs              the task implements EventFile; also on DeliveryProofs
      NexusProofs                      the walk of the document, and what the file holds
        BuildProofs                    the walk implements the build of InProgressFile
    FileWriterProofs                   the pool

A definition whose comment begins with `Slip:` is not part of any specification. It is a
plausible mistake in the definition it precedes, by which each property is shown to be able to
fail: put in its place, it makes TLC find the property violated (`mutants` in `PROJECT.json`).

## 3. The runs

| Run | Instance | Properties | Distinct states |
|---|---|---|---|
| `file` | up to three writers on two topics with keyed and all-key subscriptions, five structures; any three of 15 messages | `FileTypeOK`, `RoutedAsSubscribed`, `OncePerSubscription`, `WriterAlwaysFound`, `ColumnsAligned`, `StopTimeAgreed`, `StopRecordedLast` | 18184 |
| `nexus` | every document of up to two items of 13 kinds or three of 5 kinds, however nested; the example `isis.json`; three documents that do not parse; two registries, a path that is ASCII or not, HDF5 faults | `NexusTypeOK`, `BuiltIffInstantiable`, `HoldsTheStructure`, `OwnDatasets`, `BuildsFile` | 54712 |
| `task` | four partitions (two of one topic), six histories, three structures, five run starts, all calls may fail | `TaskTypeOK`, `ResultIsFirstOutcome`, `TopicsAssigned`, `ReceivedEventsRecorded`, `CompleteWhenInOrder`, `IsEventFile`, `TaskKeepsFate` | 109757 |
| `task_ends` | a topic of one partition in order, with producers still writing; no faults | `TaskEnds` | 1855 |
| `pool` | two processes, one with `exit_after_writing_one_file`, two partitions, five messages, two file names, two faults | `TypeOK`, `TakenRunsCommitted`, `CommittedRunsTaken`, `OneProcessPerRun`, `FileIsOfItsRun`, `IsRunPool` | 79127 |
| `pool_ends` | two processes that go on for ever or hang in a task, one fault | `EveryRunTaken` | 30090 |
| `pool_latest` | the same with `auto.offset.reset=latest`, and three job-pool messages in a row on one partition | `NoRunPassedOver`, `LaterRunsTaken` | 25680 |
| `after_run`, `missing`, `never_finished`, `skips` | one event writer and one short history each | one sentence of a comment, which does not hold: section 5 | – |

What the properties say:

* `RoutedAsSubscribed` – at every point of the build and after it, the router's answer for every
  topic and key is the set of writers whose registered subscriptions match. `WriterAlwaysFound` –
  the `WriterModuleNotFound` branch is dead code. `OncePerSubscription` – a writer is handed a
  message once for each of its subscriptions that match: one that has subscribed to a key and to
  all keys is in both lists and writes the rows twice, and nothing is lost or multiplied beyond
  that.
* `BuiltIffInstantiable` – whether a file can be built is decided by the document, the registry
  (two modules of one name: the later one counts) and the path alone, never by the order of a
  `HashMap`; `HoldsTheStructure` – it then holds all that the document says, each in its group,
  and after a failure nothing besides, where an attribute may be a name without a value.
  `OwnDatasets` – two event writers never append to one dataset, since the second cannot be made;
  `InProgressFile` rests on this. `BuildsFile` – the walk places the writers in document order, from
  whatever depth, and the file is ready only when all are placed.
* `NexusTypeOK`, `TaskTypeOK` – besides the types: each open group was made in the group of the frame
  below it; the file is open from `create_excl` until it is closed, on every path.
* `ColumnsAligned` – while no call has failed, the two event columns hold the same rows of the
  same messages and no cell is unwritten, whatever malformed messages came in between.
* `StopTimeAgreed`, `StopRecordedLast` – a run stop reaches *all* writers, not those the router
  would send it to, and the run counts as stopped only when the last has it.
* `ResultIsFirstOutcome` – `Ok` only after a stop, with all writers finished, the file closed and
  the consumer unassigned; otherwise the first error, whatever the cleaning up then does.
* `ReceivedEventsRecorded` – between two messages, of those received every event that belongs to
  the run by *every* stop time told so far is in the file, and nothing is in it that *no* stop
  time admits. Of an event between two stop times nothing is claimed: a writer drops it or keeps it
  by the stop time it had when the event came.
* `CompleteWhenInOrder` – `finished()` is safe for a topic with one partition in strict order of
  time whose place was known at the assignment: what is left unread by then is later than the stop.
  It is checked on `mon`, with several messages of the run, later and earlier ones, stops in
  between, and producers that still write. `missing` and `skips` show what happens otherwise.
* `TopicsAssigned` – a task that polls reads every partition of every topic a writer subscribed to,
  and of the control topic; a topic that is missing is an error, not a wait for ever.
* `IsEventFile` – with every failure allowed, a reader who takes the rows that both columns agree
  on and that are not fill sees whole messages, each once, in the order of their partition; a
  message whose second column could not be written is not seen at all. HDF5 fills the cells that
  were not written with 0, which the models tell apart from data and a reader of the file cannot:
  after a failure the property speaks of the cells that were written.
* `TakenRunsCommitted`, `CommittedRunsTaken` – the group's offset is never behind a run that was
  taken, and never ahead of one that was not. `OneProcessPerRun`, `FileIsOfItsRun`, `IsRunPool` –
  see the modules. `TaskKeepsFate` – `RunFate`, above.
* `EveryRunTaken` – no run start waits for ever, though other processes hang in a task for good, as
  long as some process comes back from its tasks (`SomeProcessReturns`).
* `NoRunPassedOver`, `LaterRunsTaken` – librdkafka's default `auto.offset.reset` is `latest`, by
  which a partition with no committed offset is read from its end, anew at each rebalance. Run
  starts are passed over in this way only before the first that the group takes from a
  partition: from then on every one of that partition is taken, refused or lost in a commit, on the
  condition of `EveryRunTaken`.

### Bounds

`MaxMessages = 3` (messages a file is handed): a property of a file relates at most a message, a
stop before it and one after; the columns are disturbed by one failed or malformed message
between two good ones. Three writers with at most two subscriptions: two writers on one key
list, one on both lists, and one on neither. Logs of at most three messages per partition: two
suffice for a message overtaken by a later one, the third is what is left unread, or what lies
before the seek timestamp. Times are
0..6, with `SeekBack = 1`, `MaxTimestamp = 6` (`i64::MAX`), so that run starts 0, 2 and 8 are
before the seek-back, in the middle and past the conversion; of the stop times in run starts, 0 is
one; `Forever = 9` (`u64::MAX`) is later
than everything. `MaxFaults` (2 for safety, 1 for liveness) bounds crashes, fencings, failed
commits and failed tasks together: two allow a process that was fenced to crash, or a lost
commit to be followed by a fencing of the process that has the partition next. Two processes are
enough for a partition to change hands; that more change nothing is what the proofs say.
The pool of `pool_latest` has three messages on one partition so that runs lie before, at and
after the first commit. In `nexus`, two items suffice for two names to clash and for one to be in
the other, and the third is a sibling that comes after a group was left; the 13 kinds are the
ways an item can be a group, a module or neither, with attributes that encode, do not, or are no
strings. The control topic `gone` has no partition. Symmetry is not used: the instances are
small, and the pool's partitions differ.

`CHECK_DEADLOCK FALSE` is in every configuration since these systems do stop: a task that is
done, a file that is built or has been handed its messages, a pool of which every run was taken
while no process is left.

### Fairness

`FairTaskSpec`: the task's thread takes its next step or polls, and `poll()` returns a message
of *some* partition if any has one (weak fairness of the disjunction, not of each partition:
librdkafka promises no more). Each producer writes its log, and the fetcher gets its answers.
`TaskEnds` is claimed with `Faults = FALSE` only because a fault ends the task sooner.

`FairSpec` of `FileWriter`: the coordinator balances the group, producers write, and each process
makes its next call (`Calls`). The end of a task, `EndTask`, is not among them:
`handle_messages_until_run_stop` has no timeout and may poll for ever, as `never_finished` shows, and
`TaskEnds` holds only under conditions on the partitions. What `EveryRunTaken` and `LaterRunsTaken`
need instead is their premise, `SomeProcessReturns`: there is one process that is again and again
not in a task. Faults are not fair and are bounded by `MaxFaults`; without a bound,
processes that crash for ever take nothing.

## 4. What is proved

For every value of the constants that satisfies the named assumptions, each of which TLC
evaluates in the runs:

* `NoneAssumption`, `AllAssumption`, `WriterAssumption`, `ErrorAssumption` (special values differ
  from ordinary ones) and `StructureAssumption` (structures and run starts have their types) for
  `InProgressFileProofs` and `DeliveryProofs`;
* these, `TaskAssumption` (a log holds messages of its topic, numbered, and the brokers have a part
  of it) and `ResultAssumption` for `WriteTaskProofs`, and `SubscriptionAssumption` for
  `EventFileProofs`: an event writer has one subscription, as `NXeventdata::create` gives it;
* `DocumentAssumption` (a document is a tree, numbered in the order of its text),
  `RegistryAssumption` and `OptionAssumption` (`None` is not a value) for `NexusProofs` and
  `BuildProofs`;
* `PoolAssumption` for `FileWriterProofs`.

| Theorem | Statement |
|---|---|
| `FileTypes`, `Routing`, `WritersFound` | `FileSpec => []FileTypeOK`, `[]RoutedAsSubscribed`, `[]WriterAlwaysFound` |
| `Columns` | `FileSpec => []ColumnsAligned` |
| `StopTimesAgree`, `StopRecorded` | `FileSpec => []StopTimeAgreed`, `StopRecordedLast` |
| `Deliver` | `FileSpec => []OncePerSubscription` |
| `TaskIsFile` | `TaskSpec => FileSpec`: the file of a task is an `InProgressFile` |
| `TaskTypes`, `FirstOutcome`, `AllTopicsAssigned` | `TaskSpec => []TaskTypeOK`, `[]ResultIsFirstOutcome`, `[]TopicsAssigned` |
| `EventsRecorded`, `Complete` | `TaskSpec => []ReceivedEventsRecorded`, `[]CompleteWhenInOrder` |
| `KeepsEvents` | `TaskSpec => IsEventFile`: `WriteTask` implements `EventFile` |
| `NexusTypes`, `Verdict` | `NexusSpec => []NexusTypeOK`, `[]BuiltIffInstantiable` |
| `Contents`, `DatasetsAreOwn` | `NexusSpec => []HoldsTheStructure`, `[]OwnDatasets` |
| `WalkBuildsFile` | `NexusSpec => BuildsFile`: the walk implements the build of `InProgressFile` |
| `KeepsFate` | `TaskSpec => TaskKeepsFate`: `WriteTask` implements `RunFate` |
| `Types`, `TakenCommitted`, `CommittedTaken`, `OneProcess`, `FilesKept` | `Spec => []TypeOK`, `[]TakenRunsCommitted`, `[]CommittedRunsTaken`, `[]OneProcessPerRun`, `[]FileIsOfItsRun` |
| `PassedOver` | `Spec => []NoRunPassedOver`, whatever `auto.offset.reset` is |
| `Implements` | `Spec => IsRunPool`: `FileWriter` implements `RunPool` |

**InProgressFileProofs.** Three inductive invariants, each on top of the one before.
`RoutingInv` is types, `RoutedAsSubscribed` and `WriterAlwaysFound` together: a routed id is in
bounds because only subscribers are routed to, and a subscriber is a writer or the one being
added; when the build is over there is none being added. The lemmas on `Entry`, `Insert`,
`TopicSubscribe` and `Subscribe` say that a subscription adds one id to one list and leaves every
other list alone. `AlignedInv` adds that the columns are aligned; its lemmas follow the two
`Resize`s and two `WriteSlice`s of the `ev44` arm. `StopInv` adds where a stop loop stands:
`todo` holds the last ids, and the event writers before them have the stop time of the message;
outside the loop all have one stop time.

**DeliveryProofs.** `DeliveryInv` is `RoutingInv`, `OncePerSubscription` and the fact that the count
of subscriptions starts at 0 for each writer. Nothing is said of the lists but how often each id
occurs in one: `Append` adds one occurrence of the id it appends, so that one more subscription
adds one to the lists that it matches and nothing to the others, and the number of a writer's
first `n + 1` subscriptions that match is that of the first `n`, or one more, in the same places.

**WriteTaskProofs.** Every step of the task is a step of the file or leaves it alone (`FileStep`),
so that the invariants above are reused and not proved again. Four more, each on top of the one
before. `TaskInv`: `AlignedInv` and the types of the log, the consumer and the outcome.
`StageInv` says what is true at each `stage`: which of `error`, `phase` and `file` may have
moved, and that the result follows from them; `ResultIsFirstOutcome` and the step simulation of
`RunFate` read it off. `AssignedOK` says that a task at `poll` was assigned the topics of its
router, which by `Routing` are those subscribed to. `RecordedInv` is the heart: for each event
writer, `SoFar` relates its rows to the messages it has been *given*, which in the middle of the
loop over writers (`Given`) are not the messages handled; a message admitted by every stop time
told so far is admitted by the writer's own, whichever that is, and a row in the file was
admitted by the one the writer had at that moment. `StopTimes` only grows, so both halves
survive a new stop. `CompleteInv` adds that what was read of a partition is the stretch from the
offset assigned to the position (`ReadOn`), that what precedes it is too old for the run
(`TooOld`), that every message handled was passed (`Passed`), and that a writer's
`latest_message_time_ms` is 0 or the time of a message handled (`SeenOK`): on a partition in
order, what is left unread is then later than the stop.

**FileWriterProofs.** `Inv` adds two facts to the properties. `Reading`: the owner of a
partition reads on from the committed offset, unless it has one message in hand, which is then
the one directly after it. This is why a commit moves the offset by exactly one message, and it
holds across rebalances since `next` is then reset to what is committed, and across fencing
since a process that is out of the group owns nothing and Kafka refuses its commit. `OwnFile`:
the file that a process is writing is the one its run created. `FateStep` then says that the
fate of a run changes in two ways only, a commit by the owner and the end of a task, from which
the properties and the refinement follow.

**EventFileProofs.** A step of the task is `Open`, `AddWriter`, `Take`, `Close` or no step of
`EventFile`, and `Take` is the one that matters: the rows it adds must be all those of the message,
and those a reader saw must stay. That an HDF5 call which fails between the columns leaves nothing
to be seen follows from the columns' being aligned before it. That no message is taken twice,
or after one that follows it, needs `EventInv`: an event writer has one subscription and so is in
`todo` at most once (`SingleOK`, `OnceOK`, from `DeliveryInv`); its columns are empty until the
first poll, whatever its factory did (`BlankOK`); what it has taken lies behind the consumer's
position (`TakenOK`), and, while it is still to be given the message at that position, before
that message (`HandedOK`).

**NexusProofs.** The inductive invariant, `NexusInv`, says where the walk stands. Objects are
numbered in the order of the text, so that what the walk has been through is every object before
`Top.next` (`Walked`): this is what `FrameOK` and `Calls` say of the stack, and the reason that no
induction over the tree is needed. `WalkInv`: each object walked has put its share into the file
but for what the innermost call has still to do (`ObjectsMade`, `AttributesMade`), and no two
shares meet (`IsSharedOut`). `RegistryInv`: a factory is the one registered last under its name.
A refused call is then one of a share that meets another, a value that does not encode or an
item that is none, each of which `Instantiable` rules out (`FailedInv`); an attribute whose value could
not be written is one of the structure all the same (`NextAttributeSaid`); and a walk that comes to
the end has been through all of `Reached`. `PlacesInv` keeps the datasets of the event writers,
which are shares too and so do not meet.

**BuildProofs.** `PlacedInv`: there are as many writers as modules walked. The module that is walked
next therefore has as its rank the number of the writers, which is its place in `Specs`: the walk
takes the head of `SpecsLeft`, which is what `Build` of `InProgressFile` takes.

**Model-checked only.** Liveness: `TaskEnds`, `EveryRunTaken`, `LaterRunsTaken`. Under
fairness these speak of `ENABLED`, which the proof system does not handle. The four properties of
section 5 have counterexamples and nothing to prove. What the proofs rest on besides is the
model: the assumptions above, and one step per call.

## 5. Where the comments and the code disagree

Four sentences in the repository are stated as properties and found violated.

1. `after_run` / `OnlyRunEventsWritten`. `nxevent_data.rs:50`: "This writer module doesn't write
   messages before / after run." A run without a stop time accepts every later message until its
   run stop is read, and what it has accepted stays in the file.
2. `missing` / `NothingMissingFromCompletedRun`. `writer_module.rs:115-118`: `finished` "should
   return `true` if all necessary data has been received, or `false` otherwise". It looks at the
   last message of *any* partition: the first partition to pass the stop time ends the task, with
   events unread in the others. The same holds for the first of several messages of one
   partition at the stop time.
3. `never_finished` / `FinishedOnceAllReceived`. The same sentence, the other way:
   `latest_message_time_ms` is the time of the last message, not the greatest, so that a late
   message un-finishes a writer; if nothing comes after it, the task polls for ever.
4. `skips` / `StreamsReplayed`. `config.rs:31-32`: `stream_seek_back_in_time_ms` is "How far to
   seek-back and replay all streams before run start." A partition that has nothing after the
   seek timestamp yet is assigned `Offset::End`, which is resolved later: what is published in
   between is never read, the run stop included.

Seen while reading, outside what the models say: `config.example.toml` sets `back_in_time_ms`,
which `config.rs` does not know and `deny_unknown_fields` refuses; `PlacedWriter::flush` has no
caller; a run stop with stop time 0 is taken as it is, unlike the 0 of a run start, and every
writer has then finished without having read anything, since `latest_message_time_ms` begins at
0 (the premise of `CompleteWhenInOrder`); partitions that are added to a topic during a run are
not read.

## 6. Running it

    tlc -config MCFileWriter.cfg MCFileWriter      # likewise the other configurations
    tlapm FileWriterProofs.tla                     # likewise the other *Proofs modules

Every passing run takes less than a minute, every proof module two or three. `PROJECT.json`
has for each definition the lines of the source it stands for.

## 7. Plan

Done, in this order: `StreamTypes`, `MessageRouter`, `WriterModules`, `InProgressFile` with its
proofs; `WriteTask` with `EventFile`; `FileWriter` with `RunPool` and its proofs;
`NexusStructure` and its refinement; `RunFate`, which joins the two halves; `pool_latest`;
`WriteTaskProofs`; `DeliveryProofs`; `NexusProofs` and `BuildProofs`, for which the document was
given its numbering in place of paths and recursive functions; `EventFileProofs`. What could come
next:

1. One process composed with its `WriteTask` directly, so that a crash may come between any two
   calls of the task; `RunFate` leaves it between creating the file and the end.
2. Three processes, on a smaller pool, as a check of the instance; the proofs do not need it.

## 8. What is not modelled

* The values of attributes, beyond whether they are strings that encode: no part of the program
  reads them. Names that are paths (HDF5 makes the groups in between), empty or hold a NUL; in
  JSON, an array in the place of an object and repeated keys. HDF5's refusal of a name for a
  reason of its own is under `Faults`.
* The configuration file, error types and their wording; the fields that steer control flow are
  constants of the modules (`SeekBack`, `JobPoolTopic`, `SingleFile`, `Reset`).
* Of a run start: `n_periods`, run name, instrument and metadata, which nothing reads.
* A flush or close of the HDF5 file that fails is logged and ignored by the code; the task's
  result does not depend on it, and what is then on disk is HDF5's affair.
* The command line and output of `bin/structure_verify.rs`, whose build is `NexusStructure` with a
  path that is ASCII; `stream/fake.rs`, a test double.
* Polls that return nothing or an error: they change nothing and the code polls again (in the
  models, a stutter).
* Kafka is external and modelled by what `stream/kafka.rs` relies on: order within a partition,
  exclusive ownership within a generation, the refusal of commits from another generation.
