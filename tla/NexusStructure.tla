--------------------------- MODULE NexusStructure --------------------------
(***************************************************************************)
(* Building the file from its nexus_structure: the JSON document is parsed *)
(* (src/run_writer/nexus_structure.rs), its tree is walked by use_structure, *)
(* add_child and add_nexus_group (src/run_writer/in_progress_file.rs), and *)
(* the writer modules in it are created by their factories                 *)
(* (src/writer_module_factories.rs).  This is the build that InProgressFile *)
(* takes for the list of the modules and for any call failing; here calls  *)
(* fail because names clash, values do not encode and items do not parse.  *)
(*                                                                         *)
(* One step is one call of register_module or of HDF5; stack holds the     *)
(* calls of add_nexus_group that have not returned, the innermost last.    *)
(* What create_group hands out is a handle: a group of the file is named   *)
(* by the object of the document it was made for, the root group by 0.     *)
(***************************************************************************)
EXTENDS MessageRouter, WriterModules, FiniteSets

CONSTANTS
  Documents,    \* what a nexus_structure may be, see IsDocument
  Registries,   \* the calls of register_module to be made: sequences of [name, creates]
  RunStarts,    \* run starts (pl72), as in InProgressFile
  AttributeNames,
  NotAString    \* a JSON value where a string was expected

(***************************************************************************)
(* A document: is it JSON at all, and its objects, numbered in the order   *)
(* of the text: 0 is the whole document, the others are the elements of    *)
(* "children", and last[n] is the last object that is inside object n, or  *)
(* n itself.  So the first child of n is n + 1, and the one after child m  *)
(* is last[m] + 1.  An object is a function from the keys it has; of       *)
(* "children" and "attributes" it says whether they are an array and an    *)
(* object, the "config" {"topic": t} is t and any other one a string.      *)
(***************************************************************************)
IsTree(d) ==
  \A n \in DOMAIN d.last :
    n <= d.last[n] /\ \A m \in n..d.last[n] : d.last[m] <= d.last[n]

IsDocument(d) ==
  /\ d.json \in BOOLEAN /\ d.last[0] \in Nat
  /\ DOMAIN d.nodes = 0..d.last[0] /\ d.last \in [0..d.last[0] -> 0..d.last[0]]
  /\ DOMAIN d.attributes = DOMAIN d.nodes
  /\ IsTree(d)
  /\ \A n \in DOMAIN d.nodes :
       /\ DOMAIN d.attributes[n] \subseteq AttributeNames
       /\ \A k \in DOMAIN d.attributes[n] : d.attributes[n][k] \in {"ascii", "unicode", "other"}
       /\ d.last[n] # n => "children" \in DOMAIN d.nodes[n]
       /\ DOMAIN d.attributes[n] # {} => "attributes" \in DOMAIN d.nodes[n]

ASSUME DocumentAssumption == \A d \in Documents : IsDocument(d)

ModuleKinds == {"NXevent_data", "IXseblock"}

ASSUME RegistryAssumption == Registries \subseteq Seq([name : STRING, creates : ModuleKinds])

VARIABLES
  document, registry, run,
  ascii_path,   \* whether the path of the file is ASCII
  registered,   \* how many modules of the registry have been registered
  factories,    \* WriterModuleFactories
  phase,        \* starting, rejected, walking, root, ready or failed
  stack,        \* [node, group, attributes, next]: what is left of each, the root first
  making,       \* [spec, left]: the module PlacedWriter::new is creating, or None
  defaults,     \* what is left of add_root_dataset_attributes
  objects,      \* <<group, name>> of the groups and datasets in the file
  attrs,        \* <<group, name>> of the attributes in the file, with or without a value
  places,       \* PlacedWriter.group of the writers created so far, in order
  adding, subscribed, writers, router, error,   \* as in InProgressFile
  fault         \* has an HDF5 call failed for a reason of its own? (history)

input        == <<document, registry, run, ascii_path>>
registration == <<registered, factories>>
contents     == <<objects, attrs>>
placement    == <<places, adding, subscribed, writers, router>>
vars         == <<input, registration, phase, stack, making, defaults, contents, placement,
                  error, fault>>

-----------------------------------------------------------------------------
(***************************************************************************)
(* Deserialization.  Unknown fields are denied everywhere; an item is the  *)
(* first variant of NexusStructureItem that fits, and Invalid fits any.    *)
(***************************************************************************)
HasFields(j, required, optional) ==
  required \subseteq DOMAIN j /\ DOMAIN j \subseteq required \cup optional

ListsFit(j) ==
  /\ "children" \in DOMAIN j => j.children = "array"
  /\ "attributes" \in DOMAIN j => j.attributes = "object"

Parses(d) ==
  d.json /\ HasFields(d.nodes[0], {}, {"children", "attributes"}) /\ ListsFit(d.nodes[0])

IsGroup(j) ==
  /\ HasFields(j, {"type", "name"}, {"children", "attributes"})
  /\ j.type = "group" /\ j.name # NotAString /\ ListsFit(j)

IsWriterModule(j) == HasFields(j, {"module"}, {"config"}) /\ j.module # NotAString

-----------------------------------------------------------------------------
(***************************************************************************)
(* WriterModuleFactories, and what the two writer modules' factories do.   *)
(***************************************************************************)
IXseblock   == [name |-> "IXseblock", creates |-> "IXseblock"]
NXeventdata == [name |-> "NXevent_data", creates |-> "NXevent_data"]

DefaultRegistry == <<IXseblock, NXeventdata>>

NoFactories == [modules |-> EmptyMap, has_duplicated_module_names |-> FALSE]

\* Slip: entry().or_insert(), which keeps the first of two
RegisterModuleOnce(f, M) ==
  [modules |-> Insert(f.modules, M.name, Entry(f.modules, M.name, M.creates)),
   has_duplicated_module_names |-> f.has_duplicated_module_names \/ M.name \in DOMAIN f.modules]

RegisterModule(f, M) ==
  [modules |-> Insert(f.modules, M.name, M.creates),
   has_duplicated_module_names |-> f.has_duplicated_module_names \/ M.name \in DOMAIN f.modules]

ConfigOf(j) == IF "config" \in DOMAIN j THEN j.config ELSE "{}"

ConfigParses(kind, config) ==
  IF kind = "NXevent_data" THEN config \in Topics ELSE config = "{}"

\* Does the factory get as far as touching the file?
Creatable(j) ==
  /\ IsWriterModule(j) /\ j.module \in DOMAIN factories.modules
  /\ ConfigParses(factories.modules[j.module], ConfigOf(j))

SpecOf(kind, config) ==
  [module |-> kind, subscriptions |->
     IF kind = "NXevent_data" THEN <<[topic |-> config, key |-> All]>> ELSE <<>>]

Datasets == {"event_time_zero", "event_id", "event_time_offset"}

\* Slip: create does not call init
MakesNothing(kind) == <<>>

\* The HDF5 calls of create, in order: what each makes in the group it is given
Makes(kind) ==
  IF kind = "NXevent_data"
  THEN <<<<"dataset", "event_time_zero">>, <<"dataset", "event_id">>,
         <<"dataset", "event_time_offset">>, <<"attribute", "NX_class">>>>
  ELSE <<>>

\* What PlacedWriter::new goes through, and what it returns
Creating ==
  [spec : [module : ModuleKinds, subscriptions : Seq(Subscription)],
   left : Seq({"dataset", "attribute"} \X (Datasets \cup {"NX_class"}))]

RunParameters == {FromPl72(rs) : rs \in RunStarts}

Created ==
  [kind : ModuleKinds, subscriptions : Seq(Subscription),
   run_start_time_ms : {r.start_time_ms : r \in RunParameters},
   run_stop_time_ms : {r.stop_time_ms : r \in RunParameters}, latest_message_time_ms : {0},
   event_time_zero : {<<>>}, event_id : {<<>>}, event_time_offset : {<<>>}]

\* None is not the value of anything that is there.
ASSUME OptionAssumption ==
  None \notin Creating \cup Created \cup {"NexusStructureError", "Hdf5Error"}

-----------------------------------------------------------------------------
(***************************************************************************)
(* The walk.                                                               *)
(***************************************************************************)
DefaultAttributes == <<"HDF5_Version", "file_name", "file_time">>

\* The call of add_nexus_group for object n, which makes the group of that handle
Frame(n, group, keys) == [node |-> n, group |-> group, attributes |-> keys, next |-> n + 1]

NexusInit ==
  /\ document \in Documents /\ registry \in Registries /\ run \in RunParameters
  /\ ascii_path \in BOOLEAN
  /\ registered = 0 /\ factories = NoFactories
  /\ phase = "starting" /\ stack = <<>> /\ making = None /\ defaults = DefaultAttributes
  /\ objects = {} /\ attrs = {} /\ places = <<>>
  /\ adding = None /\ subscribed = 0 /\ writers = <<>> /\ router = EmptyRouter
  /\ error = None /\ fault = FALSE

Fail(e) == phase' = "failed" /\ error' = e

\* A call of WriterModuleFactories::register_module, when the program starts
Register ==
  /\ phase = "starting" /\ registered < Len(registry)
  /\ factories' = RegisterModule(factories, registry[registered + 1])
  /\ registered' = registered + 1
  /\ UNCHANGED <<input, phase, stack, making, defaults, contents, placement, error, fault>>

\* RunStartParameters::structure, before there is a file
ParseStructure ==
  /\ phase = "starting" /\ registered = Len(registry)
  /\ IF Parses(document)
     THEN phase' = "walking" /\ stack' = <<Frame(0, 0, {})>> /\ error' = error
     ELSE phase' = "rejected" /\ error' = "NexusStructureError" /\ stack' = stack
  /\ UNCHANGED <<input, registration, making, defaults, contents, placement, fault>>

Top          == stack[Len(stack)]
Attribute(k) == document.attributes[Top.node][k]
HasChild     == Top.next <= document.last[Top.node]
Child        == document.nodes[Top.next]
NextChild    == [stack EXCEPT ![Len(stack)].next = document.last[@] + 1]

AtAttribute(k) == phase \in {"walking", "root"} /\ making = None /\ adding = None
                  /\ k \in Top.attributes

AtChild == phase = "walking" /\ making = None /\ adding = None
           /\ Top.attributes = {} /\ HasChild

AtReturn == phase = "walking" /\ making = None /\ adding = None
            /\ Top.attributes = {} /\ ~HasChild

\* add_ascii_string_attribute and Location::create_group or new_dataset: is the name free?
AttributeFits(k, value) == value = "ascii" /\ <<Top.group, k>> \notin attrs

ObjectFits(name) == <<Top.group, name>> \notin objects

\* The attributes of a HashMap come in any order; only strings are written.
AddAttribute(k) ==
  /\ AtAttribute(k)
  /\ Attribute(k) = "other" \/ AttributeFits(k, Attribute(k))
  /\ attrs' = IF Attribute(k) = "other" THEN attrs ELSE attrs \cup {<<Top.group, k>>}
  /\ stack' = [stack EXCEPT ![Len(stack)].attributes = @ \ {k}]
  /\ UNCHANGED <<input, registration, phase, making, defaults, objects, placement, error, fault>>

\* Slips: every group is made in the root group; the children are added to the parent
AddNexusGroupAtRoot ==
  /\ AtChild /\ IsGroup(Child) /\ <<0, Child.name>> \notin objects
  /\ objects' = objects \cup {<<0, Child.name>>}
  /\ stack' = Append(NextChild, Frame(Top.next, Top.next, DOMAIN document.attributes[Top.next]))
  /\ UNCHANGED <<input, registration, phase, making, defaults, attrs, placement, error, fault>>

AddNexusGroupInParent ==
  /\ AtChild /\ IsGroup(Child) /\ ObjectFits(Child.name)
  /\ objects' = objects \cup {<<Top.group, Child.name>>}
  /\ stack' = Append(NextChild, Frame(Top.next, Top.group, {}))
  /\ UNCHANGED <<input, registration, phase, making, defaults, attrs, placement, error, fault>>

AddNexusGroup ==
  /\ AtChild /\ IsGroup(Child) /\ ObjectFits(Child.name)
  /\ objects' = objects \cup {<<Top.group, Child.name>>}
  /\ stack' = Append(NextChild, Frame(Top.next, Top.next, DOMAIN document.attributes[Top.next]))
  /\ UNCHANGED <<input, registration, phase, making, defaults, attrs, placement, error, fault>>

\* add_nexus_group returns
ReturnFromGroup ==
  /\ AtReturn /\ Len(stack) > 1
  /\ stack' = SubSeq(stack, 1, Len(stack) - 1)
  /\ UNCHANGED <<input, registration, phase, making, defaults, contents, placement, error, fault>>

\* PlacedWriter::new finds the factory, and the factory parses the config
FindFactory ==
  /\ AtChild /\ Creatable(Child)
  /\ LET kind == factories.modules[Child.module]
     IN  making' = [spec |-> SpecOf(kind, ConfigOf(Child)), left |-> Makes(kind)]
  /\ stack' = NextChild
  /\ UNCHANGED <<input, registration, phase, defaults, contents, placement, error, fault>>

Making(what, name) ==
  phase = "walking" /\ making # None /\ making.left # <<>> /\ Head(making.left) = <<what, name>>

MakeDataset(name) ==
  /\ Making("dataset", name) /\ ObjectFits(name)
  /\ objects' = objects \cup {<<Top.group, name>>}
  /\ making' = [making EXCEPT !.left = Tail(@)]
  /\ UNCHANGED <<input, registration, phase, stack, defaults, attrs, placement, error, fault>>

MakeAttribute(name) ==
  /\ Making("attribute", name) /\ AttributeFits(name, "ascii")
  /\ attrs' = attrs \cup {<<Top.group, name>>}
  /\ making' = [making EXCEPT !.left = Tail(@)]
  /\ UNCHANGED <<input, registration, phase, stack, defaults, objects, placement, error, fault>>

\* PlacedWriter::new returns
CreateWriter ==
  /\ making # None /\ phase = "walking" /\ making.left = <<>>
  /\ adding' = NewWriter(making.spec, run)
  /\ places' = Append(places, Top.group) /\ making' = None
  /\ UNCHANGED <<input, registration, phase, stack, defaults, contents, subscribed, writers, router,
                 error, fault>>

\* Slip: the router counts writers from one
SubscribeWriterFromOne ==
  /\ phase = "walking" /\ adding # None /\ subscribed < Len(adding.subscriptions)
  /\ router' = Subscribe(router, Len(writers) + 1, adding.subscriptions[subscribed + 1])
  /\ subscribed' = subscribed + 1
  /\ UNCHANGED <<input, registration, phase, stack, making, defaults, contents, places, adding,
                 writers, error, fault>>

\* add_placed_writer
SubscribeWriter ==
  /\ phase = "walking" /\ adding # None /\ subscribed < Len(adding.subscriptions)
  /\ router' = Subscribe(router, Len(writers), adding.subscriptions[subscribed + 1])
  /\ subscribed' = subscribed + 1
  /\ UNCHANGED <<input, registration, phase, stack, making, defaults, contents, places, adding,
                 writers, error, fault>>

PushWriter ==
  /\ phase = "walking" /\ adding # None /\ subscribed = Len(adding.subscriptions)
  /\ writers' = Append(writers, adding) /\ adding' = None /\ subscribed' = 0
  /\ UNCHANGED <<input, registration, phase, stack, making, defaults, contents, places, router,
                 error, fault>>

\* The children of the root are done; its attributes come last.
BeginRootAttributes ==
  /\ AtReturn /\ Len(stack) = 1
  /\ phase' = "root" /\ stack' = <<[Top EXCEPT !.attributes = DOMAIN document.attributes[0]]>>
  /\ UNCHANGED <<input, registration, making, defaults, contents, placement, error, fault>>

AtDefault(k) ==
  phase = "root" /\ Top.attributes = {} /\ defaults # <<>> /\ Head(defaults) = k

DefaultValue(k) == IF k = "file_name" /\ ~ascii_path THEN "unicode" ELSE "ascii"

AddDefaultAttribute(k) ==
  /\ AtDefault(k) /\ AttributeFits(k, DefaultValue(k))
  /\ attrs' = attrs \cup {<<Top.group, k>>} /\ defaults' = Tail(defaults)
  /\ UNCHANGED <<input, registration, phase, stack, making, objects, placement, error, fault>>

FinishStructure ==
  /\ phase = "root" /\ Top.attributes = {} /\ defaults = <<>> /\ phase' = "ready"
  /\ UNCHANGED <<input, registration, stack, making, defaults, contents, placement, error, fault>>

-----------------------------------------------------------------------------
(***************************************************************************)
(* Any of these calls may be refused, which ends the build and leaves the  *)
(* file as it is, or fail for a reason of HDF5's own.  An attribute is two *)
(* of those: it is made, then its value is written.                        *)
(***************************************************************************)
RefuseChild ==
  /\ AtChild /\ ~IsGroup(Child) /\ ~Creatable(Child)
  /\ Fail("NexusStructureError")

RefuseGroup ==
  /\ AtChild /\ IsGroup(Child) /\ ~ObjectFits(Child.name)
  /\ Fail("Hdf5Error")

RefuseAttribute ==
  /\ \/ \E k \in AttributeNames :
           AtAttribute(k) /\ Attribute(k) # "other" /\ ~AttributeFits(k, Attribute(k))
     \/ \E k \in Range(DefaultAttributes) : AtDefault(k) /\ ~AttributeFits(k, DefaultValue(k))
  /\ Fail("Hdf5Error")

RefuseModule ==
  /\ \/ \E name \in Datasets : Making("dataset", name) /\ ~ObjectFits(name)
     \/ Making("attribute", "NX_class") /\ ~AttributeFits("NX_class", "ascii")
  /\ Fail("NexusStructureError")

Refuse == RefuseChild \/ RefuseGroup \/ RefuseAttribute \/ RefuseModule

\* add_ascii_string_attribute fails in create, or in write_scalar, which leaves the attribute
AttributeFails(k) == attrs' \in {attrs, attrs \cup {<<Top.group, k>>}}

CallFails ==
  /\ Faults /\ fault' = TRUE
  /\ \/ AtChild /\ IsGroup(Child) /\ Fail("Hdf5Error") /\ attrs' = attrs
     \/ \E k \in AttributeNames :
          AtAttribute(k) /\ Attribute(k) = "ascii" /\ Fail("Hdf5Error") /\ AttributeFails(k)
     \/ \E k \in Range(DefaultAttributes) :
          AtDefault(k) /\ DefaultValue(k) = "ascii" /\ Fail("Hdf5Error") /\ AttributeFails(k)
     \/ \E name \in Datasets :
          Making("dataset", name) /\ Fail("NexusStructureError") /\ attrs' = attrs
     \/ /\ Making("attribute", "NX_class") /\ Fail("NexusStructureError")
        /\ AttributeFails("NX_class")

BuildFails ==
  /\ (Refuse /\ fault' = fault /\ attrs' = attrs) \/ CallFails
  /\ UNCHANGED <<input, registration, stack, making, defaults, objects, placement>>

NexusNext ==
  \/ Register \/ ParseStructure \/ ReturnFromGroup \/ AddNexusGroup \/ FindFactory
  \/ \E k \in AttributeNames : AddAttribute(k)
  \/ \E name \in Datasets : MakeDataset(name)
  \/ MakeAttribute("NX_class") \/ CreateWriter \/ SubscribeWriter \/ PushWriter
  \/ BeginRootAttributes \/ \E k \in Range(DefaultAttributes) : AddDefaultAttribute(k)
  \/ FinishStructure \/ BuildFails

NexusSpec == NexusInit /\ [][NexusNext]_vars

-----------------------------------------------------------------------------
(***************************************************************************)
(* What the structure says, without the walk: the objects that are items   *)
(* of it, the group each is in, and what each puts into the file.          *)
(***************************************************************************)
Above(d, n) == {m \in 0..(n - 1) : n <= d.last[m]}

\* Items are found in the document and in its groups, but not inside other objects
ReachedIn(d) == {n \in DOMAIN d.nodes : \A m \in Above(d, n) \ {0} : IsGroup(d.nodes[m])}

Parent(d, n) == CHOOSE m \in Above(d, n) : \A k \in Above(d, n) : k <= m

\* The module registered last under a name
LastRegistered(r, name) ==
  r[CHOOSE i \in DOMAIN r : /\ r[i].name = name
                            /\ \A j \in DOMAIN r : r[j].name = name => j <= i].creates

IsModuleOf(j, r) ==
  /\ IsWriterModule(j) /\ \E i \in DOMAIN r : r[i].name = j.module
  /\ ConfigParses(LastRegistered(r, j.module), ConfigOf(j))

SpecIn(j, r) == SpecOf(LastRegistered(r, j.module), ConfigOf(j))

Modules(d, r) == {n \in ReachedIn(d) \ {0} : IsModuleOf(d.nodes[n], r)}

\* How many modules the text has before object n
Rank(d, r, n) == Cardinality({m \in Modules(d, r) : m < n})

Specs(d, r) ==
  [i \in 1..Cardinality(Modules(d, r)) |->
     SpecIn(d.nodes[CHOOSE n \in Modules(d, r) : Rank(d, r, n) = i - 1], r)]

AllSpecs == {Specs(d, r) : d \in Documents, r \in Registries}

Reached == ReachedIn(document)

IsEvents(n) ==
  /\ n # 0 /\ IsModuleOf(document.nodes[n], registry)
  /\ SpecIn(document.nodes[n], registry).module = "NXevent_data"

IsPlace(n) == n = 0 \/ IsGroup(document.nodes[n])

\* The objects and attributes that item n, or the root, puts into the file
ObjectsOf(n) ==
  IF IsEvents(n) THEN {<<Parent(document, n), name>> : name \in Datasets}
  ELSE IF n # 0 /\ IsPlace(n) THEN {<<Parent(document, n), document.nodes[n].name>>} ELSE {}

StringsOf(n) == {k \in DOMAIN document.attributes[n] : document.attributes[n][k] # "other"}

AttributesOf(n) ==
  IF IsEvents(n) THEN {<<Parent(document, n), "NX_class">>}
  ELSE IF IsPlace(n) THEN {<<n, k>> : k \in StringsOf(n)} ELSE {}

RootAttributes == {<<0, k>> : k \in Range(DefaultAttributes)}

Instantiable ==
  /\ Parses(document) /\ ascii_path
  /\ \A n \in Reached :
       /\ IsPlace(n) \/ IsModuleOf(document.nodes[n], registry)
       /\ \A k \in StringsOf(n) : document.attributes[n][k] = "ascii"
       /\ AttributesOf(n) \cap RootAttributes = {}
  /\ \A m, n \in Reached : m # n =>
       ObjectsOf(m) \cap ObjectsOf(n) = {} /\ AttributesOf(m) \cap AttributesOf(n) = {}

-----------------------------------------------------------------------------
Phases == {"starting", "rejected", "walking", "root", "ready", "failed"}

\* The types, and when a module is being created, a writer added and an error returned.
NexusTypeOK ==
  /\ phase \in Phases /\ fault \in BOOLEAN
  /\ (error # None) = (phase \in {"rejected", "failed"})
  /\ phase \in {"walking", "root"} => stack # <<>> /\ stack[1].node = 0
  /\ \A i \in DOMAIN stack \ {1} :
       <<stack[i - 1].group, document.nodes[stack[i].node].name>> \in objects
  /\ making # None \/ adding # None => phase \in {"walking", "failed"}
  /\ making \in Creating \cup {None} /\ adding \in Created \cup {None}
  /\ writers \in Seq(Created)
  /\ making = None \/ adding = None
  /\ adding # None => subscribed <= Len(adding.subscriptions)
  /\ IsRouter(router) /\ Len(places) = Len(writers) + (IF adding = None THEN 0 ELSE 1)

(***************************************************************************)
(* Whether the file can be built is decided by the document, the registry  *)
(* and the file's path alone, and never by the order in which a HashMap    *)
(* gives its attributes: what structure_verify accepts the file writer     *)
(* builds, if the path is ASCII and HDF5 does not fail.                    *)
(***************************************************************************)
BuiltIffInstantiable ==
  /\ phase = "ready" => Instantiable
  /\ phase \in {"rejected", "failed"} /\ ~fault => ~Instantiable

(***************************************************************************)
(* The file holds nothing that the structure does not say, at any point of *)
(* the build and after a failure, and when it is ready all that it says,   *)
(* each in its group: no frame of the recursion writes into another's.     *)
(* Of an attribute this is its name, which may be there without a value in *)
(* a file whose build has failed.                                          *)
(***************************************************************************)
HoldsTheStructure ==
  phase # "starting" /\ Parses(document) =>
    LET allObjects == UNION {ObjectsOf(n) : n \in Reached}
        allAttrs   == (UNION {AttributesOf(n) : n \in Reached}) \cup RootAttributes
    IN  /\ objects \subseteq allObjects /\ attrs \subseteq allAttrs
        /\ phase = "ready" => objects = allObjects /\ attrs = allAttrs

(***************************************************************************)
(* Each event writer has three datasets that no other writer appends to:   *)
(* what InProgressFile takes for granted when it gives each its own.       *)
(***************************************************************************)
EventWriters == {i \in DOMAIN writers : writers[i].kind = "NXevent_data"}

OwnDatasets ==
  /\ \A i \in EventWriters : \A name \in Datasets : <<places[i], name>> \in objects
  /\ \A i, j \in EventWriters : places[i] = places[j] => i = j

\* The specs of the modules that have no writer yet, and what InProgressFile sees of the rest
SpecsLeft ==
  LET all == Specs(document, registry) IN SubSeq(all, Len(places) + 1, Len(all))

FilePhase == IF phase \in {"ready", "failed"} THEN phase ELSE "building"

FileError == IF phase = "rejected" THEN None ELSE error

File == INSTANCE InProgressFile WITH
  Structures <- AllSpecs, Faults <- TRUE,
  specs <- SpecsLeft, phase <- FilePhase, error <- FileError,
  run_stop_received <- FALSE, msg <- None, todo <- <<>>

(***************************************************************************)
(* The walk builds what InProgressFile builds: writers are placed in the   *)
(* order of the document, whatever groups they are in, and the file is     *)
(* ready only when all are placed.                                         *)
(***************************************************************************)
BuildsFile == File!FileInit /\ [][File!Build]_File!fileVars
=============================================================================
