----------------------------- MODULE NexusProofs ---------------------------
(***************************************************************************)
(* Proofs about building a file from its nexus_structure, for every        *)
(* document, registry and run start: whether it can be built is decided by *)
(* the document alone, and what the file then holds.                       *)
(*                                                                         *)
(* The inductive invariant says where the walk stands.  Objects are        *)
(* numbered in the order of the text, so what the walk has been through is *)
(* every object before Top.next; each has put its share into the file, but *)
(* for what the innermost call still has to do, and no two shares meet.    *)
(***************************************************************************)
EXTENDS NexusStructure, MessageRouterProofs, SequenceTheorems

Running == {"walking", "root", "ready"}

\* From the time there is a file
Begun == Running \cup {"failed"}

\* Entry i is the last of the first n calls of register_module that was for this name.
IsLatest(i, name, n) ==
  /\ i \in 1..n /\ registry[i].name = name
  /\ \A j \in 1..n : registry[j].name = name => j <= i

RegistryInv ==
  /\ document \in Documents /\ registry \in Registries /\ run \in RunParameters
  /\ ascii_path \in BOOLEAN
  /\ registered \in 0..Len(registry)
  /\ phase # "starting" => registered = Len(registry)
  /\ DOMAIN factories.modules = {registry[i].name : i \in 1..registered}
  /\ \A name \in DOMAIN factories.modules :
       \E i \in 1..registered :
         IsLatest(i, name, registered) /\ factories.modules[name] = registry[i].creates

-----------------------------------------------------------------------------
FrameType == [node : Nat, group : Nat, attributes : SUBSET AttributeNames, next : Nat]

\* Everything inside the children that are done is before the next one.
FrameOK(f) ==
  /\ f.node \in Reached /\ IsPlace(f.node) /\ f.group = f.node
  /\ f.node < f.next /\ f.next <= document.last[f.node] + 1
  /\ \A m \in (f.node + 1)..(f.next - 1) : document.last[m] < f.next

\* f is the call that called g, and goes on after the child that g is for.
Calls(f, g) ==
  /\ f.attributes = {} /\ f.next = document.last[g.node] + 1
  /\ f.node \in Above(document, g.node) /\ f.node = Parent(document, g.node)
  /\ <<f.group, document.nodes[g.node].name>> \in objects

StackInv ==
  /\ stack \in Seq(FrameType) /\ stack # <<>> /\ stack[1].node = 0
  /\ \A i \in 1..Len(stack) : FrameOK(stack[i])
  /\ \A i \in 1..(Len(stack) - 1) : Calls(stack[i], stack[i + 1])

Walked == 0..(Top.next - 1)

-----------------------------------------------------------------------------
\* The module that is being created is the object the walk has just passed.
Maker == Top.next - 1

Left == IF making = None THEN {} ELSE Range(making.left)

EventCalls ==
  { <<<<"dataset", "event_time_zero">>, <<"dataset", "event_id">>,
      <<"dataset", "event_time_offset">>, <<"attribute", "NX_class">>>>,
    <<<<"dataset", "event_id">>, <<"dataset", "event_time_offset">>, <<"attribute", "NX_class">>>>,
    <<<<"dataset", "event_time_offset">>, <<"attribute", "NX_class">>>>,
    <<<<"attribute", "NX_class">>>>,
    <<>> }

MakingInv ==
  making # None =>
    /\ making \in Creating /\ making.left \in EventCalls
    /\ adding = None /\ Top.attributes = {} /\ phase \in {"walking", "failed"}
    /\ Maker # 0 /\ IsModuleOf(document.nodes[Maker], registry)
    /\ Parent(document, Maker) = Top.node
    /\ making.spec = SpecIn(document.nodes[Maker], registry)
    /\ IsEvents(Maker) \/ making.left = <<>>

DefaultsLeft == {DefaultAttributes, <<"file_name", "file_time">>, <<"file_time">>, <<>>}

RootInv ==
  /\ Top.attributes \subseteq DOMAIN document.attributes[Top.node]
  /\ phase \in {"root", "ready"} => Len(stack) = 1 /\ Top.next = document.last[0] + 1
                                    /\ making = None /\ adding = None
  /\ phase = "walking" => defaults = DefaultAttributes
                           /\ (Top.node = 0 => Top.attributes = {})
  /\ defaults \in DefaultsLeft
  /\ defaults # DefaultAttributes => Top.attributes = {}
  /\ "file_name" \notin Range(defaults) => ascii_path
  /\ phase = "ready" => Top.attributes = {} /\ defaults = <<>>

-----------------------------------------------------------------------------
(***************************************************************************)
(* The shares that the objects walked have in the file.                    *)
(***************************************************************************)
DatasetLeft(n, name) == n = Maker /\ <<"dataset", name>> \in Left

AttributeLeft(n, k) ==
  \/ n = 0 /\ phase = "walking"
  \/ n = Top.node /\ k \in Top.attributes
  \/ n = Maker /\ <<"attribute", k>> \in Left

ObjectsMade ==
  [n \in Walked |-> {o \in ObjectsOf(n) : ~DatasetLeft(n, o[2])}]

\* -1 stands for the default attributes
AttributesMade ==
  [n \in Walked \cup {-1} |->
     IF n = -1 THEN {<<0, k>> : k \in Range(DefaultAttributes) \ Range(defaults)}
     ELSE {a \in AttributesOf(n) : ~AttributeLeft(n, a[2])}]

\* S is what the shares make, and no two of them meet.
IsSharedOut(share, S) ==
  /\ S = UNION {share[n] : n \in DOMAIN share}
  /\ \A m, n \in DOMAIN share : m # n => share[m] \cap share[n] = {}

ItemsInv ==
  \A n \in Walked :
    /\ n \in Reached /\ (IsPlace(n) \/ IsModuleOf(document.nodes[n], registry))
    /\ \A k \in StringsOf(n) : AttributeLeft(n, k) \/ document.attributes[n][k] = "ascii"

WalkInv ==
  /\ ItemsInv /\ IsSharedOut(ObjectsMade, objects) /\ IsSharedOut(AttributesMade, attrs)

-----------------------------------------------------------------------------
AllObjects    == UNION {ObjectsOf(n) : n \in Reached}
AllAttributes == (UNION {AttributesOf(n) : n \in Reached}) \cup RootAttributes

FailedInv ==
  /\ objects \subseteq AllObjects /\ attrs \subseteq AllAttributes
  /\ ~fault => ~Instantiable

KindOf(i) == IF i <= Len(writers) THEN writers[i].kind ELSE adding.kind

EventPlaces == {i \in 1..Len(places) : KindOf(i) = "NXevent_data"}

PlacesInv ==
  /\ places \in Seq(Nat) /\ writers \in Seq(Created)
  /\ Len(places) = Len(writers) + (IF adding = None THEN 0 ELSE 1)
  /\ adding # None => phase = "walking" /\ adding \in Created /\ Top.attributes = {}
  /\ subscribed \in Nat
  /\ subscribed <= IF adding = None THEN 0 ELSE Len(adding.subscriptions)
  /\ IsRouter(router)
  /\ \A i \in EventPlaces : \A name \in Datasets : <<places[i], name>> \in objects
  /\ \A i, j \in EventPlaces : places[i] = places[j] => i = j
  /\ making # None /\ IsEvents(Maker) /\ <<"dataset", "event_time_zero">> \notin Left =>
       \A i \in EventPlaces : places[i] # Top.group

NotBegunInv ==
  /\ stack = <<>> /\ making = None /\ adding = None /\ subscribed = 0
  /\ defaults = DefaultAttributes
  /\ objects = {} /\ attrs = {} /\ places = <<>> /\ writers = <<>> /\ router = EmptyRouter

NexusInv ==
  /\ RegistryInv /\ phase \in Phases
  /\ (error # None) = (phase \in {"rejected", "failed"})
  /\ fault \in BOOLEAN /\ (fault => phase = "failed")
  /\ phase \notin Begun => NotBegunInv
  /\ phase = "rejected" => ~Parses(document)
  /\ phase \in Begun => /\ Parses(document) /\ StackInv /\ MakingInv /\ RootInv /\ PlacesInv
  /\ phase \in Running => WalkInv
  /\ phase = "failed" => FailedInv

-----------------------------------------------------------------------------
(***************************************************************************)
(* The document.                                                           *)
(***************************************************************************)
LEMMA Numbers ==
  ASSUME document \in Documents
  PROVE  /\ document.last[0] \in Nat /\ DOMAIN document.nodes = 0..document.last[0]
         /\ \A n \in 0..document.last[0] :
              /\ document.last[n] \in 0..document.last[0] /\ n <= document.last[n]
              /\ \A m \in n..document.last[n] : document.last[m] <= document.last[n]
              /\ DOMAIN document.attributes[n] \subseteq AttributeNames
              /\ document.last[n] # n => "children" \in DOMAIN document.nodes[n]
              /\ DOMAIN document.attributes[n] # {} => "attributes" \in DOMAIN document.nodes[n]
BY DocumentAssumption DEF IsDocument, IsTree

\* The group that is nearest above an object
LEMMA NearestAbove ==
  ASSUME NEW d, NEW n \in Nat, NEW m \in Above(d, n), \A k \in Above(d, n) : k <= m
  PROVE  Parent(d, n) = m
<1>1. Above(d, n) \subseteq Nat
  BY DEF Above
<1>2. Parent(d, n) \in Above(d, n) /\ \A k \in Above(d, n) : k <= Parent(d, n)
  BY DEF Parent
<1> QED BY <1>1, <1>2

\* Groups and modules are not both, and a module has nothing inside it.
LEMMA Exclusive == ASSUME NEW j, IsGroup(j) PROVE ~IsWriterModule(j)
BY DEF IsGroup, IsWriterModule, HasFields

LEMMA ModuleIsLeaf ==
  ASSUME document \in Documents, NEW n \in 0..document.last[0],
         IsWriterModule(document.nodes[n])
  PROVE  document.last[n] = n /\ DOMAIN document.attributes[n] = {}
<1>1. "children" \notin DOMAIN document.nodes[n] /\ "attributes" \notin DOMAIN document.nodes[n]
  BY DEF IsWriterModule, HasFields
<1> QED BY <1>1, Numbers

\* The next child of the call that f stands for
LEMMA NextIsChild ==
  ASSUME document \in Documents, NEW f \in FrameType, FrameOK(f),
         f.next <= document.last[f.node]
  PROVE  /\ f.next \in 1..document.last[0] /\ f.next \in Reached
         /\ f.node \in 0..document.last[0] /\ f.node < f.next
         /\ f.node \in Above(document, f.next) /\ f.node = Parent(document, f.next)
<1> DEFINE N == document.last[0]
           c == f.next
<1>1. f.node \in 0..N /\ c \in Nat /\ f.node < c
  BY Numbers DEF FrameOK, FrameType, Reached, ReachedIn
<1>2. c \in 1..N
  BY <1>1, Numbers
<1>3. f.node \in Above(document, c)
  BY <1>1 DEF Above, FrameType
<1>4. ASSUME NEW m \in Above(document, c), m > f.node
      PROVE  FALSE
  <2>1. m \in (f.node + 1)..(f.next - 1) /\ c <= document.last[m]
    BY <1>1, <1>4 DEF Above
  <2> QED BY <1>1, <1>2, <2>1, Numbers DEF FrameOK
<1>5. \A m \in Above(document, c) : m <= f.node
  BY <1>1, <1>4 DEF Above
<1>6. f.node = Parent(document, c)
  BY <1>1, <1>3, <1>5, NearestAbove
<1>7. ASSUME NEW m \in Above(document, c) \ {0}
      PROVE  IsGroup(document.nodes[m])
  <2>1. CASE m = f.node
    BY <1>7, <2>1 DEF FrameOK, IsPlace
  <2>2. CASE m # f.node
    <3>0. m \in 0..(c - 1) /\ c <= document.last[m] /\ m <= f.node /\ N \in Nat
      BY <1>5, <1>7, Numbers DEF Above
    <3>1. m \in 0..(f.node - 1) /\ m \in 0..N /\ c <= document.last[m]
      BY <1>1, <2>2, <3>0
    <3>2. m \in Above(document, f.node)
      BY <1>1, <3>1, Numbers DEF Above
    <3> QED BY <1>7, <3>2 DEF FrameOK, Reached, ReachedIn
  <2> QED BY <2>1, <2>2
<1> QED BY <1>1, <1>2, <1>3, <1>6, <1>7, Numbers DEF Reached, ReachedIn

\* What the step into a child, or over one that is a leaf, does to a frame
LEMMA PastChild ==
  ASSUME document \in Documents, NEW f \in FrameType, FrameOK(f),
         f.next <= document.last[f.node],
         NEW g, g = [f EXCEPT !.next = document.last[f.next] + 1]
  PROVE  /\ g \in FrameType /\ FrameOK(g) /\ g.node = f.node /\ g.group = f.group
         /\ g.attributes = f.attributes /\ g.next = document.last[f.next] + 1
         /\ f.next <= document.last[f.next]
<1> DEFINE c == f.next
           e == document.last[c]
<1>1. c \in 1..document.last[0] /\ f.node \in 0..document.last[0] /\ f.node < c
  BY NextIsChild
<1>2. e \in 0..document.last[0] /\ c <= e /\ e <= document.last[f.node]
  BY <1>1, Numbers
<1>3. /\ g \in FrameType /\ g.node = f.node /\ g.group = f.group
      /\ g.attributes = f.attributes /\ g.next = e + 1
  BY <1>2 DEF FrameType
<1>4. ASSUME NEW m \in (f.node + 1)..e
      PROVE  document.last[m] < e + 1
  <2>1. CASE m < c
    <3>1. document.last[m] < c /\ document.last[m] \in Nat
      BY <1>1, <1>4, <2>1, Numbers DEF FrameOK
    <3> QED BY <1>1, <1>2, <3>1
  <2>2. CASE m >= c
    <3>1. document.last[0] \in Nat
      BY Numbers
    <3>2. m \in c..e
      BY <1>1, <1>2, <1>4, <2>2, <3>1
    <3> QED BY <1>1, <1>2, <3>1, <3>2, Numbers
  <2> QED BY <1>1, <1>4, <2>1, <2>2
<1>5. (g.node + 1)..(g.next - 1) = (f.node + 1)..e
  BY <1>1, <1>2, <1>3
<1>6. /\ g.node \in Reached /\ IsPlace(g.node) /\ g.group = g.node
      /\ g.node < g.next /\ g.next <= document.last[g.node] + 1
  BY <1>1, <1>2, <1>3, Numbers DEF FrameOK
<1>7. FrameOK(g)
  BY <1>3, <1>4, <1>5, <1>6 DEF FrameOK
<1> QED BY <1>2, <1>3, <1>7

-----------------------------------------------------------------------------
(***************************************************************************)
(* The registry.                                                           *)
(***************************************************************************)
LEMMA RegistryType ==
  ASSUME RegistryInv
  PROVE  /\ Len(registry) \in Nat
         /\ \A i \in 1..Len(registry) : registry[i].creates \in ModuleKinds
<1>1. registry \in Seq([name : STRING, creates : ModuleKinds])
  BY RegistryAssumption DEF RegistryInv, ModuleKinds
<1>2. \A i \in 1..Len(registry) : registry[i] \in [name : STRING, creates : ModuleKinds]
  BY <1>1, ElementOfSeq
<1> QED BY <1>1, <1>2

LEMMA LatestIsLast ==
  ASSUME RegistryInv, NEW name, NEW i, IsLatest(i, name, Len(registry))
  PROVE  LastRegistered(registry, name) = registry[i].creates
<1> DEFINE Last(k) == k \in 1..Len(registry) /\ registry[k].name = name
                      /\ \A j \in 1..Len(registry) : registry[j].name = name => j <= k
<1>1. DOMAIN registry = 1..Len(registry) /\ Len(registry) \in Nat
  BY RegistryAssumption DEF RegistryInv
<1>2. Last(i)
  BY DEF IsLatest
<1>3. \A k : Last(k) => k = i
  BY <1>1, <1>2
<1>4. i = CHOOSE k \in DOMAIN registry :
            /\ registry[k].name = name
            /\ \A j \in DOMAIN registry : registry[j].name = name => j <= k
  BY <1>1, <1>2, <1>3
<1> QED BY <1>4 DEF LastRegistered

\* Once all are registered, the factories are those of the modules registered last.
LEMMA FactoriesAreLast ==
  ASSUME RegistryInv, registered = Len(registry)
  PROVE  /\ DOMAIN factories.modules = {registry[i].name : i \in DOMAIN registry}
         /\ \A name \in DOMAIN factories.modules :
              /\ factories.modules[name] = LastRegistered(registry, name)
              /\ factories.modules[name] \in ModuleKinds
<1>1. DOMAIN registry = 1..Len(registry)
  BY RegistryAssumption DEF RegistryInv
<1>2. DOMAIN factories.modules = {registry[i].name : i \in DOMAIN registry}
  BY <1>1 DEF RegistryInv
<1>3. ASSUME NEW name \in DOMAIN factories.modules
      PROVE  /\ factories.modules[name] = LastRegistered(registry, name)
             /\ factories.modules[name] \in ModuleKinds
  <2>1. PICK i \in 1..Len(registry) :
          IsLatest(i, name, Len(registry)) /\ factories.modules[name] = registry[i].creates
    BY <1>3 DEF RegistryInv
  <2> QED BY <2>1, LatestIsLast, RegistryType
<1> QED BY <1>2, <1>3

LEMMA CreatableIsModule ==
  ASSUME RegistryInv, registered = Len(registry), NEW j
  PROVE  /\ Creatable(j) <=> IsModuleOf(j, registry)
         /\ Creatable(j) => /\ factories.modules[j.module] = LastRegistered(registry, j.module)
                            /\ factories.modules[j.module] \in ModuleKinds
<1>1. j.module \in DOMAIN factories.modules
      <=> \E i \in DOMAIN registry : registry[i].name = j.module
  BY FactoriesAreLast
<1>2. j.module \in DOMAIN factories.modules =>
        /\ factories.modules[j.module] = LastRegistered(registry, j.module)
        /\ factories.modules[j.module] \in ModuleKinds
  BY FactoriesAreLast
<1> QED BY <1>1, <1>2 DEF Creatable, IsModuleOf

LEMMA SpecType ==
  ASSUME RegistryInv, registered = Len(registry), NEW j, IsModuleOf(j, registry)
  PROVE  /\ SpecIn(j, registry) \in [module : ModuleKinds, subscriptions : Seq(Subscription)]
         /\ SpecIn(j, registry).module = LastRegistered(registry, j.module)
         /\ IsWriterModule(j)
<1> DEFINE kind   == LastRegistered(registry, j.module)
           config == ConfigOf(j)
<1>1. kind \in ModuleKinds /\ ConfigParses(kind, config) /\ IsWriterModule(j)
  BY CreatableIsModule DEF IsModuleOf
<1>2. SpecIn(j, registry) = [module |-> kind, subscriptions |->
        IF kind = "NXevent_data" THEN <<[topic |-> config, key |-> All]>> ELSE <<>>]
  BY DEF SpecIn, SpecOf
<1>3. kind = "NXevent_data" => [topic |-> config, key |-> All] \in Subscription
  BY <1>1 DEF ConfigParses, Subscription
<1> HIDE DEF kind, config
<1>4. <<>> \in Seq(Subscription)
      /\ (kind = "NXevent_data" => <<[topic |-> config, key |-> All]>> \in Seq(Subscription))
  BY <1>3
<1> DEFINE subs == IF kind = "NXevent_data" THEN <<[topic |-> config, key |-> All]>> ELSE <<>>
<1>5. subs \in Seq(Subscription) /\ SpecIn(j, registry) = [module |-> kind, subscriptions |-> subs]
  BY <1>2, <1>4
<1> HIDE DEF subs
<1> QED BY <1>1, <1>5 DEF kind

LEMMA RegistryRegister ==
  ASSUME RegistryInv, Register
  PROVE  RegistryInv'
<1> DEFINE n == registered
           M == registry[n + 1]
<1>1. /\ n \in Nat /\ n + 1 \in 1..Len(registry) /\ n \in 0..Len(registry)
      /\ registered' = n + 1 /\ Len(registry) \in Nat
  BY RegistryType DEF RegistryInv, Register
<1>2. /\ document' = document /\ registry' = registry /\ run' = run /\ ascii_path' = ascii_path
      /\ phase' = phase /\ phase = "starting"
  BY DEF Register, input
<1>3. factories'.modules = Insert(factories.modules, M.name, M.creates)
  BY DEF Register, RegisterModule
<1>4. 1..(n + 1) = (1..n) \cup {n + 1} /\ n + 1 \notin 1..n
  BY <1>1
<1>5. DOMAIN factories'.modules = {registry[i].name : i \in 1..(n + 1)}
  BY <1>1, <1>3, <1>4 DEF RegistryInv, Insert
<1>6. ASSUME NEW name \in DOMAIN factories'.modules
      PROVE  \E i \in 1..(n + 1) :
               IsLatest(i, name, n + 1) /\ factories'.modules[name] = registry[i].creates
  <2>1. CASE name = M.name
    <3>1. factories'.modules[name] = M.creates
      BY <1>3, <2>1 DEF Insert
    <3>2. IsLatest(n + 1, name, n + 1)
      BY <1>1, <1>4, <2>1 DEF IsLatest
    <3> QED BY <1>1, <1>4, <3>1, <3>2
  <2>2. CASE name # M.name
    <3>1. name \in DOMAIN factories.modules /\ factories'.modules[name] = factories.modules[name]
      BY <1>3, <1>6, <2>2 DEF Insert
    <3>2. PICK i \in 1..n : IsLatest(i, name, n) /\ factories.modules[name] = registry[i].creates
      BY <3>1 DEF RegistryInv
    <3>3. IsLatest(i, name, n + 1)
      BY <1>4, <2>2, <3>2 DEF IsLatest
    <3> QED BY <1>4, <3>1, <3>2, <3>3
  <2> QED BY <2>1, <2>2
<1>7. \A i, name : IsLatest(i, name, registered)' <=> IsLatest(i, name, n + 1)
  BY <1>1, <1>2 DEF IsLatest
<1> HIDE DEF n
<1>8. registered' \in 0..Len(registry)
  BY <1>1
<1> QED BY <1>1, <1>2, <1>5, <1>6, <1>7, <1>8 DEF RegistryInv

LEMMA RegistrySame ==
  ASSUME RegistryInv, UNCHANGED <<input, registration>>,
         phase' # "starting" => phase # "starting" \/ registered = Len(registry)
  PROVE  RegistryInv'
<1>1. /\ document' = document /\ registry' = registry /\ run' = run /\ ascii_path' = ascii_path
      /\ registered' = registered /\ factories' = factories
  BY DEF input, registration
<1>2. \A i, name : IsLatest(i, name, registered)' <=> IsLatest(i, name, registered)
  BY <1>1 DEF IsLatest
<1> QED BY <1>1, <1>2 DEF RegistryInv

-----------------------------------------------------------------------------
(***************************************************************************)
(* The stack.                                                              *)
(***************************************************************************)
LEMMA SameDocument ==
  ASSUME UNCHANGED <<document, registry>>
  PROVE  /\ Reached' = Reached
         /\ \A n : /\ IsPlace(n)' <=> IsPlace(n)
                   /\ IsEvents(n)' <=> IsEvents(n)
                   /\ ObjectsOf(n)' = ObjectsOf(n)
                   /\ AttributesOf(n)' = AttributesOf(n)
                   /\ StringsOf(n)' = StringsOf(n)
<1>1. Reached' = Reached
  BY DEF Reached
<1>2. \A n : /\ IsPlace(n)' <=> IsPlace(n)
             /\ IsEvents(n)' <=> IsEvents(n)
             /\ StringsOf(n)' = StringsOf(n)
  BY DEF IsPlace, IsEvents, StringsOf
<1>3. \A n : ObjectsOf(n)' = ObjectsOf(n)
  BY <1>2 DEF ObjectsOf
<1>4. \A n : AttributesOf(n)' = AttributesOf(n)
  BY <1>2 DEF AttributesOf
<1> QED BY <1>1, <1>2, <1>3, <1>4

LEMMA SameFrames ==
  ASSUME UNCHANGED <<document, registry>>, objects \subseteq objects'
  PROVE  /\ \A i : FrameOK(stack'[i]) => FrameOK(stack[i])'
         /\ \A i, j : Calls(stack'[i], stack'[j]) => Calls(stack[i], stack[j])'
<1>1. Reached' = Reached /\ \A n : IsPlace(n)' <=> IsPlace(n)
  BY SameDocument
<1> QED BY <1>1 DEF FrameOK, Calls

LEMMA TopType ==
  ASSUME StackInv
  PROVE  /\ Len(stack) \in Nat \ {0} /\ Top \in FrameType /\ FrameOK(Top)
         /\ Top.node \in Nat /\ Top.next \in Nat
<1>1. Len(stack) \in Nat \ {0}
  BY DEF StackInv
<1>2. Top \in FrameType /\ FrameOK(Top)
  BY <1>1 DEF StackInv, Top
<1> QED BY <1>1, <1>2 DEF FrameType

LEMMA StackSame ==
  ASSUME StackInv, UNCHANGED <<document, registry, stack>>, objects \subseteq objects'
  PROVE  StackInv'
BY SameFrames DEF StackInv

\* The innermost call goes on, with other attributes or another child to come.
LEMMA ReplaceTop ==
  ASSUME StackInv, NEW g \in FrameType, FrameOK(g), g.node = Top.node,
         UNCHANGED <<document, registry>>, objects \subseteq objects',
         stack' = [stack EXCEPT ![Len(stack)] = g]
  PROVE  StackInv' /\ Len(stack') = Len(stack) /\ Top' = g
<1>0. PICK n \in Nat \ {0} : n = Len(stack)
  BY TopType
<1>s. /\ stack[1].node = 0 /\ Top = stack[n] /\ \A i \in 1..n : FrameOK(stack[i])
      /\ \A i \in 1..(n - 1) : Calls(stack[i], stack[i + 1])
  BY <1>0 DEF StackInv, Top
<1>1. stack \in Seq(FrameType)
  BY DEF StackInv
<1>2. /\ stack' \in Seq(FrameType) /\ Len(stack') = n /\ stack'[n] = g
      /\ \A i \in 1..n : i # n => stack'[i] = stack[i]
  BY <1>0, <1>1
<1>3. stack' # <<>> /\ Top' = g
  BY <1>1, <1>2 DEF Top
<1>4. stack'[1].node = 0
  <2>1. CASE n = 1
    BY <1>2, <1>s, <2>1
  <2>2. CASE n # 1
    BY <1>2, <1>s, <2>2
  <2> QED BY <2>1, <2>2
<1>5. \A i \in 1..n : FrameOK(stack'[i])
  BY <1>2, <1>s
<1>6. ASSUME NEW i \in 1..(n - 1)
      PROVE  Calls(stack'[i], stack'[i + 1])
  <2>1. Calls(stack[i], stack[i + 1]) /\ stack'[i] = stack[i]
    BY <1>2, <1>6, <1>s
  <2>2. CASE i + 1 = n
    BY <1>2, <1>s, <2>1, <2>2 DEF Calls
  <2>3. CASE i + 1 # n
    BY <1>1, <1>2, <2>1, <2>3
  <2> QED BY <2>2, <2>3
<1>7. \A i \in 1..n : FrameOK(stack[i])'
  BY <1>5, SameFrames
<1>8. \A i \in 1..(n - 1) : Calls(stack[i], stack[i + 1])'
  BY <1>6, SameFrames
<1> QED BY <1>0, <1>2, <1>3, <1>4, <1>7, <1>8 DEF StackInv

\* A call is made for the child that the innermost call has just gone past.
LEMMA PushFrame ==
  ASSUME StackInv, NEW g \in FrameType, FrameOK(g), g.node = Top.node,
         NEW h \in FrameType, FrameOK(h), g.attributes = {},
         g.next = document.last[h.node] + 1, g.node \in Above(document, h.node),
         g.node = Parent(document, h.node), <<g.group, document.nodes[h.node].name>> \in objects',
         UNCHANGED <<document, registry>>, objects \subseteq objects',
         stack' = Append([stack EXCEPT ![Len(stack)] = g], h)
  PROVE  StackInv' /\ Len(stack') = Len(stack) + 1 /\ Top' = h
<1>0. PICK n \in Nat \ {0} : n = Len(stack)
  BY TopType
<1>s. /\ stack[1].node = 0 /\ Top = stack[n] /\ \A i \in 1..n : FrameOK(stack[i])
      /\ \A i \in 1..(n - 1) : Calls(stack[i], stack[i + 1])
  BY <1>0 DEF StackInv, Top
<1> DEFINE rest == [stack EXCEPT ![Len(stack)] = g]
<1>1. stack \in Seq(FrameType)
  BY DEF StackInv
<1>2. /\ rest \in Seq(FrameType) /\ Len(rest) = n /\ rest[n] = g
      /\ \A i \in 1..n : i # n => rest[i] = stack[i]
  BY <1>0, <1>1
<1>3. stack' = Append(rest, h)
  OBVIOUS
<1> HIDE DEF rest
<1>4. /\ stack' \in Seq(FrameType) /\ Len(stack') = n + 1 /\ stack'[n + 1] = h
      /\ \A i \in 1..n : stack'[i] = rest[i]
  BY <1>1, <1>2, <1>3
<1>5. stack' # <<>> /\ Top' = h
  BY <1>1, <1>4 DEF Top
<1>6. stack'[1].node = 0
  <2>1. CASE n = 1
    <3>1. stack'[1] = rest[1] /\ rest[1] = g
      BY <1>2, <1>4, <2>1
    <3> QED BY <1>s, <2>1, <3>1
  <2>2. CASE n # 1
    BY <1>2, <1>4, <1>s, <2>2
  <2> QED BY <2>1, <2>2
<1>7. ASSUME NEW i \in 1..(n + 1)
      PROVE  FrameOK(stack[i])'
  <2>1. FrameOK(stack'[i])
    BY <1>2, <1>4, <1>7, <1>s
  <2> QED BY <2>1, SameFrames
<1>8. ASSUME NEW i \in 1..n
      PROVE  Calls(stack[i], stack[i + 1])'
  <2>1. CASE i = n
    <3>1. stack'[i] = g /\ stack'[i + 1] = h
      BY <1>2, <1>4, <2>1
    <3> QED BY <3>1 DEF Calls
  <2>2. CASE i # n
    <3>1. i \in 1..(n - 1) /\ i + 1 \in 1..n
      BY <1>1, <1>8, <2>2
    <3>2. Calls(stack[i], stack[i + 1])
      BY <1>s, <3>1
    <3>3. stack'[i] = stack[i] /\ stack'[i + 1] = rest[i + 1]
      BY <1>2, <1>4, <1>8, <2>2, <3>1
    <3>4. Calls(stack'[i], stack'[i + 1])
      <4>1. CASE i + 1 = n
        <5>1. stack'[i + 1] = g /\ g.node = stack[i + 1].node
          BY <1>2, <1>s, <3>3, <4>1
        <5> QED BY <3>2, <3>3, <5>1 DEF Calls
      <4>2. CASE i + 1 # n
        BY <1>2, <3>1, <3>2, <3>3, <4>2
      <4> QED BY <4>1, <4>2
    <3> QED BY <3>4, SameFrames
  <2> QED BY <2>1, <2>2
<1>9. Len(stack') - 1 = n
  BY <1>1, <1>4
<1> QED BY <1>0, <1>4, <1>5, <1>6, <1>7, <1>8, <1>9 DEF StackInv

\* The innermost call returns to the one that goes on where it stopped.
LEMMA PopFrame ==
  ASSUME StackInv, Len(stack) > 1, ~HasChild, document \in Documents,
         UNCHANGED <<document, registry, objects>>,
         stack' = SubSeq(stack, 1, Len(stack) - 1)
  PROVE  /\ StackInv' /\ Len(stack') = Len(stack) - 1
         /\ Top'.next = Top.next /\ Top'.attributes = {}
<1>0. PICK n \in Nat \ {0} : n = Len(stack)
  BY TopType
<1>s. /\ stack[1].node = 0 /\ Top = stack[n] /\ \A i \in 1..n : FrameOK(stack[i])
      /\ \A i \in 1..(n - 1) : Calls(stack[i], stack[i + 1])
  BY <1>0 DEF StackInv, Top
<1>1. n > 1 /\ stack \in Seq(FrameType)
  BY <1>0 DEF StackInv
<1>2. /\ stack' \in Seq(FrameType) /\ Len(stack') = n - 1
      /\ \A i \in 1..(n - 1) : stack'[i] = stack[i]
  BY <1>0, <1>1
<1>3. stack' # <<>> /\ Top' = stack[n - 1] /\ stack'[1].node = 0
  <2>1. stack' # <<>> /\ Top' = stack'[n - 1]
    <3>1. Len(stack') # 0
      BY <1>0, <1>1, <1>2
    <3>2. stack' # <<>>
      BY <3>1
    <3> QED BY <1>2, <3>2 DEF Top
  <2>2. 1 \in 1..(n - 1) /\ n - 1 \in 1..(n - 1)
    BY <1>1
  <2> QED BY <1>2, <1>s, <2>1, <2>2
<1>4. \A i \in 1..(n - 1) : FrameOK(stack[i])'
  <2>1. \A i \in 1..(n - 1) : i \in 1..n
    BY <1>1
  <2> QED BY <1>2, <1>s, <2>1, SameFrames
<1>5. ASSUME NEW i \in 1..(n - 2)
      PROVE  Calls(stack[i], stack[i + 1])'
  <2>1. Calls(stack[i], stack[i + 1])
    BY <1>1, <1>5, <1>s
  <2>2. stack'[i] = stack[i] /\ stack'[i + 1] = stack[i + 1]
    BY <1>1, <1>2, <1>5
  <2> QED BY <2>1, <2>2, SameFrames
<1>6. Len(stack') - 1 = n - 2
  BY <1>1, <1>2
<1>7. StackInv'
  BY <1>2, <1>3, <1>4, <1>5, <1>6 DEF StackInv
<1>8. Calls(stack[n - 1], Top)
  <2>1. n - 1 \in 1..(n - 1) /\ (n - 1) + 1 = n
    BY <1>1
  <2> QED BY <1>s, <2>1
<1>9. Top.next = document.last[Top.node] + 1
  <2>1. Top.node \in 0..document.last[0] /\ Top.next <= document.last[Top.node] + 1
    BY TopType, Numbers DEF FrameOK, Reached, ReachedIn
  <2> QED BY <2>1, TopType, Numbers DEF HasChild
<1> QED BY <1>0, <1>2, <1>3, <1>7, <1>8, <1>9 DEF Calls

-----------------------------------------------------------------------------
(***************************************************************************)
(* The shares.                                                             *)
(***************************************************************************)
LEMMA ShareSame ==
  ASSUME NEW share, NEW S, IsSharedOut(share, S), NEW new, DOMAIN new = DOMAIN share,
         \A n \in DOMAIN share : new[n] = share[n]
  PROVE  IsSharedOut(new, S)
BY DEF IsSharedOut

LEMMA ShareEmpty ==
  ASSUME NEW share, NEW S, IsSharedOut(share, S), NEW new, NEW c,
         DOMAIN new = DOMAIN share \cup {c}, new[c] = {},
         \A n \in DOMAIN share : new[n] = share[n]
  PROVE  IsSharedOut(new, S)
BY DEF IsSharedOut

LEMMA ShareGrows ==
  ASSUME NEW share, NEW S, IsSharedOut(share, S), NEW new, NEW c \in DOMAIN share, NEW e,
         e \notin S, DOMAIN new = DOMAIN share, new[c] = share[c] \cup {e},
         \A n \in DOMAIN share : n # c => new[n] = share[n]
  PROVE  IsSharedOut(new, S \cup {e})
<1>1. \A n \in DOMAIN share : e \notin share[n]
  BY DEF IsSharedOut
<1>2. S \cup {e} = UNION {new[n] : n \in DOMAIN new}
  BY DEF IsSharedOut
<1>3. ASSUME NEW m \in DOMAIN new, NEW n \in DOMAIN new, m # n
      PROVE  new[m] \cap new[n] = {}
  <2>1. share[m] \cap share[n] = {}
    BY <1>3 DEF IsSharedOut
  <2> QED BY <1>1, <1>3, <2>1
<1> QED BY <1>2, <1>3 DEF IsSharedOut

LEMMA ShareNew ==
  ASSUME NEW share, NEW S, IsSharedOut(share, S), NEW new, NEW c, c \notin DOMAIN share, NEW e,
         e \notin S, DOMAIN new = DOMAIN share \cup {c}, new[c] = {e},
         \A n \in DOMAIN share : new[n] = share[n]
  PROVE  IsSharedOut(new, S \cup {e})
<1>1. \A n \in DOMAIN share : e \notin share[n]
  BY DEF IsSharedOut
<1>2. S \cup {e} = UNION {new[n] : n \in DOMAIN new}
  BY DEF IsSharedOut
<1> QED BY <1>1, <1>2 DEF IsSharedOut

LEMMA SharesAre ==
  /\ DOMAIN ObjectsMade = Walked
  /\ \A n \in Walked : ObjectsMade[n] = {o \in ObjectsOf(n) : ~DatasetLeft(n, o[2])}
  /\ DOMAIN AttributesMade = Walked \cup {-1}
  /\ \A n \in Walked : AttributesMade[n] = {a \in AttributesOf(n) : ~AttributeLeft(n, a[2])}
  /\ AttributesMade[-1] = {<<0, k>> : k \in Range(DefaultAttributes) \ Range(defaults)}
<1>1. -1 \notin Walked
  BY DEF Walked
<1> QED BY <1>1 DEF ObjectsMade, AttributesMade

LEMMA SharesAreNext ==
  ASSUME UNCHANGED <<document, registry>>
  PROVE  /\ DOMAIN ObjectsMade' = Walked'
         /\ \A n \in Walked' : ObjectsMade'[n] = {o \in ObjectsOf(n) : ~DatasetLeft(n, o[2])'}
         /\ DOMAIN AttributesMade' = Walked' \cup {-1}
         /\ \A n \in Walked' :
              AttributesMade'[n] = {a \in AttributesOf(n) : ~AttributeLeft(n, a[2])'}
         /\ AttributesMade'[-1] = {<<0, k>> : k \in Range(DefaultAttributes) \ Range(defaults')}
<1>1. -1 \notin Walked'
  BY DEF Walked
<1>2. \A n : ObjectsOf(n)' = ObjectsOf(n) /\ AttributesOf(n)' = AttributesOf(n)
  BY SameDocument
<1> QED BY <1>1, <1>2 DEF ObjectsMade, AttributesMade

\* Of these objects, or attributes, nothing more is made.
LEMMA ObjectsKept ==
  ASSUME IsSharedOut(ObjectsMade, objects), UNCHANGED <<document, registry, objects>>,
         Walked' = Walked,
         \A n \in Walked : \A o \in ObjectsOf(n) : DatasetLeft(n, o[2])' <=> DatasetLeft(n, o[2])
  PROVE  IsSharedOut(ObjectsMade', objects')
<1>1. ASSUME NEW n \in Walked PROVE ObjectsMade'[n] = ObjectsMade[n]
  <2>1. ObjectsMade[n] = {o \in ObjectsOf(n) : ~DatasetLeft(n, o[2])}
    BY SharesAre
  <2>2. ObjectsMade'[n] = {o \in ObjectsOf(n) : ~DatasetLeft(n, o[2])'}
    BY SharesAreNext
  <2> QED BY <2>1, <2>2
<1>2. DOMAIN ObjectsMade' = DOMAIN ObjectsMade /\ DOMAIN ObjectsMade = Walked
  BY SharesAre, SharesAreNext
<1> QED BY <1>1, <1>2, ShareSame

LEMMA AttributesKept ==
  ASSUME IsSharedOut(AttributesMade, attrs), UNCHANGED <<document, registry, attrs, defaults>>,
         Walked' = Walked,
         \A n \in Walked : \A a \in AttributesOf(n) :
           AttributeLeft(n, a[2])' <=> AttributeLeft(n, a[2])
  PROVE  IsSharedOut(AttributesMade', attrs')
<1>1. ASSUME NEW n \in Walked PROVE AttributesMade'[n] = AttributesMade[n]
  <2>1. AttributesMade[n] = {a \in AttributesOf(n) : ~AttributeLeft(n, a[2])}
    BY SharesAre
  <2>2. AttributesMade'[n] = {a \in AttributesOf(n) : ~AttributeLeft(n, a[2])'}
    BY SharesAreNext
  <2> QED BY <1>1, <2>1, <2>2
<1>2. AttributesMade'[-1] = AttributesMade[-1]
  BY SharesAre, SharesAreNext
<1>3. DOMAIN AttributesMade' = DOMAIN AttributesMade /\ DOMAIN AttributesMade = Walked \cup {-1}
  BY SharesAre, SharesAreNext
<1> QED BY <1>1, <1>2, <1>3, ShareSame

\* Nor anything of a child that the walk comes to.
LEMMA ObjectsAhead ==
  ASSUME IsSharedOut(ObjectsMade, objects), UNCHANGED <<document, registry, objects>>,
         NEW c, Walked' = Walked \cup {c}, c \notin Walked,
         \A n \in Walked : \A name : DatasetLeft(n, name)' <=> DatasetLeft(n, name),
         \A o \in ObjectsOf(c) : DatasetLeft(c, o[2])'
  PROVE  IsSharedOut(ObjectsMade', objects')
<1>1. ASSUME NEW n \in Walked PROVE ObjectsMade'[n] = ObjectsMade[n]
  <2>1. ObjectsMade[n] = {o \in ObjectsOf(n) : ~DatasetLeft(n, o[2])}
    BY SharesAre
  <2>2. ObjectsMade'[n] = {o \in ObjectsOf(n) : ~DatasetLeft(n, o[2])'}
    BY SharesAreNext
  <2> QED BY <1>1, <2>1, <2>2
<1>2. DOMAIN ObjectsMade' = DOMAIN ObjectsMade \cup {c} /\ DOMAIN ObjectsMade = Walked
  BY SharesAre, SharesAreNext
<1>3. ObjectsMade'[c] = {}
  BY SharesAreNext
<1> QED BY <1>1, <1>2, <1>3, ShareEmpty

LEMMA AttributesAhead ==
  ASSUME IsSharedOut(AttributesMade, attrs), UNCHANGED <<document, registry, attrs, defaults>>,
         NEW c, Walked' = Walked \cup {c}, c \notin Walked,
         \A n \in Walked : \A name : AttributeLeft(n, name)' <=> AttributeLeft(n, name),
         \A a \in AttributesOf(c) : AttributeLeft(c, a[2])'
  PROVE  IsSharedOut(AttributesMade', attrs')
<1>1. ASSUME NEW n \in Walked PROVE AttributesMade'[n] = AttributesMade[n]
  <2>1. AttributesMade[n] = {a \in AttributesOf(n) : ~AttributeLeft(n, a[2])}
    BY SharesAre
  <2>2. AttributesMade'[n] = {a \in AttributesOf(n) : ~AttributeLeft(n, a[2])'}
    BY SharesAreNext
  <2> QED BY <1>1, <2>1, <2>2
<1>2. AttributesMade'[-1] = AttributesMade[-1]
  BY SharesAre, SharesAreNext
<1>3. DOMAIN AttributesMade' = DOMAIN AttributesMade \cup {c}
      /\ DOMAIN AttributesMade = Walked \cup {-1}
  BY SharesAre, SharesAreNext
<1>4. AttributesMade'[c] = {}
  BY SharesAreNext
<1> QED BY <1>1, <1>2, <1>3, <1>4, ShareEmpty

\* A dataset or an attribute of object c is made.
LEMMA ObjectMade ==
  ASSUME IsSharedOut(ObjectsMade, objects), UNCHANGED <<document, registry>>,
         NEW c \in Walked, NEW o \in ObjectsOf(c), o \notin objects, objects' = objects \cup {o},
         Walked' = Walked,
         \A n \in Walked : \A p \in ObjectsOf(n) :
           DatasetLeft(n, p[2])' <=> DatasetLeft(n, p[2]) /\ ~(n = c /\ p = o),
         DatasetLeft(c, o[2])
  PROVE  IsSharedOut(ObjectsMade', objects')
<1>1. ASSUME NEW n \in Walked, n # c PROVE ObjectsMade'[n] = ObjectsMade[n]
  <2>1. ObjectsMade[n] = {p \in ObjectsOf(n) : ~DatasetLeft(n, p[2])}
    BY SharesAre
  <2>2. ObjectsMade'[n] = {p \in ObjectsOf(n) : ~DatasetLeft(n, p[2])'}
    BY SharesAreNext
  <2> QED BY <1>1, <2>1, <2>2
<1>2. DOMAIN ObjectsMade' = DOMAIN ObjectsMade /\ DOMAIN ObjectsMade = Walked
  BY SharesAre, SharesAreNext
<1>3. ObjectsMade'[c] = ObjectsMade[c] \cup {o}
  BY SharesAre, SharesAreNext
<1> QED BY <1>1, <1>2, <1>3, ShareGrows

LEMMA AttributeMade ==
  ASSUME IsSharedOut(AttributesMade, attrs), UNCHANGED <<document, registry, defaults>>,
         NEW c \in Walked, NEW e \in AttributesOf(c), e \notin attrs, attrs' = attrs \cup {e},
         Walked' = Walked,
         \A n \in Walked : \A a \in AttributesOf(n) :
           AttributeLeft(n, a[2])' <=> AttributeLeft(n, a[2]) /\ ~(n = c /\ a = e),
         AttributeLeft(c, e[2])
  PROVE  IsSharedOut(AttributesMade', attrs')
<1>1. ASSUME NEW n \in Walked, n # c PROVE AttributesMade'[n] = AttributesMade[n]
  <2>1. AttributesMade[n] = {a \in AttributesOf(n) : ~AttributeLeft(n, a[2])}
    BY SharesAre
  <2>2. AttributesMade'[n] = {a \in AttributesOf(n) : ~AttributeLeft(n, a[2])'}
    BY SharesAreNext
  <2> QED BY <1>1, <2>1, <2>2
<1>2. AttributesMade'[-1] = AttributesMade[-1]
  BY SharesAre, SharesAreNext
<1>3. DOMAIN AttributesMade' = DOMAIN AttributesMade /\ DOMAIN AttributesMade = Walked \cup {-1}
  BY SharesAre, SharesAreNext
<1>4. AttributesMade'[c] = AttributesMade[c] \cup {e}
  BY SharesAre, SharesAreNext
<1>5. c # -1
  BY DEF Walked
<1> QED BY <1>1, <1>2, <1>3, <1>4, <1>5, ShareGrows

\* The group that object c stands for is made.
LEMMA GroupMade ==
  ASSUME IsSharedOut(ObjectsMade, objects), UNCHANGED <<document, registry>>,
         NEW c, Walked' = Walked \cup {c}, c \notin Walked,
         NEW o, ObjectsOf(c) = {o}, o \notin objects, objects' = objects \cup {o},
         \A n \in Walked : \A name : DatasetLeft(n, name)' <=> DatasetLeft(n, name),
         ~DatasetLeft(c, o[2])'
  PROVE  IsSharedOut(ObjectsMade', objects')
<1>1. ASSUME NEW n \in Walked PROVE ObjectsMade'[n] = ObjectsMade[n]
  <2>1. ObjectsMade[n] = {p \in ObjectsOf(n) : ~DatasetLeft(n, p[2])}
    BY SharesAre
  <2>2. ObjectsMade'[n] = {p \in ObjectsOf(n) : ~DatasetLeft(n, p[2])'}
    BY SharesAreNext
  <2> QED BY <1>1, <2>1, <2>2
<1>2. DOMAIN ObjectsMade' = DOMAIN ObjectsMade \cup {c} /\ DOMAIN ObjectsMade = Walked
  BY SharesAre, SharesAreNext
<1>3. ObjectsMade'[c] = {o}
  BY SharesAreNext
<1> QED BY <1>1, <1>2, <1>3, ShareNew

\* The next default attribute is made.
LEMMA DefaultMade ==
  ASSUME IsSharedOut(AttributesMade, attrs), UNCHANGED <<document, registry>>,
         NEW k \in Range(DefaultAttributes), Range(defaults) = Range(defaults') \cup {k},
         k \notin Range(defaults'), <<0, k>> \notin attrs, attrs' = attrs \cup {<<0, k>>},
         Walked' = Walked,
         \A n \in Walked : \A a \in AttributesOf(n) :
           AttributeLeft(n, a[2])' <=> AttributeLeft(n, a[2])
  PROVE  IsSharedOut(AttributesMade', attrs')
<1>1. ASSUME NEW n \in Walked PROVE AttributesMade'[n] = AttributesMade[n]
  <2>1. AttributesMade[n] = {a \in AttributesOf(n) : ~AttributeLeft(n, a[2])}
    BY SharesAre
  <2>2. AttributesMade'[n] = {a \in AttributesOf(n) : ~AttributeLeft(n, a[2])'}
    BY SharesAreNext
  <2> QED BY <1>1, <2>1, <2>2
<1>2. AttributesMade'[-1] = AttributesMade[-1] \cup {<<0, k>>}
  BY SharesAre, SharesAreNext
<1>3. DOMAIN AttributesMade' = DOMAIN AttributesMade /\ DOMAIN AttributesMade = Walked \cup {-1}
  BY SharesAre, SharesAreNext
<1> QED BY <1>1, <1>2, <1>3, ShareGrows

LEMMA ItemsKept ==
  ASSUME ItemsInv, UNCHANGED <<document, registry>>, Walked' = Walked,
         \A n \in Walked : \A k \in StringsOf(n) :
           AttributeLeft(n, k) => AttributeLeft(n, k)' \/ document.attributes[n][k] = "ascii"
  PROVE  ItemsInv'
<1>1. Reached' = Reached /\ \A n : (IsPlace(n)' <=> IsPlace(n)) /\ StringsOf(n)' = StringsOf(n)
  BY SameDocument
<1> QED BY <1>1 DEF ItemsInv

LEMMA ItemsAhead ==
  ASSUME ItemsInv, UNCHANGED <<document, registry>>,
         NEW c \in Reached, Walked' = Walked \cup {c}, c \notin Walked,
         IsPlace(c) \/ IsModuleOf(document.nodes[c], registry),
         \A n \in Walked : \A name : AttributeLeft(n, name)' <=> AttributeLeft(n, name),
         \A k \in StringsOf(c) : AttributeLeft(c, k)'
  PROVE  ItemsInv'
<1>1. Reached' = Reached /\ \A n : (IsPlace(n)' <=> IsPlace(n)) /\ StringsOf(n)' = StringsOf(n)
  BY SameDocument
<1> QED BY <1>1 DEF ItemsInv

-----------------------------------------------------------------------------
(***************************************************************************)
(* What a module and the root still have to make, call by call.            *)
(***************************************************************************)
AllEventCalls ==
  { <<"dataset", "event_time_zero">>, <<"dataset", "event_id">>,
    <<"dataset", "event_time_offset">>, <<"attribute", "NX_class">> }

LEMMA RangeOne == ASSUME NEW x1 PROVE Range(<<x1>>) = {x1}
BY DEF Range

LEMMA RangeTwo == ASSUME NEW x1, NEW x2 PROVE Range(<<x1, x2>>) = {x1, x2}
<1>1. DOMAIN <<x1, x2>> = {1, 2}
  OBVIOUS
<1> QED BY <1>1 DEF Range

LEMMA RangeThree == ASSUME NEW x1, NEW x2, NEW x3 PROVE Range(<<x1, x2, x3>>) = {x1, x2, x3}
<1>1. DOMAIN <<x1, x2, x3>> = {1, 2, 3}
  OBVIOUS
<1> QED BY <1>1 DEF Range

LEMMA RangeFour ==
  ASSUME NEW x1, NEW x2, NEW x3, NEW x4
  PROVE  Range(<<x1, x2, x3, x4>>) = {x1, x2, x3, x4}
<1>1. DOMAIN <<x1, x2, x3, x4>> = {1, 2, 3, 4}
  OBVIOUS
<1> QED BY <1>1 DEF Range

LEMMA EventCallsAre ==
  /\ Makes("NXevent_data") \in EventCalls /\ <<>> \in EventCalls
  /\ Range(Makes("NXevent_data")) = AllEventCalls /\ Range(<<>>) = {}
  /\ \A left \in EventCalls : Range(left) \subseteq AllEventCalls
<1>1. Makes("NXevent_data") \in EventCalls /\ <<>> \in EventCalls
  BY DEF Makes, EventCalls
<1>2. Range(Makes("NXevent_data")) = AllEventCalls
  BY RangeFour DEF Makes, AllEventCalls
<1>3. Range(<<>>) = {}
  BY DEF Range
<1>4. \A left \in EventCalls : Range(left) \subseteq AllEventCalls
  BY <1>3, RangeFour, RangeThree, RangeTwo, RangeOne DEF EventCalls, AllEventCalls
<1> QED BY <1>1, <1>2, <1>3, <1>4

LEMMA NextEventCall ==
  ASSUME NEW left \in EventCalls, left # <<>>
  PROVE  /\ Tail(left) \in EventCalls /\ Head(left) \notin Range(Tail(left))
         /\ Range(left) = Range(Tail(left)) \cup {Head(left)}
<1> DEFINE a == <<"dataset", "event_time_zero">>
           b == <<"dataset", "event_id">>
           c == <<"dataset", "event_time_offset">>
           d == <<"attribute", "NX_class">>
<1>1. a # b /\ a # c /\ a # d /\ b # c /\ b # d /\ c # d
  OBVIOUS
<1>2. Range(<<>>) = {}
  BY EventCallsAre
<1>3. EventCalls = {<<a, b, c, d>>, <<b, c, d>>, <<c, d>>, <<d>>, <<>>}
  BY DEF EventCalls
<1> HIDE DEF a, b, c, d
<1>4. CASE left = <<a, b, c, d>>
  <2>1. Head(left) = a /\ Tail(left) = <<b, c, d>>
    BY <1>4
  <2> QED BY <1>1, <1>3, <1>4, <2>1, RangeFour, RangeThree
<1>5. CASE left = <<b, c, d>>
  <2>1. Head(left) = b /\ Tail(left) = <<c, d>>
    BY <1>5
  <2> QED BY <1>1, <1>3, <1>5, <2>1, RangeThree, RangeTwo
<1>6. CASE left = <<c, d>>
  <2>1. Head(left) = c /\ Tail(left) = <<d>>
    BY <1>6
  <2> QED BY <1>1, <1>3, <1>6, <2>1, RangeTwo, RangeOne
<1>7. CASE left = <<d>>
  <2>1. Head(left) = d /\ Tail(left) = <<>>
    BY <1>7
  <2> QED BY <1>2, <1>3, <1>7, <2>1, RangeOne
<1> QED BY <1>3, <1>4, <1>5, <1>6, <1>7

LEMMA NextDefault ==
  ASSUME NEW left \in DefaultsLeft, left # <<>>
  PROVE  /\ Tail(left) \in DefaultsLeft /\ Head(left) \notin Range(Tail(left))
         /\ Range(left) = Range(Tail(left)) \cup {Head(left)}
         /\ Head(left) \in Range(DefaultAttributes) /\ Tail(left) # DefaultAttributes
<1> DEFINE a == "HDF5_Version"
           b == "file_name"
           c == "file_time"
<1>1. a # b /\ a # c /\ b # c
  OBVIOUS
<1>2. Range(<<>>) = {} /\ DefaultAttributes = <<a, b, c>>
      /\ DefaultsLeft = {<<a, b, c>>, <<b, c>>, <<c>>, <<>>}
  BY EventCallsAre DEF DefaultsLeft, DefaultAttributes
<1> HIDE DEF a, b, c
<1>3. Range(DefaultAttributes) = {a, b, c}
  BY <1>2, RangeThree
<1>4. CASE left = <<a, b, c>>
  <2>1. Head(left) = a /\ Tail(left) = <<b, c>> /\ Tail(left) # <<a, b, c>>
    BY <1>4
  <2> QED BY <1>1, <1>2, <1>3, <1>4, <2>1, RangeThree, RangeTwo
<1>5. CASE left = <<b, c>>
  <2>1. Head(left) = b /\ Tail(left) = <<c>> /\ Tail(left) # <<a, b, c>>
    BY <1>5
  <2> QED BY <1>1, <1>2, <1>3, <1>5, <2>1, RangeTwo, RangeOne
<1>6. CASE left = <<c>>
  <2>1. Head(left) = c /\ Tail(left) = <<>> /\ Tail(left) # <<a, b, c>>
    BY <1>6
  <2> QED BY <1>1, <1>2, <1>3, <1>6, <2>1, RangeOne
<1> QED BY <1>2, <1>4, <1>5, <1>6

-----------------------------------------------------------------------------
(***************************************************************************)
(* A call that is refused would have made what another item has made.      *)
(***************************************************************************)
LEMMA WalkType ==
  ASSUME document \in Documents, StackInv
  PROVE  /\ Top.node \in Walked /\ Top.node \in 0..document.last[0] /\ Maker \in Walked
         /\ 0 \in Walked /\ Top.group = Top.node /\ Top.attributes \subseteq AttributeNames
         /\ IsPlace(Top.node) /\ Walked \subseteq Nat
<1>1. /\ Top.node \in Nat /\ Top.next \in Nat /\ Top.node < Top.next /\ Top.group = Top.node
      /\ Top.node \in Reached /\ IsPlace(Top.node)
  BY TopType DEF FrameOK
<1>2. Top.attributes \subseteq AttributeNames
  BY TopType DEF FrameType
<1>3. Top.node \in 0..document.last[0]
  BY <1>1, Numbers DEF Reached, ReachedIn
<1> QED BY <1>1, <1>2, <1>3 DEF Walked, Maker

\* What a structure that can be built says of its items
LEMMA InstantiableItems ==
  ASSUME Instantiable
  PROVE  /\ Parses(document) /\ ascii_path
         /\ \A n \in Reached : IsPlace(n) \/ IsModuleOf(document.nodes[n], registry)
         /\ \A n \in Reached : \A k \in StringsOf(n) : document.attributes[n][k] = "ascii"
         /\ \A n \in Reached : AttributesOf(n) \cap RootAttributes = {}
         /\ \A m, n \in Reached : m # n => ObjectsOf(m) \cap ObjectsOf(n) = {}
         /\ \A m, n \in Reached : m # n => AttributesOf(m) \cap AttributesOf(n) = {}
BY DEF Instantiable

LEMMA ContentsSaid ==
  ASSUME WalkInv
  PROVE  /\ \A o \in objects : \E n \in Walked : o \in ObjectsOf(n) /\ ~DatasetLeft(n, o[2])
         /\ \A a \in attrs : \/ \E n \in Walked : a \in AttributesOf(n) /\ ~AttributeLeft(n, a[2])
                             \/ \E k \in Range(DefaultAttributes) \ Range(defaults) : a = <<0, k>>
         /\ objects \subseteq AllObjects /\ attrs \subseteq AllAttributes
         /\ Walked \subseteq Reached
<1>1. ASSUME NEW o \in objects
      PROVE  \E n \in Walked : o \in ObjectsOf(n) /\ ~DatasetLeft(n, o[2])
  <2>1. PICK n \in Walked : o \in ObjectsMade[n]
    BY SharesAre DEF WalkInv, IsSharedOut
  <2> QED BY <2>1, SharesAre
<1>2. ASSUME NEW a \in attrs
      PROVE  \/ \E n \in Walked : a \in AttributesOf(n) /\ ~AttributeLeft(n, a[2])
             \/ \E k \in Range(DefaultAttributes) \ Range(defaults) : a = <<0, k>>
  <2>1. PICK n \in Walked \cup {-1} : a \in AttributesMade[n]
    BY SharesAre DEF WalkInv, IsSharedOut
  <2> QED BY <2>1, SharesAre
<1>3. Walked \subseteq Reached
  BY DEF WalkInv, ItemsInv
<1>4. objects \subseteq AllObjects
  BY <1>1, <1>3 DEF AllObjects
<1>5. ASSUME NEW a \in attrs
      PROVE  a \in AllAttributes
  <2>1. CASE \E n \in Walked : a \in AttributesOf(n)
    BY <1>3, <2>1 DEF AllAttributes
  <2>2. CASE \E k \in Range(DefaultAttributes) : a = <<0, k>>
    BY <2>2 DEF AllAttributes, RootAttributes
  <2> QED BY <1>2, <2>1, <2>2
<1> QED BY <1>1, <1>2, <1>3, <1>4, <1>5

LEMMA ObjectClash ==
  ASSUME WalkInv, NEW c \in Reached, NEW o \in ObjectsOf(c), o \in objects,
         c \notin Walked \/ DatasetLeft(c, o[2])
  PROVE  ~Instantiable
<1>1. PICK n \in Walked : o \in ObjectsOf(n) /\ ~DatasetLeft(n, o[2])
  BY ContentsSaid
<1>2. n # c /\ n \in Reached
  BY <1>1, ContentsSaid
<1> QED BY <1>1, <1>2, InstantiableItems

LEMMA AttributeClash ==
  ASSUME WalkInv, NEW c \in Walked, NEW a \in AttributesOf(c), a \in attrs,
         AttributeLeft(c, a[2])
  PROVE  ~Instantiable
<1>0. c \in Reached
  BY ContentsSaid
<1>1. CASE \E n \in Walked : a \in AttributesOf(n) /\ ~AttributeLeft(n, a[2])
  <2>1. PICK n \in Walked : a \in AttributesOf(n) /\ ~AttributeLeft(n, a[2])
    BY <1>1
  <2>2. n # c /\ n \in Reached
    BY <2>1, ContentsSaid
  <2> QED BY <1>0, <2>1, <2>2, InstantiableItems
<1>2. CASE \E k \in Range(DefaultAttributes) \ Range(defaults) : a = <<0, k>>
  BY <1>0, <1>2, InstantiableItems DEF RootAttributes
<1> QED BY <1>1, <1>2, ContentsSaid

LEMMA DefaultClash ==
  ASSUME WalkInv, NEW k \in Range(defaults), k \in Range(DefaultAttributes), <<0, k>> \in attrs
  PROVE  ~Instantiable
<1>1. PICK n \in Walked : <<0, k>> \in AttributesOf(n)
  BY ContentsSaid
<1>2. n \in Reached
  BY ContentsSaid
<1> QED BY <1>1, <1>2, InstantiableItems DEF RootAttributes

\* What the groups and modules of the walk put into the file
LEMMA GroupShare ==
  ASSUME NEW n, n # 0, IsGroup(document.nodes[n])
  PROVE  /\ ObjectsOf(n) = {<<Parent(document, n), document.nodes[n].name>>}
         /\ AttributesOf(n) = {<<n, k>> : k \in StringsOf(n)} /\ ~IsEvents(n) /\ IsPlace(n)
<1>1. ~IsEvents(n) /\ IsPlace(n)
  BY Exclusive DEF IsEvents, IsModuleOf, IsPlace
<1> QED BY <1>1 DEF ObjectsOf, AttributesOf

LEMMA PlaceShare ==
  ASSUME NEW n, IsPlace(n)
  PROVE  AttributesOf(n) = {<<n, k>> : k \in StringsOf(n)} /\ ~IsEvents(n)
<1>1. CASE n = 0
  BY <1>1 DEF AttributesOf, IsEvents, IsPlace
<1>2. CASE n # 0
  BY <1>2, GroupShare DEF IsPlace
<1> QED BY <1>1, <1>2

LEMMA EventsShare ==
  ASSUME NEW n, IsEvents(n)
  PROVE  /\ ObjectsOf(n) = {<<Parent(document, n), name>> : name \in Datasets}
         /\ AttributesOf(n) = {<<Parent(document, n), "NX_class">>}
BY DEF ObjectsOf, AttributesOf

LEMMA RefusedIsUnbuildable ==
  ASSUME NexusInv, Refuse
  PROVE  ~Instantiable /\ phase \in {"walking", "root"}
<1>1. phase \in {"walking", "root"}
  BY DEF Refuse, RefuseChild, RefuseGroup, RefuseAttribute, RefuseModule, AtChild, AtAttribute,
         AtDefault, Making
<1> SUFFICES ASSUME Instantiable PROVE FALSE
  BY <1>1
<1>2. /\ RegistryInv /\ StackInv /\ MakingInv /\ RootInv /\ WalkInv /\ document \in Documents
      /\ registered = Len(registry) /\ ascii_path \in BOOLEAN
  BY <1>1 DEF NexusInv, RegistryInv, Begun, Running
<1>3. CASE RefuseChild \/ RefuseGroup
  <2> DEFINE c == Top.next
  <2>1. HasChild /\ AtChild
    BY <1>3 DEF RefuseChild, RefuseGroup, AtChild
  <2>2. c \in 1..document.last[0] /\ c \in Reached /\ Top.node = Parent(document, c)
    BY <1>2, <2>1, TopType, NextIsChild DEF HasChild
  <2>3. c # 0 /\ c \notin Walked
    BY <2>2 DEF Walked
  <2>4. CASE RefuseChild
    <3>1. ~IsPlace(c) /\ ~IsModuleOf(document.nodes[c], registry)
      BY <1>2, <2>3, <2>4, CreatableIsModule DEF RefuseChild, IsPlace, Child
    <3> QED BY <2>2, <3>1, InstantiableItems
  <2>5. CASE RefuseGroup
    <3>1. IsGroup(document.nodes[c]) /\ <<Top.group, document.nodes[c].name>> \in objects
      BY <2>5 DEF RefuseGroup, ObjectFits, Child
    <3>2. <<Top.group, document.nodes[c].name>> \in ObjectsOf(c)
      BY <1>2, <2>2, <2>3, <3>1, GroupShare, WalkType
    <3> QED BY <1>2, <2>2, <2>3, <3>1, <3>2, ObjectClash
  <2> QED BY <1>3, <2>4, <2>5
<1>4. CASE RefuseAttribute
  <2>1. CASE \E k \in AttributeNames :
               AtAttribute(k) /\ Attribute(k) # "other" /\ ~AttributeFits(k, Attribute(k))
    <3>1. PICK k \in AttributeNames :
            AtAttribute(k) /\ Attribute(k) # "other" /\ ~AttributeFits(k, Attribute(k))
      BY <2>1
    <3>2. k \in Top.attributes /\ Top.node \in Reached
      BY <1>2, <3>1, TopType DEF AtAttribute, FrameOK
    <3>3. Top.attributes \subseteq DOMAIN document.attributes[Top.node]
      BY <1>2 DEF RootInv
    <3>4. k \in StringsOf(Top.node)
      BY <3>1, <3>2, <3>3 DEF StringsOf, Attribute
    <3>5. CASE Attribute(k) # "ascii"
      BY <3>2, <3>4, <3>5, InstantiableItems DEF Attribute
    <3>6. CASE <<Top.group, k>> \in attrs
      <4>1. <<Top.group, k>> \in AttributesOf(Top.node)
        BY <1>2, <3>4, PlaceShare, WalkType
      <4>2. AttributeLeft(Top.node, k)
        BY <3>2 DEF AttributeLeft
      <4> QED BY <1>2, <3>6, <4>1, <4>2, AttributeClash, WalkType
    <3> QED BY <3>1, <3>5, <3>6 DEF AttributeFits
  <2>2. CASE \E k \in Range(DefaultAttributes) : AtDefault(k) /\ ~AttributeFits(k, DefaultValue(k))
    <3>1. PICK k \in Range(DefaultAttributes) : AtDefault(k) /\ ~AttributeFits(k, DefaultValue(k))
      BY <2>2
    <3>2. k \in Range(defaults)
      BY <1>2, <3>1, NextDefault DEF AtDefault, RootInv
    <3>3. CASE DefaultValue(k) # "ascii"
      BY <3>3, InstantiableItems DEF DefaultValue
    <3>4. CASE <<Top.group, k>> \in attrs
      <4>1. Top.group = 0
        BY <1>2, <3>1, WalkType DEF AtDefault, RootInv, StackInv, Top
      <4> QED BY <1>2, <3>2, <3>4, <4>1, DefaultClash
    <3> QED BY <3>1, <3>3, <3>4 DEF AttributeFits
  <2> QED BY <1>4, <2>1, <2>2 DEF RefuseAttribute
<1>5. CASE RefuseModule
  <2> DEFINE c == Maker
  <2>1. /\ making # None /\ making.left \in EventCalls /\ making.left # <<>>
    BY <1>2, <1>5 DEF RefuseModule, Making, MakingInv
  <2>2. IsEvents(c) /\ Parent(document, c) = Top.node /\ c \in Walked /\ Top.group = Top.node
    BY <1>2, <2>1, WalkType DEF MakingInv
  <2>3. Head(making.left) \in Left
    BY <2>1, NextEventCall DEF Left
  <2>4. ASSUME NEW name \in Datasets, Making("dataset", name), ~ObjectFits(name)
        PROVE  ~Instantiable
    <3>1. DatasetLeft(c, name) /\ <<Top.node, name>> \in objects
      BY <2>2, <2>3, <2>4 DEF Making, ObjectFits, DatasetLeft
    <3>2. <<Top.node, name>> \in ObjectsOf(c)
      BY <2>2, EventsShare
    <3> QED BY <1>2, <2>2, <3>1, <3>2, ObjectClash, ContentsSaid
  <2>5. CASE Making("attribute", "NX_class") /\ ~AttributeFits("NX_class", "ascii")
    <3>1. AttributeLeft(c, "NX_class") /\ <<Top.node, "NX_class">> \in attrs
      BY <2>2, <2>3, <2>5 DEF Making, AttributeFits, AttributeLeft
    <3>2. <<Top.node, "NX_class">> \in AttributesOf(c)
      BY <2>2, EventsShare
    <3> QED BY <1>2, <2>2, <3>1, <3>2, AttributeClash
  <2> QED BY <1>5, <2>4, <2>5 DEF RefuseModule
<1> QED BY <1>3, <1>4, <1>5 DEF Refuse

\* The attribute that a call was made for is one of the structure.
LEMMA NextAttributeSaid ==
  ASSUME NexusInv, NEW k,
         \/ AtAttribute(k)
         \/ AtDefault(k) /\ k \in Range(DefaultAttributes)
         \/ Making("attribute", "NX_class") /\ k = "NX_class",
         AtAttribute(k) => Attribute(k) = "ascii"
  PROVE  <<Top.group, k>> \in AllAttributes
<1>1. phase \in {"walking", "root"}
  BY DEF AtAttribute, AtDefault, Making
<1>2. /\ StackInv /\ MakingInv /\ RootInv /\ WalkInv /\ document \in Documents
  BY <1>1 DEF NexusInv, RegistryInv, Begun, Running
<1>3. CASE AtAttribute(k)
  <2>1. k \in Top.attributes /\ Top.node \in Reached
    BY <1>2, <1>3, TopType DEF AtAttribute, FrameOK
  <2>2. k \in StringsOf(Top.node)
    BY <1>2, <1>3, <2>1 DEF RootInv, StringsOf, Attribute
  <2>3. <<Top.group, k>> \in AttributesOf(Top.node)
    BY <1>2, <2>2, PlaceShare, WalkType
  <2> QED BY <2>1, <2>3 DEF AllAttributes
<1>4. CASE AtDefault(k) /\ k \in Range(DefaultAttributes)
  <2>1. Len(stack) = 1 /\ Top.group = 0
    BY <1>2, <1>4, WalkType DEF AtDefault, RootInv, StackInv, Top
  <2> QED BY <1>4, <2>1 DEF AllAttributes, RootAttributes
<1>5. CASE Making("attribute", "NX_class") /\ k = "NX_class"
  <2>1. making # None /\ making.left # <<>>
    BY <1>5 DEF Making
  <2>2. IsEvents(Maker) /\ Parent(document, Maker) = Top.node
    BY <1>2, <2>1 DEF MakingInv
  <2>3. Maker \in Reached /\ Top.group = Top.node
    BY <1>2, WalkType, ContentsSaid
  <2>4. <<Top.group, k>> \in AttributesOf(Maker)
    BY <1>5, <2>2, <2>3, EventsShare
  <2> QED BY <2>3, <2>4 DEF AllAttributes
<1> QED BY <1>3, <1>4, <1>5

-----------------------------------------------------------------------------
(***************************************************************************)
(* The steps.                                                              *)
(***************************************************************************)
LEMMA NexusStart == NexusInit => NexusInv
<1> SUFFICES ASSUME NexusInit PROVE NexusInv
  OBVIOUS
<1>1. document \in Documents /\ registry \in Registries /\ run \in RunParameters
      /\ ascii_path \in BOOLEAN /\ registered = 0 /\ phase = "starting"
  BY DEF NexusInit
<1>2. Len(registry) \in Nat
  BY <1>1, RegistryAssumption
<1>3. DOMAIN factories.modules = {}
  BY DEF NexusInit, NoFactories, EmptyMap
<1>4. RegistryInv
  <2>1. registered \in 0..Len(registry) /\ 1..registered = {}
    BY <1>1, <1>2
  <2> QED BY <1>1, <1>3, <2>1 DEF RegistryInv
<1>5. phase \notin Begun /\ phase \notin Running /\ phase \in Phases
  BY <1>1 DEF Begun, Running, Phases
<1>6. NotBegunInv
  BY DEF NexusInit, NotBegunInv
<1>7. error = None /\ fault = FALSE /\ phase \notin {"rejected", "failed"}
  BY <1>1 DEF NexusInit
<1>8. (error # None) = (phase \in {"rejected", "failed"})
  BY <1>7
<1> QED BY <1>4, <1>5, <1>6, <1>7, <1>8 DEF NexusInv

LEMMA StepRegister ==
  ASSUME NexusInv, Register
  PROVE  NexusInv'
<1>1. RegistryInv'
  BY RegistryRegister DEF NexusInv
<1>2. /\ phase = "starting" /\ UNCHANGED <<phase, error, fault, contents, stack, making, defaults>>
      /\ UNCHANGED placement
  BY DEF Register
<1>3. NotBegunInv /\ error = None /\ fault = FALSE
  BY <1>2 DEF NexusInv, Begun, Running
<1>4. NotBegunInv'
  BY <1>2, <1>3 DEF NotBegunInv, contents, placement
<1>5. phase' \notin Begun /\ phase' \notin Running /\ phase' \in Phases /\ phase' = "starting"
  BY <1>2 DEF Begun, Running, Phases
<1> QED BY <1>1, <1>2, <1>3, <1>4, <1>5 DEF NexusInv

\* What holds while the structure is walked, and what a step of the walk has to keep
LEMMA RunningSays ==
  ASSUME NexusInv, phase \in Running
  PROVE  /\ document \in Documents /\ registered = Len(registry) /\ RegistryInv
         /\ StackInv /\ MakingInv /\ RootInv /\ PlacesInv /\ WalkInv /\ Parses(document)
         /\ error = None /\ fault = FALSE
<1>1. phase # "starting" /\ phase \in Begun /\ phase \notin {"rejected", "failed"}
  BY DEF Running, Begun
<1> QED BY <1>1 DEF NexusInv, RegistryInv

LEMMA RunningStep ==
  ASSUME NexusInv, phase \in Running, phase' \in Running, UNCHANGED <<input, registration>>,
         UNCHANGED <<error, fault>>,
         StackInv', MakingInv', RootInv', PlacesInv', WalkInv'
  PROVE  NexusInv'
<1>1. /\ RegistryInv /\ registered = Len(registry) /\ Parses(document) /\ error = None
      /\ fault = FALSE
  BY RunningSays
<1>2. RegistryInv'
  BY <1>1, RegistrySame
<1>3. /\ phase' \in Phases /\ phase' \in Begun /\ phase' \notin {"rejected", "failed"}
  BY DEF Running, Begun, Phases
<1>4. Parses(document)'
  BY <1>1 DEF input
<1> QED BY <1>1, <1>2, <1>3, <1>4 DEF NexusInv

LEMMA PlacesSame ==
  ASSUME PlacesInv, UNCHANGED placement, objects \subseteq objects',
         adding # None => phase' = "walking" /\ Top'.attributes = {},
         (making # None /\ IsEvents(Maker) /\ <<"dataset", "event_time_zero">> \notin Left)' =>
           \A i \in EventPlaces : places[i] # Top'.group
  PROVE  PlacesInv'
<1>1. UNCHANGED <<places, adding, subscribed, writers, router>>
  BY DEF placement
<1>2. EventPlaces' = EventPlaces
  BY <1>1 DEF EventPlaces, KindOf
<1>3. IsRouter(router)'
  BY <1>1 DEF PlacesInv
<1> QED BY <1>1, <1>2, <1>3 DEF PlacesInv

LEMMA StepParse ==
  ASSUME NexusInv, ParseStructure
  PROVE  NexusInv'
<1>1. /\ phase = "starting" /\ registered = Len(registry) /\ UNCHANGED <<input, registration>>
      /\ UNCHANGED <<making, defaults, contents, placement, fault>>
  BY DEF ParseStructure
<1>2. NotBegunInv /\ error = None /\ fault = FALSE /\ RegistryInv /\ document \in Documents
  BY <1>1 DEF NexusInv, Begun, Running, RegistryInv
<1>3. RegistryInv'
  BY <1>1, <1>2, RegistrySame
<1>4. CASE ~Parses(document)
  <2>1. phase' = "rejected" /\ error' = "NexusStructureError" /\ stack' = stack
    BY <1>4 DEF ParseStructure
  <2>2. error' # None
    BY <2>1, OptionAssumption
  <2>3. NotBegunInv'
    BY <1>1, <1>2, <2>1 DEF NotBegunInv, contents, placement
  <2>4. ~Parses(document)'
    BY <1>1, <1>4 DEF input
  <2> QED BY <1>1, <1>2, <1>3, <2>1, <2>2, <2>3, <2>4 DEF NexusInv, Begun, Running, Phases
<1>5. CASE Parses(document)
  <2>1. phase' = "walking" /\ error' = error /\ stack' = <<Frame(0, 0, {})>>
    BY <1>5 DEF ParseStructure
  <2>2. Top' = [node |-> 0, group |-> 0, attributes |-> {}, next |-> 1]
    BY <2>1 DEF Top, Frame
  <2>3. /\ making' = None /\ adding' = None /\ subscribed' = 0 /\ defaults' = DefaultAttributes
        /\ objects' = {} /\ attrs' = {} /\ places' = <<>> /\ writers' = <<>>
        /\ router' = EmptyRouter /\ document' = document /\ registry' = registry
    BY <1>1, <1>2 DEF NotBegunInv, contents, placement, input
  <2>4. 0 \in Reached /\ IsPlace(0) /\ document.last[0] \in Nat
    <3>1. 0..(0 - 1) = {}
      OBVIOUS
    <3>2. Above(document, 0) = {}
      BY <3>1 DEF Above
    <3>3. 0 \in DOMAIN document.nodes /\ document.last[0] \in Nat
      BY <1>2, Numbers
    <3> QED BY <3>2, <3>3 DEF Reached, ReachedIn, IsPlace
  <2>5. StackInv'
    <3>1. /\ stack' \in Seq(FrameType) /\ stack' # <<>> /\ Len(stack') = 1 /\ stack'[1] = Top'
      BY <2>1, <2>2 DEF FrameType, Frame
    <3>2. FrameOK(stack'[1])
      BY <2>2, <2>4, <3>1 DEF FrameOK
    <3>3. FrameOK(stack[1])'
      BY <2>3, <3>2, SameFrames, <1>2 DEF NotBegunInv
    <3>4. \A i \in 1..Len(stack') : FrameOK(stack[i])'
      <4>1. \A i \in 1..Len(stack') : i = 1
        BY <3>1
      <4> QED BY <3>3, <4>1
    <3>5. 1..(Len(stack') - 1) = {} /\ stack'[1].node = 0
      BY <2>2, <3>1
    <3> QED BY <3>1, <3>4, <3>5 DEF StackInv
  <2>6. MakingInv'
    BY <2>3 DEF MakingInv
  <2>7. RootInv'
    <3>1. "file_name" \in Range(DefaultAttributes)
      BY RangeThree DEF DefaultAttributes
    <3> QED BY <2>1, <2>2, <2>3, <3>1 DEF RootInv, DefaultsLeft
  <2>8. PlacesInv'
    <3>1. EventPlaces' = {}
      BY <2>3 DEF EventPlaces
    <3>2. IsRouter(router')
      BY <2>3 DEF IsRouter, EmptyRouter, EmptyMap
    <3>3. /\ places' \in Seq(Nat) /\ Len(places') = 0 /\ Len(writers') = 0
      BY <2>3
    <3> QED BY <2>3, <3>1, <3>2, <3>3 DEF PlacesInv
  <2>9. WalkInv'
    <3>1. Walked' = {0}
      BY <2>2 DEF Walked
    <3>2. ObjectsOf(0) = {}
      BY DEF ObjectsOf, IsEvents
    <3>3. \A k : AttributeLeft(0, k)'
      BY <2>1 DEF AttributeLeft
    <3>4. DOMAIN ObjectsMade' = {0} /\ ObjectsMade'[0] = {}
      BY <2>3, <3>1, <3>2, SharesAreNext
    <3>5. DOMAIN AttributesMade' = {0, -1} /\ AttributesMade'[0] = {} /\ AttributesMade'[-1] = {}
      BY <2>3, <3>1, <3>3, SharesAreNext
    <3>6. ItemsInv'
      BY <2>3, <2>4, <3>1, <3>3, SameDocument DEF ItemsInv
    <3>7. IsSharedOut(ObjectsMade, objects)'
      BY <2>3, <3>4 DEF IsSharedOut
    <3>8. IsSharedOut(AttributesMade, attrs)'
      BY <2>3, <3>5 DEF IsSharedOut
    <3> QED BY <3>6, <3>7, <3>8 DEF WalkInv
  <2>10. Parses(document)'
    BY <1>5, <2>3
  <2> QED BY <1>1, <1>2, <1>3, <2>1, <2>5, <2>6, <2>7, <2>8, <2>9, <2>10
       DEF NexusInv, Begun, Running, Phases
<1> QED BY <1>4, <1>5

LEMMA StepReturn ==
  ASSUME NexusInv, ReturnFromGroup
  PROVE  NexusInv' /\ Walked' = Walked
<1>1. /\ phase = "walking" /\ making = None /\ adding = None /\ Top.attributes = {} /\ ~HasChild
      /\ Len(stack) > 1 /\ stack' = SubSeq(stack, 1, Len(stack) - 1)
      /\ phase \in Running /\ phase' = phase /\ making' = making
      /\ UNCHANGED <<input, registration, making, defaults, contents, placement, error, fault>>
  BY DEF ReturnFromGroup, AtReturn, Running
<1>2. document' = document /\ registry' = registry /\ objects' = objects /\ attrs' = attrs
      /\ adding' = adding /\ ascii_path' = ascii_path /\ defaults' = defaults
  BY <1>1 DEF input, contents, placement
<1>3. /\ StackInv /\ RootInv /\ PlacesInv /\ WalkInv /\ document \in Documents
  BY <1>1, RunningSays
<1>4. StackInv' /\ Top'.next = Top.next /\ Top'.attributes = {}
  BY <1>1, <1>2, <1>3, PopFrame
<1>5. Walked' = Walked /\ Left = {} /\ Left' = {}
  BY <1>1, <1>4 DEF Walked, Left
<1>6. \A n, k : /\ DatasetLeft(n, k)' <=> DatasetLeft(n, k)
                /\ AttributeLeft(n, k)' <=> AttributeLeft(n, k)
  BY <1>1, <1>4, <1>5 DEF DatasetLeft, AttributeLeft
<1>7. ItemsInv'
  BY <1>2, <1>3, <1>5, <1>6, ItemsKept DEF WalkInv
<1>8. IsSharedOut(ObjectsMade', objects')
  BY <1>2, <1>3, <1>5, <1>6, ObjectsKept DEF WalkInv
<1>9. IsSharedOut(AttributesMade', attrs')
  BY <1>2, <1>3, <1>5, <1>6, AttributesKept DEF WalkInv
<1>10. WalkInv'
  BY <1>7, <1>8, <1>9 DEF WalkInv
<1>11. PlacesInv'
  BY <1>1, <1>2, <1>3, PlacesSame
<1>12. MakingInv'
  BY <1>1 DEF MakingInv
<1>13. RootInv'
  BY <1>1, <1>2, <1>3, <1>4 DEF RootInv
<1> QED BY <1>1, <1>4, <1>5, <1>10, <1>11, <1>12, <1>13, RunningStep

\* Where the walk comes to a child
LEMMA AtChildSays ==
  ASSUME NexusInv, AtChild
  PROVE  /\ phase = "walking" /\ phase \in Running /\ making = None /\ adding = None
         /\ Top.attributes = {} /\ Left = {} /\ HasChild
         /\ Top.next \in 1..document.last[0] /\ Top.next \in Reached /\ Top.next \notin Walked
         /\ Top.next # 0 /\ Top.next \in Nat
         /\ Top.node \in Above(document, Top.next) /\ Top.node = Parent(document, Top.next)
         /\ Top.group = Top.node /\ Top.node < Top.next
<1>1. /\ phase = "walking" /\ making = None /\ adding = None /\ Top.attributes = {} /\ HasChild
  BY DEF AtChild
<1>2. phase \in Running
  BY <1>1 DEF Running
<1>3. document \in Documents /\ StackInv
  BY <1>2, RunningSays
<1>4. /\ Top.next \in 1..document.last[0] /\ Top.next \in Reached
      /\ Top.node \in Above(document, Top.next) /\ Top.node = Parent(document, Top.next)
      /\ Top.node < Top.next
  BY <1>1, <1>3, TopType, NextIsChild DEF HasChild
<1>5. Top.next \notin Walked /\ Top.next # 0 /\ Top.next \in Nat
  BY <1>4 DEF Walked
<1> QED BY <1>1, <1>2, <1>3, <1>4, <1>5, WalkType DEF Left

LEMMA StepGroup ==
  ASSUME NexusInv, AddNexusGroup
  PROVE  NexusInv' /\ Walked' = Walked \cup {Top.next}
<1>a. PICK c \in Nat : c = Top.next
  BY AtChildSays DEF AddNexusGroup
<1>o. PICK o : o = <<Top.group, document.nodes[c].name>>
  OBVIOUS
<1> DEFINE g == [Top EXCEPT !.next = document.last[c] + 1]
           h == Frame(c, c, DOMAIN document.attributes[c])
<1>1. /\ AtChild /\ IsGroup(document.nodes[c]) /\ o \notin objects /\ objects' = objects \cup {o}
      /\ stack' = Append(NextChild, h)
      /\ UNCHANGED <<input, registration, phase, making, defaults, attrs, placement, error, fault>>
  BY <1>a, <1>o DEF AddNexusGroup, ObjectFits, Child
<1>2. document' = document /\ registry' = registry /\ attrs' = attrs /\ phase' = phase
      /\ adding' = adding /\ making' = making /\ ascii_path' = ascii_path /\ defaults' = defaults
  BY <1>1 DEF input, placement
<1>3. /\ phase = "walking" /\ phase \in Running /\ making = None /\ adding = None
      /\ Top.attributes = {} /\ Left = {} /\ c \in 1..document.last[0] /\ c \in Reached
      /\ c \notin Walked /\ c # 0 /\ c \in Nat /\ Top.node \in Above(document, c)
      /\ Top.node = Parent(document, c) /\ Top.group = Top.node /\ c <= document.last[Top.node]
  BY <1>1, <1>a, AtChildSays DEF HasChild
<1>4. /\ StackInv /\ RootInv /\ PlacesInv /\ WalkInv /\ document \in Documents
  BY <1>3, RunningSays
<1>5. /\ g \in FrameType /\ FrameOK(g) /\ g.node = Top.node /\ g.group = Top.group
      /\ g.attributes = {} /\ g.next = document.last[c] + 1
  BY <1>3, <1>4, <1>a, TopType, PastChild
<1>6. /\ h.node = c /\ h.group = c /\ h.attributes = DOMAIN document.attributes[c]
      /\ h.next = c + 1
  BY DEF Frame
<1>7. h \in FrameType
  BY <1>3, <1>4, Numbers DEF Frame, FrameType
<1>8. FrameOK(h)
  <2>1. c <= document.last[c] /\ document.last[c] \in Nat
    BY <1>3, <1>4, Numbers
  <2>2. (c + 1)..(c + 1 - 1) = {}
    BY <1>3
  <2>3. IsPlace(c)
    BY <1>1 DEF IsPlace
  <2> QED BY <1>3, <1>6, <2>1, <2>2, <2>3 DEF FrameOK
<1>9. NextChild = [stack EXCEPT ![Len(stack)] = g]
  BY <1>a DEF NextChild, Top
<1> HIDE DEF g, h
<1>10. StackInv' /\ Top' = h
  BY <1>o, <1>1, <1>2, <1>3, <1>4, <1>5, <1>6, <1>7, <1>8, <1>9, PushFrame
<1>11. Walked' = Walked \cup {c} /\ Left' = {} /\ Maker' = c
  <2>1. Walked' = 0..c /\ Maker' = c
    BY <1>3, <1>6, <1>10 DEF Walked, Maker
  <2>2. Walked = 0..(c - 1)
    BY <1>a DEF Walked
  <2>3. 0..c = (0..(c - 1)) \cup {c}
    BY <1>3
  <2>4. Left' = {}
    BY <1>2, <1>3 DEF Left
  <2> QED BY <2>1, <2>2, <2>3, <2>4
<1>12. \A n \in Walked : n # c
  BY <1>3
<1>d. \A n, k : ~DatasetLeft(n, k) /\ ~DatasetLeft(n, k)'
  BY <1>3, <1>11 DEF DatasetLeft
<1>13. ASSUME NEW n \in Walked, NEW k
       PROVE  AttributeLeft(n, k)' <=> AttributeLeft(n, k)
  <2>1. AttributeLeft(n, k) <=> n = 0
    BY <1>3 DEF AttributeLeft
  <2>2. n # Top'.node
    BY <1>6, <1>10, <1>12
  <2>3. AttributeLeft(n, k)' <=> n = 0
    BY <1>2, <1>3, <1>11, <2>2 DEF AttributeLeft
  <2> QED BY <2>1, <2>3
<1>14. ASSUME NEW k \in StringsOf(c)
       PROVE  AttributeLeft(c, k)'
  <2>1. k \in DOMAIN document.attributes[c]
    BY DEF StringsOf
  <2>2. Top'.node = c /\ k \in Top'.attributes
    BY <1>6, <1>10, <2>1
  <2> QED BY <2>2 DEF AttributeLeft
<1>15. ObjectsOf(c) = {o} /\ AttributesOf(c) = {<<c, k>> : k \in StringsOf(c)}
  BY <1>1, <1>3, <1>o, GroupShare
<1>16. ItemsInv'
  BY <1>1, <1>2, <1>3, <1>4, <1>11, <1>13, <1>14, ItemsAhead DEF WalkInv, IsPlace
<1>17. IsSharedOut(ObjectsMade', objects')
  <2> QED BY <1>1, <1>2, <1>3, <1>4, <1>11, <1>d, <1>15, GroupMade DEF WalkInv
<1>18. IsSharedOut(AttributesMade', attrs')
  <2>1. \A a \in AttributesOf(c) : AttributeLeft(c, a[2])'
    BY <1>14, <1>15
  <2> QED BY <1>2, <1>3, <1>4, <1>11, <1>13, <2>1, AttributesAhead DEF WalkInv
<1>19. WalkInv'
  BY <1>16, <1>17, <1>18 DEF WalkInv
<1>20. PlacesInv'
  BY <1>1, <1>2, <1>3, <1>4, PlacesSame
<1>21. MakingInv'
  BY <1>2, <1>3 DEF MakingInv
<1>22. RootInv'
  BY <1>2, <1>3, <1>4, <1>6, <1>10 DEF RootInv
<1> QED BY <1>1, <1>2, <1>3, <1>10, <1>11, <1>19, <1>20, <1>21, <1>22, <1>a, RunningStep

LEMMA MakesType ==
  ASSUME NEW kind
  PROVE  Makes(kind) \in Seq({"dataset", "attribute"} \X (Datasets \cup {"NX_class"}))
<1> DEFINE S  == {"dataset", "attribute"} \X (Datasets \cup {"NX_class"})
           c1 == <<"dataset", "event_time_zero">>
           c2 == <<"dataset", "event_id">>
           c3 == <<"dataset", "event_time_offset">>
           c4 == <<"attribute", "NX_class">>
<1>1. c1 \in S /\ c2 \in S /\ c3 \in S /\ c4 \in S
  BY DEF Datasets
<1>2. Makes(kind) = IF kind = "NXevent_data" THEN <<c1, c2, c3, c4>> ELSE <<>>
  BY DEF Makes
<1> HIDE DEF S, c1, c2, c3, c4
<1>3. <<c1, c2, c3, c4>> \in Seq(S) /\ <<>> \in Seq(S)
  BY <1>1
<1>4. Makes(kind) \in Seq(S)
  BY <1>2, <1>3
<1> QED BY <1>4 DEF S

\* What the walk passes over without a call is a leaf: the step to the child after it
LEMMA StepFind ==
  ASSUME NexusInv, FindFactory
  PROVE  NexusInv' /\ Walked' = Walked \cup {Maker'} /\ Maker' \notin Walked /\ making' # None
<1>a. PICK c \in Nat : c = Top.next
  BY AtChildSays DEF FindFactory
<1>b. PICK j : j = document.nodes[c]
  OBVIOUS
<1>c. PICK kind : kind = factories.modules[j.module]
  OBVIOUS
<1> DEFINE g == [Top EXCEPT !.next = document.last[c] + 1]
<1>1. /\ AtChild /\ Creatable(j)
      /\ making' = [spec |-> SpecOf(kind, ConfigOf(j)), left |-> Makes(kind)]
      /\ stack' = NextChild
      /\ UNCHANGED <<input, registration, phase, defaults, contents, placement, error, fault>>
  BY <1>a, <1>b, <1>c DEF FindFactory, Child
<1>2. document' = document /\ registry' = registry /\ attrs' = attrs /\ phase' = phase
      /\ adding' = adding /\ objects' = objects /\ ascii_path' = ascii_path
      /\ defaults' = defaults
  BY <1>1 DEF input, placement, contents
<1>3. /\ phase = "walking" /\ phase \in Running /\ making = None /\ adding = None
      /\ Top.attributes = {} /\ Left = {} /\ c \in 1..document.last[0] /\ c \in Reached
      /\ c \notin Walked /\ c # 0 /\ c \in Nat /\ Top.node \in Above(document, c)
      /\ Top.node = Parent(document, c) /\ Top.group = Top.node /\ c <= document.last[Top.node]
      /\ Top.node < c
  BY <1>1, <1>a, AtChildSays DEF HasChild
<1>4. /\ StackInv /\ RootInv /\ PlacesInv /\ WalkInv /\ document \in Documents
      /\ RegistryInv /\ registered = Len(registry)
  BY <1>3, RunningSays
<1>5. /\ IsModuleOf(j, registry) /\ kind = LastRegistered(registry, j.module)
      /\ kind \in ModuleKinds /\ IsWriterModule(j)
  BY <1>1, <1>4, <1>c, CreatableIsModule, SpecType
<1>6. document.last[c] = c /\ DOMAIN document.attributes[c] = {}
  BY <1>3, <1>4, <1>5, <1>b, ModuleIsLeaf
<1>7. /\ g \in FrameType /\ FrameOK(g) /\ g.node = Top.node /\ g.group = Top.group
      /\ g.attributes = {} /\ g.next = c + 1
  BY <1>3, <1>4, <1>6, <1>a, TopType, PastChild
<1>8. NextChild = [stack EXCEPT ![Len(stack)] = g]
  BY <1>a DEF NextChild, Top
<1> HIDE DEF g
<1>9. StackInv' /\ Len(stack') = Len(stack) /\ Top' = g
  BY <1>1, <1>2, <1>4, <1>7, <1>8, ReplaceTop
<1>10. Walked' = Walked \cup {c} /\ Maker' = c
  <2>1. Walked' = 0..c /\ Maker' = c
    BY <1>3, <1>7, <1>9 DEF Walked, Maker
  <2>2. Walked = 0..(c - 1)
    BY <1>a DEF Walked
  <2>3. 0..c = (0..(c - 1)) \cup {c}
    BY <1>3
  <2> QED BY <2>1, <2>2, <2>3
<1>11. \A n \in Walked : n # c
  BY <1>3
<1>12. making' \in Creating /\ making'.left = Makes(kind) /\ making'.spec = SpecIn(j, registry)
       /\ making' # None /\ making'.left \in EventCalls /\ Left' = Range(Makes(kind))
  <2>1. SpecIn(j, registry) = SpecOf(kind, ConfigOf(j))
    BY <1>5 DEF SpecIn
  <2>2. SpecIn(j, registry) \in [module : ModuleKinds, subscriptions : Seq(Subscription)]
    BY <1>4, <1>5, SpecType
  <2>3. Makes(kind) \in EventCalls
    BY EventCallsAre DEF Makes
  <2>4. Makes(kind) \in Seq({"dataset", "attribute"} \X (Datasets \cup {"NX_class"}))
    BY MakesType
  <2>5. making' \in Creating
    BY <1>1, <2>1, <2>2, <2>4 DEF Creating
  <2>6. making' # None
    BY <2>5, OptionAssumption
  <2>7. making'.left = Makes(kind) /\ making'.spec = SpecIn(j, registry)
    BY <1>1, <2>1
  <2> QED BY <2>3, <2>5, <2>6, <2>7 DEF Left
<1>13. /\ IsEvents(c) <=> kind = "NXevent_data"
       /\ IsEvents(c) => Left' = AllEventCalls
       /\ ~IsEvents(c) => Makes(kind) = <<>> /\ Left' = {}
       /\ ~IsPlace(c)
  <2>1. IsEvents(c) <=> kind = "NXevent_data"
    BY <1>3, <1>5, <1>b DEF IsEvents, SpecIn, SpecOf
  <2>2. ~IsPlace(c)
    BY <1>3, <1>5, <1>b, Exclusive DEF IsPlace
  <2> QED BY <1>12, <2>1, <2>2, EventCallsAre DEF Makes
<1>14. \A n \in Walked : \A k : DatasetLeft(n, k)' <=> DatasetLeft(n, k)
  BY <1>3, <1>10, <1>11 DEF DatasetLeft
<1>15. ASSUME NEW n \in Walked, NEW k
       PROVE  AttributeLeft(n, k)' <=> AttributeLeft(n, k)
  <2>1. AttributeLeft(n, k) <=> n = 0
    BY <1>3 DEF AttributeLeft
  <2>2. AttributeLeft(n, k)' <=> n = 0
    BY <1>2, <1>3, <1>7, <1>9, <1>10, <1>11 DEF AttributeLeft
  <2> QED BY <2>1, <2>2
<1>16. \A o \in ObjectsOf(c) : DatasetLeft(c, o[2])'
  <2>1. CASE IsEvents(c)
    <3>1. ObjectsOf(c) = {<<Parent(document, c), name>> : name \in Datasets}
      BY <2>1, EventsShare
    <3>2. ASSUME NEW name \in Datasets
          PROVE  DatasetLeft(c, name)'
      BY <1>10, <1>13, <2>1 DEF DatasetLeft, AllEventCalls, Datasets
    <3> QED BY <3>1, <3>2
  <2>2. CASE ~IsEvents(c)
    BY <1>13, <2>2 DEF ObjectsOf
  <2> QED BY <2>1, <2>2
<1>17. \A a \in AttributesOf(c) : AttributeLeft(c, a[2])'
  <2>1. CASE IsEvents(c)
    <3>1. AttributesOf(c) = {<<Parent(document, c), "NX_class">>}
      BY <2>1, EventsShare
    <3>2. AttributeLeft(c, "NX_class")'
      BY <1>10, <1>13, <2>1 DEF AttributeLeft, AllEventCalls
    <3> QED BY <3>1, <3>2
  <2>2. CASE ~IsEvents(c)
    BY <1>13, <2>2 DEF AttributesOf
  <2> QED BY <2>1, <2>2
<1>18. ItemsInv'
  <2>1. StringsOf(c) = {}
    BY <1>6 DEF StringsOf
  <2> QED BY <1>2, <1>3, <1>4, <1>5, <1>10, <1>15, <1>b, <2>1, ItemsAhead DEF WalkInv
<1>19. IsSharedOut(ObjectsMade', objects')
  BY <1>2, <1>3, <1>4, <1>10, <1>14, <1>16, ObjectsAhead DEF WalkInv
<1>20. IsSharedOut(AttributesMade', attrs')
  BY <1>2, <1>3, <1>4, <1>10, <1>15, <1>17, AttributesAhead DEF WalkInv
<1>21. WalkInv'
  BY <1>18, <1>19, <1>20 DEF WalkInv
<1>22. MakingInv'
  <2>1. Maker' # 0 /\ (Parent(document, Maker) = Top.node)'
    BY <1>2, <1>3, <1>7, <1>9, <1>10
  <2>2. IsModuleOf(document.nodes[Maker], registry)'
    BY <1>2, <1>5, <1>10, <1>b
  <2>3. making'.spec = SpecIn(document.nodes[Maker], registry)'
    BY <1>2, <1>10, <1>12, <1>b
  <2>4. IsEvents(Maker)' \/ making'.left = <<>>
    <3>1. IsEvents(Maker)' <=> IsEvents(c)
      BY <1>2, <1>10 DEF IsEvents
    <3> QED BY <1>12, <1>13, <3>1
  <2>5. adding' = None /\ Top'.attributes = {} /\ phase' \in {"walking", "failed"}
    BY <1>2, <1>3, <1>7, <1>9
  <2> QED BY <1>12, <2>1, <2>2, <2>3, <2>4, <2>5 DEF MakingInv
<1>23. PlacesInv'
  <2>1. IsEvents(Maker)' <=> IsEvents(c)
    BY <1>2, <1>10 DEF IsEvents
  <2>2. IsEvents(c) => <<"dataset", "event_time_zero">> \in Left'
    BY <1>13 DEF AllEventCalls
  <2> QED BY <1>1, <1>2, <1>3, <1>4, <2>1, <2>2, PlacesSame
<1>24. RootInv'
  BY <1>2, <1>3, <1>4, <1>7, <1>9 DEF RootInv
<1> QED
  BY <1>1, <1>2, <1>3, <1>9, <1>10, <1>12, <1>21, <1>22, <1>23, <1>24, RunningStep

LEMMA StepAttribute ==
  ASSUME NexusInv, NEW k \in AttributeNames, AddAttribute(k)
  PROVE  NexusInv' /\ Walked' = Walked
<1>a. PICK p : p = Top.node
  OBVIOUS
<1>b. PICK v : v = document.attributes[p][k]
  OBVIOUS
<1> DEFINE g == [Top EXCEPT !.attributes = @ \ {k}]
           e == <<p, k>>
<1>1. /\ phase \in {"walking", "root"} /\ making = None /\ adding = None /\ k \in Top.attributes
      /\ v = "other" \/ (v = "ascii" /\ <<Top.group, k>> \notin attrs)
      /\ attrs' = IF v = "other" THEN attrs ELSE attrs \cup {<<Top.group, k>>}
      /\ stack' = [stack EXCEPT ![Len(stack)].attributes = @ \ {k}]
      /\ UNCHANGED <<input, registration, phase, making, defaults, objects, placement, error,
                     fault>>
  BY <1>a, <1>b DEF AddAttribute, AtAttribute, Attribute, AttributeFits
<1>2. document' = document /\ registry' = registry /\ objects' = objects /\ phase' = phase
      /\ adding' = adding /\ making' = making /\ ascii_path' = ascii_path /\ defaults' = defaults
  BY <1>1 DEF input, placement
<1>3. phase \in Running /\ phase' \in Running /\ Left = {} /\ Left' = {}
  BY <1>1, <1>2 DEF Running, Left
<1>4. /\ StackInv /\ RootInv /\ PlacesInv /\ WalkInv /\ document \in Documents
  BY <1>3, RunningSays
<1>5. /\ Top \in FrameType /\ FrameOK(Top) /\ p \in Walked /\ Top.group = p /\ IsPlace(p)
      /\ k \in DOMAIN document.attributes[p]
  BY <1>1, <1>4, <1>a, TopType, WalkType DEF RootInv
<1>6. /\ g \in FrameType /\ g.node = p /\ g.group = Top.group /\ g.next = Top.next
      /\ g.attributes = Top.attributes \ {k}
  BY <1>5, <1>a DEF FrameType
<1>7. FrameOK(g)
  BY <1>5, <1>6, <1>a DEF FrameOK
<1>8. stack' = [stack EXCEPT ![Len(stack)] = g]
  BY <1>1 DEF Top
<1> HIDE DEF g
<1>9. StackInv' /\ Len(stack') = Len(stack) /\ Top' = g
  BY <1>2, <1>4, <1>6, <1>7, <1>8, <1>a, ReplaceTop
<1>10. Walked' = Walked /\ Top'.node = p /\ Top'.attributes = Top.attributes \ {k}
       /\ Top'.next = Top.next
  BY <1>6, <1>9 DEF Walked
<1>11. \A n, x : DatasetLeft(n, x)' <=> DatasetLeft(n, x)
  BY <1>3 DEF DatasetLeft
<1>12. p # 0 \/ phase # "walking"
  BY <1>1, <1>4, <1>a DEF RootInv
<1>13. ASSUME NEW n \in Walked, NEW x
       PROVE  AttributeLeft(n, x)' <=> AttributeLeft(n, x) /\ ~(n = p /\ x = k)
  BY <1>2, <1>3, <1>10, <1>12, <1>a DEF AttributeLeft
<1>14. AttributeLeft(p, k)
  BY <1>1, <1>a DEF AttributeLeft
<1>15. ItemsInv'
  <2>1. ASSUME NEW n \in Walked, NEW x \in StringsOf(n), AttributeLeft(n, x)
        PROVE  AttributeLeft(n, x)' \/ document.attributes[n][x] = "ascii"
    <3>1. CASE n = p /\ x = k
      <4>1. v # "other" /\ v = document.attributes[n][x]
        BY <1>b, <3>1, <2>1 DEF StringsOf
      <4> QED BY <1>1, <4>1
    <3>2. CASE ~(n = p /\ x = k)
      BY <1>13, <2>1, <3>2
    <3> QED BY <3>1, <3>2
  <2> QED BY <1>2, <1>4, <1>10, <2>1, ItemsKept DEF WalkInv
<1>16. IsSharedOut(ObjectsMade', objects')
  BY <1>2, <1>4, <1>10, <1>11, ObjectsKept DEF WalkInv
<1>17. IsSharedOut(AttributesMade', attrs')
  <2>1. AttributesOf(p) = {<<p, x>> : x \in StringsOf(p)}
    BY <1>5, PlaceShare
  <2>2. ASSUME NEW n \in Walked, NEW a \in AttributesOf(n)
        PROVE  n = p /\ a[2] = k <=> n = p /\ a = e
    BY <2>1
  <2>3. ASSUME NEW n \in Walked, NEW a \in AttributesOf(n)
        PROVE  AttributeLeft(n, a[2])' <=> AttributeLeft(n, a[2]) /\ ~(n = p /\ a = e)
    BY <1>13, <2>2
  <2>4. CASE v = "other"
    <3>1. k \notin StringsOf(p)
      BY <1>b, <2>4 DEF StringsOf
    <3>2. e \notin AttributesOf(p)
      BY <2>1, <3>1
    <3>3. \A n \in Walked : \A a \in AttributesOf(n) :
            AttributeLeft(n, a[2])' <=> AttributeLeft(n, a[2])
      BY <2>3, <3>2
    <3> QED BY <1>1, <1>2, <1>4, <1>10, <2>4, <3>3, AttributesKept DEF WalkInv
  <2>5. CASE v # "other"
    <3>1. k \in StringsOf(p)
      BY <1>5, <1>b, <2>5 DEF StringsOf
    <3>2. e \in AttributesOf(p) /\ e \notin attrs /\ attrs' = attrs \cup {e}
      BY <1>1, <1>5, <2>1, <2>5, <3>1
    <3>3. AttributeLeft(p, e[2])
      BY <1>14
    <3> HIDE DEF e
    <3> QED BY <1>2, <1>4, <1>5, <1>10, <2>3, <3>2, <3>3, AttributeMade DEF WalkInv
  <2> QED BY <2>4, <2>5
<1>18. WalkInv'
  BY <1>15, <1>16, <1>17 DEF WalkInv
<1>19. PlacesInv'
  BY <1>1, <1>2, <1>4, PlacesSame
<1>20. MakingInv'
  BY <1>1, <1>2 DEF MakingInv
<1>21. RootInv'
  BY <1>2, <1>4, <1>9, <1>10, <1>a DEF RootInv
<1> QED BY <1>1, <1>3, <1>9, <1>10, <1>18, <1>19, <1>20, <1>21, RunningStep

LEMMA NextMaking ==
  ASSUME making \in Creating, making.left # <<>>, making' = [making EXCEPT !.left = Tail(@)]
  PROVE  /\ making' \in Creating /\ making'.left = Tail(making.left)
         /\ making'.spec = making.spec /\ making' # None
<1> DEFINE Calls1 == {"dataset", "attribute"} \X (Datasets \cup {"NX_class"})
           Specs1 == [module : ModuleKinds, subscriptions : Seq(Subscription)]
<1>1. making \in [spec : Specs1, left : Seq(Calls1)]
  BY DEF Creating
<1> HIDE DEF Calls1, Specs1
<1>2. Tail(making.left) \in Seq(Calls1)
  BY <1>1
<1>3. /\ making' \in [spec : Specs1, left : Seq(Calls1)] /\ making'.left = Tail(making.left)
      /\ making'.spec = making.spec
  BY <1>1, <1>2
<1>4. making' \in Creating
  BY <1>3 DEF Calls1, Specs1, Creating
<1> QED BY <1>3, <1>4, OptionAssumption

\* A call of create that makes the next dataset or attribute of its module
LEMMA MakingStep ==
  ASSUME NexusInv, phase = "walking", making # None, making.left # <<>>,
         making' = [making EXCEPT !.left = Tail(@)],
         UNCHANGED <<input, registration, phase, stack, defaults, placement, error, fault>>,
         objects \subseteq objects', WalkInv',
         IsEvents(Maker) /\ Head(making.left) = <<"dataset", "event_time_zero">> =>
           \A i \in EventPlaces : places[i] # Top.group
  PROVE  NexusInv'
<1>1. phase \in Running /\ phase' \in Running
  BY DEF Running
<1>2. /\ StackInv /\ MakingInv /\ RootInv /\ PlacesInv
  BY <1>1, RunningSays
<1>3. document' = document /\ registry' = registry /\ adding' = adding /\ ascii_path' = ascii_path
      /\ stack' = stack /\ phase' = phase /\ defaults' = defaults /\ Top' = Top /\ Maker' = Maker
  BY DEF input, placement, Top, Maker
<1>4. /\ making \in Creating /\ making.left \in EventCalls /\ adding = None
      /\ Top.attributes = {} /\ IsEvents(Maker)
  BY <1>2 DEF MakingInv
<1>5. /\ Tail(making.left) \in EventCalls
      /\ Range(making.left) = Range(Tail(making.left)) \cup {Head(making.left)}
  BY <1>4, NextEventCall
<1>6. /\ making' \in Creating /\ making'.left = Tail(making.left) /\ making'.spec = making.spec
      /\ making' # None
  BY <1>4, NextMaking
<1>7. StackInv'
  BY <1>2, <1>3, StackSame
<1>8. MakingInv'
  <2>1. IsEvents(Maker)'
    BY <1>3, <1>4 DEF IsEvents
  <2> QED BY <1>2, <1>3, <1>4, <1>5, <1>6, <2>1 DEF MakingInv
<1>9. RootInv'
  BY <1>2, <1>3 DEF RootInv
<1>10. Left = Left' \cup {Head(making.left)}
  BY <1>5, <1>6 DEF Left
<1>11. PlacesInv'
  <2>1. CASE <<"dataset", "event_time_zero">> \in Left'
    BY <1>2, <1>3, <1>4, <2>1, PlacesSame
  <2>2. CASE <<"dataset", "event_time_zero">> \notin Left'
    <3>1. \A i \in EventPlaces : places[i] # Top.group
      BY <1>2, <1>4, <1>10, <2>2 DEF PlacesInv
    <3> QED BY <1>2, <1>3, <1>4, <3>1, PlacesSame
  <2> QED BY <2>1, <2>2
<1> QED BY <1>1, <1>7, <1>8, <1>9, <1>11, RunningStep

LEMMA StepDataset ==
  ASSUME NexusInv, NEW name \in Datasets, MakeDataset(name)
  PROVE  NexusInv'
<1>a. PICK c : c = Maker
  OBVIOUS
<1>o. PICK o : o = <<Top.group, name>>
  OBVIOUS
<1>1. /\ phase = "walking" /\ making # None /\ making.left # <<>>
      /\ Head(making.left) = <<"dataset", name>> /\ o \notin objects
      /\ objects' = objects \cup {o} /\ making' = [making EXCEPT !.left = Tail(@)]
      /\ UNCHANGED <<input, registration, phase, stack, defaults, attrs, placement, error, fault>>
  BY <1>o DEF MakeDataset, Making, ObjectFits
<1>2. document' = document /\ registry' = registry /\ attrs' = attrs /\ phase' = phase
      /\ stack' = stack /\ defaults' = defaults
  BY <1>1 DEF input
<1>3. phase \in Running
  BY <1>1 DEF Running
<1>4. /\ StackInv /\ MakingInv /\ PlacesInv /\ WalkInv /\ document \in Documents
  BY <1>3, RunningSays
<1>5. /\ making \in Creating /\ making.left \in EventCalls /\ IsEvents(c) /\ c \in Walked
      /\ Parent(document, c) = Top.node /\ Top.group = Top.node
  BY <1>1, <1>4, <1>a, WalkType DEF MakingInv
<1>6. /\ Head(making.left) \notin Range(Tail(making.left))
      /\ Range(making.left) = Range(Tail(making.left)) \cup {Head(making.left)}
  BY <1>1, <1>5, NextEventCall
<1>7. making' # None /\ making'.left = Tail(making.left)
  BY <1>1, <1>5, NextMaking
<1>8. /\ Left = Left' \cup {<<"dataset", name>>} /\ <<"dataset", name>> \notin Left'
  BY <1>1, <1>6, <1>7 DEF Left
<1>9. Walked' = Walked /\ Top' = Top /\ Maker' = c
  BY <1>2, <1>a DEF Walked, Top, Maker
<1>10. \A n, k : AttributeLeft(n, k)' <=> AttributeLeft(n, k)
  BY <1>2, <1>8, <1>9, <1>a DEF AttributeLeft
<1>11. \A n, x : DatasetLeft(n, x)' <=> DatasetLeft(n, x) /\ ~(n = c /\ x = name)
  BY <1>8, <1>9, <1>a DEF DatasetLeft
<1>12. ObjectsOf(c) = {<<Top.node, x>> : x \in Datasets}
  BY <1>5, EventsShare
<1>13. o \in ObjectsOf(c)
  BY <1>5, <1>12, <1>o
<1>14. ASSUME NEW n \in Walked, NEW p \in ObjectsOf(n)
       PROVE  DatasetLeft(n, p[2])' <=> DatasetLeft(n, p[2]) /\ ~(n = c /\ p = o)
  <2>1. n = c /\ p[2] = name <=> n = c /\ p = o
    BY <1>5, <1>12, <1>o
  <2> QED BY <1>11, <2>1
<1>15. DatasetLeft(c, o[2])
  BY <1>8, <1>a, <1>o DEF DatasetLeft
<1>16. IsSharedOut(ObjectsMade', objects')
  BY <1>1, <1>2, <1>4, <1>5, <1>9, <1>13, <1>14, <1>15, ObjectMade DEF WalkInv
<1>17. IsSharedOut(AttributesMade', attrs')
  BY <1>2, <1>4, <1>9, <1>10, AttributesKept DEF WalkInv
<1>18. ItemsInv'
  BY <1>2, <1>4, <1>9, <1>10, ItemsKept DEF WalkInv
<1>19. WalkInv'
  BY <1>16, <1>17, <1>18 DEF WalkInv
<1>20. ASSUME name = "event_time_zero", NEW i \in EventPlaces
       PROVE  places[i] # Top.group
  <2>1. <<places[i], "event_time_zero">> \in objects
    BY <1>4 DEF PlacesInv, Datasets
  <2> QED BY <1>1, <1>20, <1>o, <2>1
<1> QED BY <1>1, <1>19, <1>20, MakingStep

LEMMA StepNXclass ==
  ASSUME NexusInv, MakeAttribute("NX_class")
  PROVE  NexusInv'
<1>a. PICK c : c = Maker
  OBVIOUS
<1>o. PICK e : e = <<Top.group, "NX_class">>
  OBVIOUS
<1>1. /\ phase = "walking" /\ making # None /\ making.left # <<>>
      /\ Head(making.left) = <<"attribute", "NX_class">> /\ e \notin attrs
      /\ attrs' = attrs \cup {e} /\ making' = [making EXCEPT !.left = Tail(@)]
      /\ UNCHANGED <<input, registration, phase, stack, defaults, objects, placement, error,
                     fault>>
  BY <1>o DEF MakeAttribute, Making, AttributeFits
<1>2. document' = document /\ registry' = registry /\ objects' = objects /\ phase' = phase
      /\ stack' = stack /\ defaults' = defaults
  BY <1>1 DEF input
<1>3. phase \in Running
  BY <1>1 DEF Running
<1>4. /\ StackInv /\ MakingInv /\ PlacesInv /\ WalkInv /\ document \in Documents
  BY <1>3, RunningSays
<1>5. /\ making \in Creating /\ making.left \in EventCalls /\ IsEvents(c) /\ c \in Walked
      /\ Parent(document, c) = Top.node /\ Top.group = Top.node /\ c # 0
      /\ Top.attributes = {}
  BY <1>1, <1>4, <1>a, WalkType DEF MakingInv
<1>6. /\ Head(making.left) \notin Range(Tail(making.left))
      /\ Range(making.left) = Range(Tail(making.left)) \cup {Head(making.left)}
  BY <1>1, <1>5, NextEventCall
<1>7. making' # None /\ making'.left = Tail(making.left)
  BY <1>1, <1>5, NextMaking
<1>8. /\ Left = Left' \cup {<<"attribute", "NX_class">>} /\ <<"attribute", "NX_class">> \notin Left'
  BY <1>1, <1>6, <1>7 DEF Left
<1>9. Walked' = Walked /\ Top' = Top /\ Maker' = c
  BY <1>2, <1>a DEF Walked, Top, Maker
<1>10. \A n, k : DatasetLeft(n, k)' <=> DatasetLeft(n, k)
  BY <1>8, <1>9, <1>a DEF DatasetLeft
<1>11. \A n, x : AttributeLeft(n, x)' <=> AttributeLeft(n, x) /\ ~(n = c /\ x = "NX_class")
  BY <1>2, <1>5, <1>8, <1>9, <1>a DEF AttributeLeft
<1>12. AttributesOf(c) = {e}
  BY <1>5, <1>o, EventsShare
<1>13. \A n \in Walked : \A p \in AttributesOf(n) :
         AttributeLeft(n, p[2])' <=> AttributeLeft(n, p[2]) /\ ~(n = c /\ p = e)
  BY <1>11, <1>12, <1>o
<1>14. AttributeLeft(c, e[2])
  BY <1>8, <1>a, <1>o DEF AttributeLeft
<1>15. IsSharedOut(AttributesMade', attrs')
  BY <1>1, <1>2, <1>4, <1>5, <1>9, <1>12, <1>13, <1>14, AttributeMade DEF WalkInv
<1>16. IsSharedOut(ObjectsMade', objects')
  BY <1>2, <1>4, <1>9, <1>10, ObjectsKept DEF WalkInv
<1>17. ItemsInv'
  <2>1. StringsOf(c) = {}
    <3>1. c \in 0..document.last[0] /\ IsWriterModule(document.nodes[c])
      BY <1>4, <1>5, ContentsSaid, Numbers DEF IsEvents, IsModuleOf, Reached, ReachedIn
    <3> QED BY <1>4, <3>1, ModuleIsLeaf DEF StringsOf
  <2> QED BY <1>2, <1>4, <1>9, <1>11, <2>1, ItemsKept DEF WalkInv
<1>18. WalkInv'
  BY <1>15, <1>16, <1>17 DEF WalkInv
<1> QED BY <1>1, <1>2, <1>18, MakingStep

\* Steps that only place writers
LEMMA WalkSame ==
  ASSUME WalkInv, UNCHANGED <<input, stack, defaults, contents, phase>>, Left' = Left
  PROVE  WalkInv'
<1>1. /\ document' = document /\ registry' = registry /\ objects' = objects /\ attrs' = attrs
      /\ Top' = Top /\ Maker' = Maker /\ Walked' = Walked
  BY DEF input, contents, Top, Maker, Walked
<1>2. \A n, k : /\ DatasetLeft(n, k)' <=> DatasetLeft(n, k)
                /\ AttributeLeft(n, k)' <=> AttributeLeft(n, k)
  BY <1>1 DEF DatasetLeft, AttributeLeft
<1>3. ItemsInv'
  BY <1>1, <1>2, ItemsKept DEF WalkInv
<1>4. IsSharedOut(ObjectsMade', objects')
  BY <1>1, <1>2, ObjectsKept DEF WalkInv
<1>5. IsSharedOut(AttributesMade', attrs')
  BY <1>1, <1>2, AttributesKept DEF WalkInv
<1> QED BY <1>3, <1>4, <1>5 DEF WalkInv

LEMMA PlacingStep ==
  ASSUME NexusInv, phase = "walking", Top.attributes = {}, making' = None, Left = {},
         UNCHANGED <<input, registration, phase, stack, defaults, contents, error, fault>>,
         PlacesInv'
  PROVE  NexusInv'
<1>1. phase \in Running /\ phase' \in Running /\ Left' = {}
  BY DEF Running, Left
<1>2. /\ StackInv /\ RootInv /\ WalkInv
  BY <1>1, RunningSays
<1>3. document' = document /\ registry' = registry /\ ascii_path' = ascii_path /\ Top' = Top
      /\ objects' = objects
  BY DEF input, contents, Top
<1>4. StackInv' /\ WalkInv'
  BY <1>1, <1>2, <1>3, StackSame, WalkSame
<1>5. MakingInv'
  BY DEF MakingInv
<1>6. RootInv'
  BY <1>2, <1>3 DEF RootInv
<1> QED BY <1>1, <1>4, <1>5, <1>6, RunningStep

LEMMA CreatedType ==
  ASSUME NEW spec \in [module : ModuleKinds, subscriptions : Seq(Subscription)],
         NEW r \in RunParameters
  PROVE  /\ NewWriter(spec, r) \in Created /\ NewWriter(spec, r) # None
         /\ NewWriter(spec, r).kind = spec.module
         /\ NewWriter(spec, r).subscriptions = spec.subscriptions
<1>1. NewWriter(spec, r) \in Created
  BY DEF NewWriter, Created
<1> QED BY <1>1, OptionAssumption DEF NewWriter

\* PlacedWriter::new has made all that there is in the module's group: nobody else has.
LEMMA StepCreate ==
  ASSUME NexusInv, CreateWriter
  PROVE  NexusInv'
<1>a. PICK c : c = Maker
  OBVIOUS
<1>b. PICK n : n = Len(places)
  OBVIOUS
<1>1. /\ phase = "walking" /\ making # None /\ making.left = <<>> /\ phase \in Running
      /\ adding' = NewWriter(making.spec, run) /\ places' = Append(places, Top.group)
      /\ making' = None
      /\ UNCHANGED <<input, registration, phase, stack, defaults, contents, subscribed, writers,
                     router, error, fault>>
  BY DEF CreateWriter, Running
<1>2. /\ StackInv /\ MakingInv /\ PlacesInv /\ WalkInv /\ document \in Documents /\ RegistryInv
  BY <1>1, RunningSays
<1>3. /\ making \in Creating /\ adding = None /\ Top.attributes = {} /\ c # 0 /\ c \in Walked
      /\ Parent(document, c) = Top.node /\ Top.group = Top.node
      /\ making.spec = SpecIn(document.nodes[c], registry)
      /\ IsModuleOf(document.nodes[c], registry)
  BY <1>1, <1>2, <1>a, WalkType DEF MakingInv
<1>4. Left = {}
  BY <1>1, EventCallsAre DEF Left
<1>5. /\ adding' \in Created /\ adding' # None /\ adding'.kind = making.spec.module
      /\ adding'.subscriptions = making.spec.subscriptions
  <2>1. making.spec \in [module : ModuleKinds, subscriptions : Seq(Subscription)]
    BY <1>3 DEF Creating
  <2>2. run \in RunParameters
    BY <1>2 DEF RegistryInv
  <2> QED BY <1>1, <2>1, <2>2, CreatedType
<1>6. IsEvents(c) <=> adding'.kind = "NXevent_data"
  BY <1>3, <1>5 DEF IsEvents
<1>7. /\ places \in Seq(Nat) /\ Len(writers) \in Nat /\ n = Len(writers) /\ n \in Nat
      /\ subscribed = 0 /\ IsRouter(router)
  BY <1>2, <1>3, <1>b DEF PlacesInv
<1>8. /\ places' \in Seq(Nat) /\ Len(places') = n + 1 /\ places'[n + 1] = Top.group
      /\ \A i \in 1..n : places'[i] = places[i]
  BY <1>1, <1>2, <1>3, <1>7, <1>b, TopType
<1>9. Top' = Top /\ objects' = objects /\ writers' = writers /\ subscribed' = 0
      /\ router' = router /\ phase' = phase
  BY <1>1, <1>7 DEF Top, contents
<1>10. \A i \in 1..n : KindOf(i)' = KindOf(i)
  BY <1>7, <1>9 DEF KindOf
<1>11. KindOf(n + 1)' = adding'.kind
  BY <1>7, <1>9 DEF KindOf
<1>12. EventPlaces' = EventPlaces \cup (IF IsEvents(c) THEN {n + 1} ELSE {})
  <2>1. 1..(n + 1) = (1..n) \cup {n + 1} /\ n + 1 \notin 1..n
    BY <1>7
  <2> QED BY <1>6, <1>8, <1>10, <1>11, <1>b, <2>1 DEF EventPlaces
<1>13. \A i \in EventPlaces : i \in 1..n
  BY <1>b DEF EventPlaces
<1>14. ASSUME IsEvents(c), NEW name \in Datasets
       PROVE  <<Top.group, name>> \in objects
  <2>1. <<Top.group, name>> \in ObjectsOf(c) /\ ~DatasetLeft(c, name)
    BY <1>3, <1>4, <1>14, EventsShare DEF DatasetLeft
  <2>2. <<Top.group, name>> \in ObjectsMade[c] /\ c \in DOMAIN ObjectsMade
    BY <1>3, <2>1, SharesAre
  <2> QED BY <1>2, <2>2 DEF WalkInv, IsSharedOut
<1>15. ASSUME IsEvents(c), NEW i \in EventPlaces
       PROVE  places[i] # Top.group
  BY <1>1, <1>2, <1>4, <1>15, <1>a DEF PlacesInv
<1>16. ASSUME NEW i \in EventPlaces', NEW name \in Datasets
       PROVE  <<places'[i], name>> \in objects
  <2>1. CASE i \in EventPlaces
    BY <1>2, <1>8, <1>13, <2>1 DEF PlacesInv
  <2>2. CASE IsEvents(c) /\ i = n + 1
    BY <1>8, <1>14, <2>2
  <2> QED BY <1>12, <2>1, <2>2
<1>17. ASSUME NEW i \in EventPlaces', NEW j \in EventPlaces', places'[i] = places'[j]
       PROVE  i = j
  <2>1. CASE i \in EventPlaces /\ j \in EventPlaces
    BY <1>2, <1>8, <1>13, <1>17, <2>1 DEF PlacesInv
  <2>2. CASE IsEvents(c) /\ i = n + 1 /\ j \in EventPlaces
    BY <1>8, <1>13, <1>15, <1>17, <2>2
  <2>3. CASE IsEvents(c) /\ j = n + 1 /\ i \in EventPlaces
    BY <1>8, <1>13, <1>15, <1>17, <2>3
  <2> QED BY <1>12, <2>1, <2>2, <2>3
<1>18. PlacesInv'
  <2>1. Len(adding'.subscriptions) \in Nat
    BY <1>5 DEF Created
  <2>2. /\ writers' \in Seq(Created) /\ Len(places') = Len(writers') + 1 /\ IsRouter(router)'
    BY <1>2, <1>7, <1>8, <1>9 DEF PlacesInv
  <2>3. \A i \in EventPlaces' : \A name \in Datasets : <<places'[i], name>> \in objects'
    BY <1>9, <1>16
  <2>4. /\ adding' # None /\ phase' = "walking" /\ adding' \in Created /\ Top'.attributes = {}
        /\ making' = None
    BY <1>1, <1>3, <1>5, <1>9
  <2> QED BY <1>8, <1>9, <1>17, <2>1, <2>2, <2>3, <2>4 DEF PlacesInv
<1> QED BY <1>1, <1>3, <1>4, <1>18, PlacingStep

LEMMA StepSubscribe ==
  ASSUME NexusInv, SubscribeWriter
  PROVE  NexusInv'
<1> DEFINE sub == adding.subscriptions[subscribed + 1]
<1>1. /\ phase = "walking" /\ adding # None /\ subscribed < Len(adding.subscriptions)
      /\ router' = Subscribe(router, Len(writers), sub) /\ subscribed' = subscribed + 1
      /\ phase \in Running
      /\ UNCHANGED <<input, registration, phase, stack, making, defaults, contents, places, adding,
                     writers, error, fault>>
  BY DEF SubscribeWriter, Running
<1>2. MakingInv /\ PlacesInv
  BY <1>1, RunningSays
<1>3. making = None /\ making' = None /\ Left = {} /\ Top.attributes = {} /\ adding \in Created
      /\ subscribed \in Nat /\ IsRouter(router) /\ Len(writers) \in Nat
  BY <1>1, <1>2 DEF MakingInv, PlacesInv, Left
<1>4. adding.subscriptions \in Seq(Subscription)
  BY <1>3 DEF Created
<1>5. sub \in Subscription
  <2>1. subscribed + 1 \in 1..Len(adding.subscriptions)
    BY <1>1, <1>3, <1>4
  <2> QED BY <1>4, <2>1, ElementOfSeq
<1> HIDE DEF sub
<1>6. IsRouter(router')
  <2>1. sub.topic \in Topics
    BY <1>5 DEF Subscription
  <2> QED BY <1>1, <1>3, <1>5, <2>1, SubscribeRoutes
<1>7. EventPlaces' = EventPlaces
  BY <1>1 DEF EventPlaces, KindOf
<1>8. PlacesInv'
  <2>1. subscribed' \in Nat /\ subscribed' <= Len(adding.subscriptions)
    BY <1>1, <1>3, <1>4
  <2>2. Top' = Top /\ objects' = objects
    BY <1>1 DEF Top, contents
  <2> QED BY <1>1, <1>2, <1>3, <1>6, <1>7, <2>1, <2>2 DEF PlacesInv
<1> QED BY <1>1, <1>3, <1>8, PlacingStep

LEMMA StepPush ==
  ASSUME NexusInv, PushWriter
  PROVE  NexusInv'
<1>1. /\ phase = "walking" /\ adding # None /\ writers' = Append(writers, adding)
      /\ adding' = None /\ subscribed' = 0 /\ phase \in Running
      /\ UNCHANGED <<input, registration, phase, stack, making, defaults, contents, places, router,
                     error, fault>>
  BY DEF PushWriter, Running
<1>2. MakingInv /\ PlacesInv
  BY <1>1, RunningSays
<1>3. making = None /\ making' = None /\ Left = {} /\ Top.attributes = {}
      /\ IsRouter(router) /\ Len(writers) \in Nat /\ Len(places) = Len(writers) + 1
  BY <1>1, <1>2 DEF MakingInv, PlacesInv, Left
<1>b. PICK n : n = Len(writers)
  OBVIOUS
<1>4. /\ writers' \in Seq(Created) /\ Len(writers') = n + 1 /\ writers'[n + 1] = adding
      /\ \A i \in 1..n : writers'[i] = writers[i]
  BY <1>1, <1>2, <1>b DEF PlacesInv
<1>5. ASSUME NEW i \in 1..Len(places)
      PROVE  KindOf(i)' = KindOf(i)
  <2>1. CASE i \in 1..n
    BY <1>3, <1>4, <1>b, <2>1 DEF KindOf
  <2>2. CASE i = n + 1
    BY <1>3, <1>4, <1>b, <2>2 DEF KindOf
  <2> QED BY <1>3, <1>b, <2>1, <2>2
<1>6. EventPlaces' = EventPlaces
  BY <1>1, <1>5 DEF EventPlaces
<1>7. PlacesInv'
  <2>1. objects' = objects /\ router' = router /\ places' = places
    BY <1>1 DEF contents
  <2> QED BY <1>1, <1>2, <1>3, <1>4, <1>6, <1>b, <2>1 DEF PlacesInv
<1> QED BY <1>1, <1>3, <1>7, PlacingStep

LEMMA StepRoot ==
  ASSUME NexusInv, BeginRootAttributes
  PROVE  NexusInv' /\ Walked' = Walked
<1> DEFINE g == [Top EXCEPT !.attributes = DOMAIN document.attributes[0]]
<1>1. /\ phase = "walking" /\ making = None /\ adding = None /\ Top.attributes = {} /\ ~HasChild
      /\ Len(stack) = 1 /\ stack' = <<g>> /\ phase' = "root"
      /\ phase \in Running /\ phase' \in Running /\ Left = {} /\ Left' = {}
      /\ UNCHANGED <<input, registration, making, defaults, contents, placement, error, fault>>
  BY DEF BeginRootAttributes, AtReturn, Running, Left
<1>2. document' = document /\ registry' = registry /\ objects' = objects /\ attrs' = attrs
      /\ adding' = adding /\ making' = making /\ ascii_path' = ascii_path /\ defaults' = defaults
  BY <1>1 DEF input, contents, placement
<1>3. /\ StackInv /\ RootInv /\ PlacesInv /\ WalkInv /\ document \in Documents
  BY <1>1, RunningSays
<1>4. Top \in FrameType /\ FrameOK(Top) /\ Top.node = 0 /\ Top.next \in Nat
  BY <1>1, <1>3, TopType DEF StackInv, Top
<1>5. document.last[0] \in Nat /\ DOMAIN document.attributes[0] \subseteq AttributeNames
      /\ Top.next = document.last[0] + 1
  <2>1. document.last[0] \in Nat /\ DOMAIN document.attributes[0] \subseteq AttributeNames
    BY <1>3, Numbers
  <2>2. Top.next <= document.last[0] + 1 /\ ~(Top.next <= document.last[0])
    BY <1>1, <1>4 DEF FrameOK, HasChild
  <2> QED BY <1>4, <2>1, <2>2
<1>6. /\ g \in FrameType /\ g.node = 0 /\ g.group = Top.group /\ g.next = Top.next
      /\ g.attributes = DOMAIN document.attributes[0]
  BY <1>4, <1>5 DEF FrameType
<1>7. FrameOK(g)
  BY <1>4, <1>6 DEF FrameOK
<1> HIDE DEF g
<1>8. stack' = [stack EXCEPT ![Len(stack)] = g]
  BY <1>1, <1>3 DEF StackInv
<1>9. StackInv' /\ Len(stack') = 1 /\ Top' = g
  BY <1>1, <1>2, <1>3, <1>4, <1>6, <1>7, <1>8, ReplaceTop
<1>10. Walked' = Walked
  BY <1>6, <1>9 DEF Walked
<1>11. \A n, k : DatasetLeft(n, k)' <=> DatasetLeft(n, k)
  BY <1>1 DEF DatasetLeft
<1>12. ASSUME NEW n, NEW k
       PROVE  AttributeLeft(n, k) <=> n = 0
  BY <1>1 DEF AttributeLeft
<1>13. ASSUME NEW n, NEW k
       PROVE  AttributeLeft(n, k)' <=> n = 0 /\ k \in DOMAIN document.attributes[0]
  BY <1>1, <1>6, <1>9 DEF AttributeLeft
<1>14. \A k \in StringsOf(0) : k \in DOMAIN document.attributes[0]
  BY DEF StringsOf
<1>15. ItemsInv'
  BY <1>2, <1>3, <1>10, <1>12, <1>13, <1>14, ItemsKept DEF WalkInv
<1>16. IsSharedOut(ObjectsMade', objects')
  BY <1>2, <1>3, <1>10, <1>11, ObjectsKept DEF WalkInv
<1>17. IsSharedOut(AttributesMade', attrs')
  <2>1. \A a \in AttributesOf(0) : a[2] \in StringsOf(0)
    BY PlaceShare DEF IsPlace
  <2>2. \A n \in Walked : \A a \in AttributesOf(n) :
          AttributeLeft(n, a[2])' <=> AttributeLeft(n, a[2])
    BY <1>12, <1>13, <1>14, <2>1
  <2> QED BY <1>2, <1>3, <1>10, <2>2, AttributesKept DEF WalkInv
<1>18. WalkInv'
  BY <1>15, <1>16, <1>17 DEF WalkInv
<1>19. PlacesInv'
  BY <1>1, <1>2, <1>3, PlacesSame
<1>20. MakingInv'
  BY <1>1, <1>2 DEF MakingInv
<1>21. RootInv'
  BY <1>1, <1>2, <1>3, <1>4, <1>5, <1>6, <1>9 DEF RootInv
<1> QED BY <1>1, <1>9, <1>10, <1>18, <1>19, <1>20, <1>21, RunningStep

LEMMA StepDefault ==
  ASSUME NexusInv, NEW k \in Range(DefaultAttributes), AddDefaultAttribute(k)
  PROVE  NexusInv'
<1>1. /\ phase = "root" /\ Top.attributes = {} /\ defaults # <<>> /\ Head(defaults) = k
      /\ DefaultValue(k) = "ascii" /\ <<Top.group, k>> \notin attrs
      /\ attrs' = attrs \cup {<<Top.group, k>>} /\ defaults' = Tail(defaults)
      /\ phase \in Running
      /\ UNCHANGED <<input, registration, phase, stack, making, objects, placement, error, fault>>
  BY DEF AddDefaultAttribute, AtDefault, AttributeFits, Running
<1>2. document' = document /\ registry' = registry /\ objects' = objects /\ phase' = phase
      /\ adding' = adding /\ making' = making /\ ascii_path' = ascii_path /\ stack' = stack
      /\ Top' = Top /\ Maker' = Maker /\ Walked' = Walked
  BY <1>1 DEF input, placement, Top, Maker, Walked
<1>3. /\ StackInv /\ RootInv /\ PlacesInv /\ WalkInv /\ document \in Documents
      /\ ascii_path \in BOOLEAN
  BY <1>1, RunningSays DEF RegistryInv
<1>4. Top.group = 0 /\ making = None /\ adding = None /\ defaults \in DefaultsLeft
  BY <1>1, <1>3, WalkType DEF RootInv, StackInv, Top
<1>5. /\ Tail(defaults) \in DefaultsLeft /\ k \notin Range(defaults')
      /\ Range(defaults) = Range(defaults') \cup {k} /\ defaults' # DefaultAttributes
  BY <1>1, <1>4, NextDefault
<1>6. \A n, x : /\ DatasetLeft(n, x)' <=> DatasetLeft(n, x)
                /\ AttributeLeft(n, x)' <=> AttributeLeft(n, x)
  BY <1>2 DEF DatasetLeft, AttributeLeft, Left
<1>7. ItemsInv'
  BY <1>2, <1>3, <1>6, ItemsKept DEF WalkInv
<1>8. IsSharedOut(ObjectsMade', objects')
  BY <1>2, <1>3, <1>6, ObjectsKept DEF WalkInv
<1>9. IsSharedOut(AttributesMade', attrs')
  BY <1>1, <1>2, <1>3, <1>4, <1>5, <1>6, DefaultMade DEF WalkInv
<1>10. WalkInv'
  BY <1>7, <1>8, <1>9 DEF WalkInv
<1>11. PlacesInv'
  BY <1>1, <1>2, <1>3, <1>4, PlacesSame
<1>12. MakingInv'
  BY <1>2, <1>4 DEF MakingInv
<1>13. RootInv'
  <2>1. k = "file_name" => ascii_path
    BY <1>1 DEF DefaultValue
  <2>2. "file_name" \notin Range(defaults') => ascii_path
    BY <1>3, <1>5, <2>1 DEF RootInv
  <2> QED BY <1>1, <1>2, <1>3, <1>5, <2>2 DEF RootInv
<1>14. StackInv'
  BY <1>2, <1>3, StackSame
<1> QED BY <1>1, <1>2, <1>10, <1>11, <1>12, <1>13, <1>14, RunningStep

LEMMA StepFinish ==
  ASSUME NexusInv, FinishStructure
  PROVE  NexusInv'
<1>1. /\ phase = "root" /\ Top.attributes = {} /\ defaults = <<>> /\ phase' = "ready"
      /\ phase \in Running /\ phase' \in Running
      /\ UNCHANGED <<input, registration, stack, making, defaults, contents, placement, error,
                     fault>>
  BY DEF FinishStructure, Running
<1>2. document' = document /\ registry' = registry /\ objects' = objects /\ attrs' = attrs
      /\ adding' = adding /\ making' = making /\ ascii_path' = ascii_path /\ stack' = stack
      /\ defaults' = defaults /\ Top' = Top /\ Maker' = Maker /\ Walked' = Walked
  BY <1>1 DEF input, contents, placement, Top, Maker, Walked
<1>3. /\ StackInv /\ RootInv /\ PlacesInv /\ WalkInv /\ document \in Documents
  BY <1>1, RunningSays
<1>4. making = None /\ adding = None
  BY <1>1, <1>3 DEF RootInv
<1>5. \A n, x : /\ DatasetLeft(n, x)' <=> DatasetLeft(n, x)
                /\ AttributeLeft(n, x)' <=> AttributeLeft(n, x)
  BY <1>1, <1>2 DEF DatasetLeft, AttributeLeft, Left
<1>6. ItemsInv'
  BY <1>2, <1>3, <1>5, ItemsKept DEF WalkInv
<1>7. IsSharedOut(ObjectsMade', objects')
  BY <1>2, <1>3, <1>5, ObjectsKept DEF WalkInv
<1>8. IsSharedOut(AttributesMade', attrs')
  BY <1>2, <1>3, <1>5, AttributesKept DEF WalkInv
<1>9. WalkInv'
  BY <1>6, <1>7, <1>8 DEF WalkInv
<1>10. PlacesInv'
  BY <1>1, <1>2, <1>3, <1>4, PlacesSame
<1>11. MakingInv'
  BY <1>2, <1>4 DEF MakingInv
<1>12. RootInv'
  BY <1>1, <1>2, <1>3 DEF RootInv
<1>13. StackInv'
  BY <1>2, <1>3, StackSame
<1> QED BY <1>1, <1>9, <1>10, <1>11, <1>12, <1>13, RunningStep

LEMMA SameVerdict ==
  ASSUME UNCHANGED <<document, registry, ascii_path>>
  PROVE  /\ AllObjects' = AllObjects /\ AllAttributes' = AllAttributes
         /\ Instantiable' <=> Instantiable
<1>1. Reached' = Reached
      /\ \A n : /\ IsPlace(n)' <=> IsPlace(n)
                /\ ObjectsOf(n)' = ObjectsOf(n)
                /\ AttributesOf(n)' = AttributesOf(n)
                /\ StringsOf(n)' = StringsOf(n)
  BY SameDocument
<1>2. RootAttributes' = RootAttributes
  BY DEF RootAttributes
<1>3. AllObjects' = AllObjects /\ AllAttributes' = AllAttributes
  BY <1>1, <1>2 DEF AllObjects, AllAttributes
<1>4. Instantiable' <=> Instantiable
  BY <1>1, <1>2 DEF Instantiable
<1> QED BY <1>3, <1>4

LEMMA StepFails ==
  ASSUME NexusInv, BuildFails
  PROVE  NexusInv'
<1>1. /\ phase' = "failed" /\ error' \in {"NexusStructureError", "Hdf5Error"}
      /\ phase \in {"walking", "root"}
      /\ UNCHANGED <<input, registration, stack, making, defaults, objects, placement>>
  <2>1. CASE Refuse
    BY <2>1 DEF BuildFails, Refuse, RefuseChild, RefuseGroup, RefuseAttribute, RefuseModule, Fail,
                AtChild, AtAttribute, AtDefault, Making, CallFails
  <2>2. CASE CallFails
    BY <2>2 DEF BuildFails, CallFails, Fail, AtChild, AtAttribute, AtDefault, Making
  <2> QED BY <2>1, <2>2 DEF BuildFails
<1>2. phase \in Running /\ phase # "starting"
  BY <1>1 DEF Running
<1>3. /\ StackInv /\ RootInv /\ PlacesInv /\ MakingInv /\ WalkInv /\ document \in Documents
      /\ RegistryInv /\ registered = Len(registry) /\ Parses(document) /\ fault = FALSE
  BY <1>2, RunningSays
<1>4. document' = document /\ registry' = registry /\ objects' = objects
      /\ adding' = adding /\ making' = making /\ ascii_path' = ascii_path /\ stack' = stack
      /\ defaults' = defaults /\ Top' = Top /\ Maker' = Maker /\ Left' = Left
  BY <1>1 DEF input, placement, Top, Maker, Left
<1>5. adding = None
  <2>1. CASE phase = "root"
    BY <1>3, <2>1 DEF RootInv
  <2>2. CASE making # None
    BY <1>3, <2>2 DEF MakingInv
  <2>3. CASE phase = "walking" /\ making = None
    BY <2>3 DEF BuildFails, Refuse, RefuseChild, RefuseGroup, RefuseAttribute, RefuseModule,
                CallFails, AtChild, AtAttribute, AtDefault, Making
  <2> QED BY <1>1, <2>1, <2>2, <2>3
<1>6. error' # None
  BY <1>1, OptionAssumption
<1>7. fault' \in BOOLEAN /\ (~fault' => Refuse)
  BY <1>3 DEF BuildFails, CallFails
<1>8. FailedInv'
  <2>1. objects \subseteq AllObjects /\ attrs \subseteq AllAttributes
    BY <1>3, ContentsSaid
  <2>3. attrs' \subseteq AllAttributes
    <3>1. CASE attrs' = attrs
      BY <2>1, <3>1
    <3>2. ASSUME NEW k, attrs' = attrs \cup {<<Top.group, k>>},
                 \/ AtAttribute(k) /\ Attribute(k) = "ascii"
                 \/ AtDefault(k) /\ k \in Range(DefaultAttributes)
                 \/ Making("attribute", "NX_class") /\ k = "NX_class"
          PROVE  attrs' \subseteq AllAttributes
      <4>1. AtAttribute(k) => ~AtDefault(k) /\ ~Making("attribute", "NX_class")
        BY DEF AtAttribute, AtDefault, Making
      <4>2. <<Top.group, k>> \in AllAttributes
        BY <3>2, <4>1, NextAttributeSaid
      <4> QED BY <2>1, <3>2, <4>2
    <3> QED BY <3>1, <3>2 DEF BuildFails, CallFails, AttributeFails
  <2>2. /\ AllObjects' = AllObjects /\ AllAttributes' = AllAttributes
        /\ Instantiable' <=> Instantiable
    BY <1>4, SameVerdict
  <2>4. ~fault' => ~Instantiable
    BY <1>7, RefusedIsUnbuildable
  <2> QED BY <1>4, <2>1, <2>2, <2>3, <2>4 DEF FailedInv
<1>9. StackInv'
  BY <1>3, <1>4, StackSame
<1>10. MakingInv'
  <2>1. IsEvents(Maker)' <=> IsEvents(Maker)
    BY <1>4 DEF IsEvents
  <2> QED BY <1>1, <1>3, <1>4, <2>1 DEF MakingInv
<1>11. RootInv'
  BY <1>1, <1>3, <1>4 DEF RootInv
<1>12. PlacesInv'
  <2>1. IsEvents(Maker)' <=> IsEvents(Maker)
    BY <1>4 DEF IsEvents
  <2>2. making # None /\ IsEvents(Maker) /\ <<"dataset", "event_time_zero">> \notin Left =>
          \A i \in EventPlaces : places[i] # Top.group
    BY <1>3 DEF PlacesInv
  <2> QED BY <1>1, <1>3, <1>4, <1>5, <2>1, <2>2, PlacesSame
<1>13. RegistryInv'
  BY <1>1, <1>2, <1>3, RegistrySame
<1>14. Parses(document)'
  BY <1>3, <1>4
<1> QED BY <1>1, <1>6, <1>7, <1>8, <1>9, <1>10, <1>11, <1>12, <1>13, <1>14
        DEF NexusInv, Begun, Running, Phases

LEMMA StepStutters ==
  ASSUME NexusInv, UNCHANGED vars
  PROVE  NexusInv'
<1>1. UNCHANGED <<document, registry, run, ascii_path, registered, factories, phase, stack, making,
                  defaults, objects, attrs, places, adding, subscribed, writers, router, error,
                  fault>>
  BY DEF vars, input, registration, contents, placement
<1>2. /\ Top' = Top /\ Maker' = Maker /\ Left' = Left
  BY <1>1 DEF Top, Maker, Left
<1>3. RegistryInv'
  BY <1>1, RegistrySame DEF NexusInv, input, registration
<1>4. NotBegunInv => NotBegunInv'
  BY <1>1 DEF NotBegunInv
<1>5. StackInv => StackInv'
  BY <1>1, StackSame
<1>6. MakingInv => MakingInv'
  <2>1. IsEvents(Maker)' <=> IsEvents(Maker)
    BY <1>1, <1>2 DEF IsEvents
  <2> QED BY <1>1, <1>2, <2>1 DEF MakingInv
<1>7. RootInv => RootInv'
  BY <1>1, <1>2 DEF RootInv
<1>8. PlacesInv => PlacesInv'
  <2>1. IsEvents(Maker)' <=> IsEvents(Maker)
    BY <1>1, <1>2 DEF IsEvents
  <2>2. EventPlaces' = EventPlaces /\ IsRouter(router)' = IsRouter(router)
    BY <1>1 DEF EventPlaces, KindOf
  <2> QED BY <1>1, <1>2, <2>1, <2>2 DEF PlacesInv
<1>9. WalkInv => WalkInv'
  BY <1>1, <1>2, WalkSame DEF input, contents
<1>10. FailedInv => FailedInv'
  BY <1>1, SameVerdict DEF FailedInv
<1>11. Parses(document)' <=> Parses(document)
  BY <1>1
<1> QED BY <1>1, <1>3, <1>4, <1>5, <1>6, <1>7, <1>8, <1>9, <1>10, <1>11 DEF NexusInv

LEMMA NexusStep == NexusInv /\ [NexusNext]_vars => NexusInv'
<1> SUFFICES ASSUME NexusInv, [NexusNext]_vars PROVE NexusInv'
  OBVIOUS
<1>1. CASE UNCHANGED vars
  BY <1>1, StepStutters
<1>2. CASE Register \/ ParseStructure \/ ReturnFromGroup \/ AddNexusGroup \/ FindFactory
  BY <1>2, StepRegister, StepParse, StepReturn, StepGroup, StepFind
<1>3. CASE \E k \in AttributeNames : AddAttribute(k)
  BY <1>3, StepAttribute
<1>4. CASE \E name \in Datasets : MakeDataset(name)
  BY <1>4, StepDataset
<1>5. CASE MakeAttribute("NX_class") \/ CreateWriter \/ SubscribeWriter \/ PushWriter
  BY <1>5, StepNXclass, StepCreate, StepSubscribe, StepPush
<1>6. CASE \E k \in Range(DefaultAttributes) : AddDefaultAttribute(k)
  BY <1>6, StepDefault
<1>7. CASE BeginRootAttributes \/ FinishStructure \/ BuildFails
  BY <1>7, StepRoot, StepFinish, StepFails
<1> QED BY <1>1, <1>2, <1>3, <1>4, <1>5, <1>6, <1>7 DEF NexusNext

LEMMA NexusInvariant == NexusSpec => []NexusInv
<1> QED BY NexusStart, NexusStep, PTL DEF NexusSpec

-----------------------------------------------------------------------------
(***************************************************************************)
(* What the invariant says.                                                *)
(***************************************************************************)
LEMMA TypesFollow == NexusInv => NexusTypeOK
<1> SUFFICES ASSUME NexusInv PROVE NexusTypeOK
  OBVIOUS
<1>1. /\ phase \in Phases /\ fault \in BOOLEAN
      /\ (error # None) = (phase \in {"rejected", "failed"})
  BY DEF NexusInv
<1>2. CASE phase \notin Begun
  <2>1. /\ stack = <<>> /\ making = None /\ adding = None /\ places = <<>> /\ writers = <<>>
        /\ router = EmptyRouter
    BY <1>2 DEF NexusInv, NotBegunInv
  <2>2. IsRouter(router)
    BY <2>1 DEF IsRouter, EmptyRouter, EmptyMap
  <2>3. DOMAIN stack = {} /\ Len(places) = 0 /\ Len(writers) = 0 /\ writers \in Seq(Created)
    BY <2>1
  <2>4. phase \notin {"walking", "root"}
    BY <1>2 DEF Begun, Running
  <2> QED BY <1>1, <2>1, <2>2, <2>3, <2>4 DEF NexusTypeOK
<1>3. CASE phase \in Begun
  <2>1. StackInv /\ MakingInv /\ PlacesInv
    BY <1>3 DEF NexusInv
  <2>2. ASSUME NEW i \in DOMAIN stack \ {1}
        PROVE  <<stack[i - 1].group, document.nodes[stack[i].node].name>> \in objects
    <3>1. DOMAIN stack = 1..Len(stack) /\ Len(stack) \in Nat
      BY <2>1 DEF StackInv
    <3>2. i - 1 \in 1..(Len(stack) - 1) /\ (i - 1) + 1 = i
      BY <2>2, <3>1
    <3>3. Calls(stack[i - 1], stack[i])
      BY <2>1, <3>2 DEF StackInv
    <3> QED BY <3>3 DEF Calls
  <2>3. stack # <<>> /\ stack[1].node = 0
    BY <2>1 DEF StackInv
  <2>4. /\ making \in Creating \cup {None} /\ (making = None \/ adding = None)
        /\ making # None => phase \in {"walking", "failed"}
    BY <2>1 DEF MakingInv
  <2>5. /\ adding \in Created \cup {None} /\ (adding # None => phase = "walking")
        /\ adding # None => subscribed <= Len(adding.subscriptions)
        /\ writers \in Seq(Created)
        /\ IsRouter(router) /\ Len(places) = Len(writers) + (IF adding = None THEN 0 ELSE 1)
    BY <2>1 DEF PlacesInv
  <2> QED BY <1>1, <2>2, <2>3, <2>4, <2>5 DEF NexusTypeOK
<1> QED BY <1>2, <1>3

\* When the file is ready all objects have been walked, and nothing is left of any of them.
LEMMA ReadySays ==
  ASSUME NexusInv, phase = "ready"
  PROVE  /\ Parses(document) /\ ascii_path /\ WalkInv /\ Walked = Reached
         /\ \A n \in Walked : /\ ObjectsMade[n] = ObjectsOf(n)
                              /\ AttributesMade[n] = AttributesOf(n)
                              /\ \A k : ~AttributeLeft(n, k)
         /\ AttributesMade[-1] = RootAttributes
<1>1. phase \in Running
  BY DEF Running
<1>2. /\ StackInv /\ RootInv /\ WalkInv /\ document \in Documents /\ Parses(document)
  BY <1>1, RunningSays
<1>3. /\ making = None /\ Top.attributes = {} /\ defaults = <<>>
      /\ Top.next = document.last[0] + 1
  BY <1>2 DEF RootInv
<1>4. Range(defaults) = {} /\ Left = {}
  BY <1>3, EventCallsAre DEF Left
<1>5. ascii_path
  BY <1>2, <1>4 DEF RootInv
<1>6. Walked = Reached
  <2>1. Walked = 0..document.last[0]
    BY <1>2, <1>3, Numbers DEF Walked
  <2>2. Reached \subseteq 0..document.last[0]
    BY <1>2, Numbers DEF Reached, ReachedIn
  <2> QED BY <1>2, <2>1, <2>2, ContentsSaid
<1>7. \A n, k : ~AttributeLeft(n, k) /\ ~DatasetLeft(n, k)
  BY <1>3, <1>4 DEF AttributeLeft, DatasetLeft
<1>8. ASSUME NEW n \in Walked
      PROVE  ObjectsMade[n] = ObjectsOf(n) /\ AttributesMade[n] = AttributesOf(n)
  BY <1>7, SharesAre
<1>9. AttributesMade[-1] = RootAttributes
  BY <1>4, SharesAre DEF RootAttributes
<1> QED BY <1>2, <1>5, <1>6, <1>7, <1>8, <1>9

LEMMA VerdictFollows == NexusInv => BuiltIffInstantiable
<1> SUFFICES ASSUME NexusInv PROVE BuiltIffInstantiable
  OBVIOUS
<1>1. ASSUME phase = "ready"
      PROVE  Instantiable
  <2>1. /\ Parses(document) /\ ascii_path /\ WalkInv /\ Walked = Reached
        /\ \A n \in Walked : /\ ObjectsMade[n] = ObjectsOf(n)
                             /\ AttributesMade[n] = AttributesOf(n)
                             /\ \A k : ~AttributeLeft(n, k)
        /\ AttributesMade[-1] = RootAttributes
    BY <1>1, ReadySays
  <2>2. DOMAIN ObjectsMade = Walked /\ DOMAIN AttributesMade = Walked \cup {-1}
    BY SharesAre
  <2>3. ASSUME NEW n \in Reached
        PROVE  /\ IsPlace(n) \/ IsModuleOf(document.nodes[n], registry)
               /\ \A k \in StringsOf(n) : document.attributes[n][k] = "ascii"
               /\ AttributesOf(n) \cap RootAttributes = {}
    <3>1. /\ IsPlace(n) \/ IsModuleOf(document.nodes[n], registry)
          /\ \A k \in StringsOf(n) : document.attributes[n][k] = "ascii"
      BY <2>1 DEF WalkInv, ItemsInv
    <3>2. n # -1 /\ n \in Walked
      <4>1. n \in Walked
        BY <2>1
      <4> QED BY <4>1 DEF Walked
    <3>3. AttributesMade[n] \cap AttributesMade[-1] = {}
      BY <2>1, <2>2, <3>2 DEF WalkInv, IsSharedOut
    <3> QED BY <2>1, <3>1, <3>2, <3>3
  <2>4. ASSUME NEW m \in Reached, NEW n \in Reached, m # n
        PROVE  ObjectsOf(m) \cap ObjectsOf(n) = {} /\ AttributesOf(m) \cap AttributesOf(n) = {}
    <3>1. ObjectsMade[m] \cap ObjectsMade[n] = {}
      BY <2>1, <2>2, <2>4 DEF WalkInv, IsSharedOut
    <3>2. AttributesMade[m] \cap AttributesMade[n] = {}
      BY <2>1, <2>2, <2>4 DEF WalkInv, IsSharedOut
    <3> QED BY <2>1, <3>1, <3>2
  <2> QED BY <2>1, <2>3, <2>4 DEF Instantiable
<1>2. ASSUME phase = "rejected"
      PROVE  ~Instantiable
  BY <1>2 DEF NexusInv, Instantiable
<1>3. ASSUME phase = "failed", ~fault
      PROVE  ~Instantiable
  BY <1>3 DEF NexusInv, FailedInv
<1> QED BY <1>1, <1>2, <1>3 DEF BuiltIffInstantiable

LEMMA ContentsFollow == NexusInv => HoldsTheStructure
<1> SUFFICES ASSUME NexusInv, phase # "starting", Parses(document) PROVE
      /\ objects \subseteq AllObjects /\ attrs \subseteq AllAttributes
      /\ phase = "ready" => objects = AllObjects /\ attrs = AllAttributes
  BY DEF HoldsTheStructure, AllObjects, AllAttributes
<1>1. phase \in Running \cup {"failed"}
  BY DEF NexusInv, Phases, Running
<1>2. CASE phase = "failed"
  BY <1>2 DEF NexusInv, FailedInv
<1>3. CASE phase \in Running
  <2>1. objects \subseteq AllObjects /\ attrs \subseteq AllAttributes
    BY <1>3, RunningSays, ContentsSaid
  <2>2. ASSUME phase = "ready"
        PROVE  AllObjects \subseteq objects /\ AllAttributes \subseteq attrs
    <3>1. /\ WalkInv /\ Walked = Reached
          /\ \A n \in Walked : /\ ObjectsMade[n] = ObjectsOf(n)
                               /\ AttributesMade[n] = AttributesOf(n)
          /\ AttributesMade[-1] = RootAttributes
      BY <2>2, ReadySays
    <3>2. DOMAIN ObjectsMade = Walked /\ DOMAIN AttributesMade = Walked \cup {-1}
      BY SharesAre
    <3>3. objects = UNION {ObjectsMade[n] : n \in Walked}
      BY <3>1, <3>2 DEF WalkInv, IsSharedOut
    <3>4. attrs = UNION {AttributesMade[n] : n \in Walked \cup {-1}}
      BY <3>1, <3>2 DEF WalkInv, IsSharedOut
    <3>5. AllObjects \subseteq objects
      BY <3>1, <3>3 DEF AllObjects
    <3>6. AllAttributes \subseteq attrs
      BY <3>1, <3>4 DEF AllAttributes
    <3> QED BY <3>5, <3>6
  <2> QED BY <2>1, <2>2
<1> QED BY <1>1, <1>2, <1>3

LEMMA OwnDatasetsFollow == NexusInv => OwnDatasets
<1> SUFFICES ASSUME NexusInv PROVE OwnDatasets
  OBVIOUS
<1>1. CASE phase \notin Begun
  <2>1. EventWriters = {}
    BY <1>1 DEF NexusInv, NotBegunInv, EventWriters
  <2> QED BY <2>1 DEF OwnDatasets
<1>2. CASE phase \in Begun
  <2>1. PlacesInv
    BY <1>2 DEF NexusInv
  <2>2. EventWriters \subseteq EventPlaces
    BY <2>1 DEF PlacesInv, EventWriters, EventPlaces, KindOf
  <2> QED BY <2>1, <2>2 DEF PlacesInv, OwnDatasets
<1> QED BY <1>1, <1>2

-----------------------------------------------------------------------------
(***************************************************************************)
(* Whatever the document, the variables of the build have their types, an  *)
(* error is returned exactly when the build is rejected or has failed, and *)
(* each call of add_nexus_group is for a group that its caller has made.   *)
(***************************************************************************)
THEOREM NexusTypes == NexusSpec => []NexusTypeOK
<1> QED BY NexusInvariant, TypesFollow, PTL

(***************************************************************************)
(* Whether InProgressFile::new succeeds is decided by the document, the    *)
(* registered modules and the file's path, whatever the order in which the *)
(* attributes are written, as long as no HDF5 call fails of itself.        *)
(***************************************************************************)
THEOREM Verdict == NexusSpec => []BuiltIffInstantiable
<1> QED BY NexusInvariant, VerdictFollows, PTL

(***************************************************************************)
(* At every point of the build, and after it has failed, the file holds    *)
(* nothing that the structure does not say, and once it is ready all of it. *)
(***************************************************************************)
THEOREM Contents == NexusSpec => []HoldsTheStructure
<1> QED BY NexusInvariant, ContentsFollow, PTL

(***************************************************************************)
(* No two NXevent_data writers are placed in one group, whatever the       *)
(* structure says: each has the three datasets it appends to for itself.   *)
(***************************************************************************)
THEOREM DatasetsAreOwn == NexusSpec => []OwnDatasets
<1> QED BY NexusInvariant, OwnDatasetsFollow, PTL
=============================================================================
