----------------------------- MODULE BuildProofs ---------------------------
(***************************************************************************)
(* The walk of NexusStructure implements the build of InProgressFile: what *)
(* is proved of a file for every list of modules is then about every       *)
(* document, and the modules are placed in the order of the text from      *)
(* whatever depth.  The list of a document is indexed by rank, which is    *)
(* how many modules the text has before one.                               *)
(***************************************************************************)
EXTENDS NexusProofs

TheModules == Modules(document, registry)

\* The modules that have a writer, which is being added or has been
Placed == {m \in TheModules : m \in Walked /\ ~(making # None /\ m = Maker)}

PlacedInv == phase \in Running => Len(places) = Cardinality(Placed)

-----------------------------------------------------------------------------
(***************************************************************************)
(* The modules of a document in order.                                     *)
(***************************************************************************)
LEMMA ModulesFinite ==
  ASSUME NEW d \in Documents, NEW r
  PROVE  /\ IsFiniteSet(Modules(d, r)) /\ Cardinality(Modules(d, r)) \in Nat
         /\ Modules(d, r) \subseteq Nat
<1>1. DOMAIN d.nodes = 0..d.last[0] /\ d.last[0] \in Nat
  BY DocumentAssumption DEF IsDocument
<1>2. Modules(d, r) \in SUBSET (0..d.last[0])
  BY <1>1 DEF Modules, ReachedIn
<1>3. IsFiniteSet(0..d.last[0])
  BY <1>1, FS_Interval
<1>4. IsFiniteSet(Modules(d, r))
  BY <1>2, <1>3, FS_Subset
<1> QED BY <1>1, <1>2, <1>4, FS_CardinalityType

LEMMA RankBelow ==
  ASSUME NEW d \in Documents, NEW r, NEW m \in Modules(d, r), NEW n \in Modules(d, r), m < n
  PROVE  Rank(d, r, m) < Rank(d, r, n)
<1> DEFINE M == Modules(d, r)
           A == {x \in M : x < m}
           B == {x \in M : x < n}
<1>1. IsFiniteSet(M) /\ M \subseteq Nat
  BY ModulesFinite
<1>2. A \in SUBSET B /\ B \in SUBSET M /\ m \in B /\ m \notin A
  BY <1>1
<1>3. IsFiniteSet(B) /\ IsFiniteSet(A)
  BY <1>1, <1>2, FS_Subset
<1>4. Cardinality(A) <= Cardinality(B) /\ Cardinality(A) # Cardinality(B)
  BY <1>2, <1>3, FS_Subset
<1>5. Cardinality(A) \in Nat /\ Cardinality(B) \in Nat
  BY <1>3, FS_CardinalityType
<1>6. Rank(d, r, m) = Cardinality(A) /\ Rank(d, r, n) = Cardinality(B)
  BY DEF Rank
<1> QED BY <1>4, <1>5, <1>6

LEMMA RankIsBelowAll ==
  ASSUME NEW d \in Documents, NEW r, NEW n \in Modules(d, r)
  PROVE  Rank(d, r, n) \in Nat /\ Rank(d, r, n) < Cardinality(Modules(d, r))
<1> DEFINE M == Modules(d, r)
           A == {x \in M : x < n}
<1>1. IsFiniteSet(M) /\ M \subseteq Nat /\ Cardinality(M) \in Nat
  BY ModulesFinite
<1>2. A \in SUBSET M /\ n \notin A
  BY <1>1
<1>3. IsFiniteSet(A) /\ Cardinality(A) <= Cardinality(M) /\ Cardinality(A) # Cardinality(M)
  BY <1>1, <1>2, FS_Subset
<1>4. Cardinality(A) \in Nat
  BY <1>3, FS_CardinalityType
<1>5. Rank(d, r, n) = Cardinality(A)
  BY DEF Rank
<1> QED BY <1>1, <1>3, <1>4, <1>5

\* The list has each module at its rank.
LEMMA SpecAt ==
  ASSUME NEW d \in Documents, NEW r, NEW n \in Modules(d, r)
  PROVE  Specs(d, r)[Rank(d, r, n) + 1] = SpecIn(d.nodes[n], r)
<1> DEFINE M == Modules(d, r)
           k == Rank(d, r, n)
           c == CHOOSE x \in M : Rank(d, r, x) = k
<1>1. M \subseteq Nat /\ Cardinality(M) \in Nat /\ k \in Nat /\ k < Cardinality(M)
  BY ModulesFinite, RankIsBelowAll
<1>2. c \in M /\ Rank(d, r, c) = k
  OBVIOUS
<1>3. c = n
  <2>1. ~(c < n) /\ ~(n < c)
    <3>1. c < n => Rank(d, r, c) < k
      BY <1>2, RankBelow
    <3>2. n < c => k < Rank(d, r, c)
      BY <1>2, RankBelow
    <3> QED BY <1>1, <1>2, <3>1, <3>2
  <2>2. c \in Nat /\ n \in Nat
    BY <1>1, <1>2
  <2> QED BY <2>1, <2>2
<1>4. k + 1 \in 1..Cardinality(M) /\ (k + 1) - 1 = k
  BY <1>1
<1>5. Specs(d, r)[k + 1] = SpecIn(d.nodes[CHOOSE x \in M : Rank(d, r, x) = (k + 1) - 1], r)
  BY <1>4 DEF Specs
<1> QED BY <1>3, <1>4, <1>5

\* The set of all values, for the lemmas on sequences
LEMMA SpecsType ==
  ASSUME NEW d \in Documents, NEW r
  PROVE  /\ Specs(d, r) \in Seq(Range(Specs(d, r)))
         /\ Len(Specs(d, r)) = Cardinality(Modules(d, r))
<1>1. Cardinality(Modules(d, r)) \in Nat
  BY ModulesFinite
<1>2. DOMAIN Specs(d, r) = 1..Cardinality(Modules(d, r))
  BY DEF Specs
<1>3. \A i \in 1..Cardinality(Modules(d, r)) : Specs(d, r)[i] \in Range(Specs(d, r))
  BY <1>2 DEF Range
<1>4. Specs(d, r) = [i \in 1..Cardinality(Modules(d, r)) |-> Specs(d, r)[i]]
  BY DEF Specs
<1> HIDE DEF Specs
<1> QED BY <1>1, <1>2, <1>3, <1>4

-----------------------------------------------------------------------------
(***************************************************************************)
(* How many of them have writers.                                          *)
(***************************************************************************)
LEMMA PlacedKept ==
  ASSUME PlacedInv, phase \in Running, UNCHANGED <<document, registry, places>>, Placed' = Placed
  PROVE  PlacedInv'
BY DEF PlacedInv

LEMMA PlacedSame ==
  ASSUME UNCHANGED <<document, registry>>, Walked' = Walked, making = None, making' = None
  PROVE  Placed' = Placed
BY DEF Placed, TheModules

\* A step that does not move the walk
LEMMA PlacedStays ==
  ASSUME UNCHANGED <<document, registry, stack>>, (making' = None) <=> (making = None)
  PROVE  Placed' = Placed
<1>1. Walked' = Walked /\ Maker' = Maker
  BY DEF Walked, Maker, Top
<1> QED BY <1>1 DEF Placed, TheModules

\* A module is created: it is the one whose rank is the number of those before it.
LEMMA MakerIsNext ==
  ASSUME NexusInv, PlacedInv, phase = "walking", making # None
  PROVE  /\ Maker \in TheModules /\ Len(places) = Rank(document, registry, Maker)
         /\ Placed = {m \in TheModules : m < Maker}
         /\ making.spec = SpecIn(document.nodes[Maker], registry)
<1>1. phase \in Running
  BY DEF Running
<1>2. /\ StackInv /\ MakingInv /\ WalkInv /\ document \in Documents
  BY <1>1, RunningSays
<1>3. /\ Maker \in Walked /\ Maker # 0 /\ IsModuleOf(document.nodes[Maker], registry)
      /\ making.spec = SpecIn(document.nodes[Maker], registry)
  BY <1>2, WalkType DEF MakingInv
<1>4. Maker \in TheModules
  BY <1>2, <1>3 DEF WalkInv, ItemsInv, TheModules, Modules, Reached
<1>5. Top.next \in Nat /\ TheModules \subseteq Nat
  BY <1>2, TopType, ModulesFinite DEF TheModules
<1>6. ASSUME NEW m \in TheModules
      PROVE  m \in Walked /\ ~(making # None /\ m = Maker) <=> m < Maker
  <2>1. m \in Nat
    BY <1>5
  <2>2. m \in Walked <=> m <= Top.next - 1
    BY <1>5, <2>1 DEF Walked
  <2> QED BY <1>5, <2>1, <2>2 DEF Maker
<1>7. Placed = {m \in TheModules : m < Maker}
  BY <1>6 DEF Placed
<1> QED BY <1>1, <1>3, <1>4, <1>7 DEF PlacedInv, Rank, TheModules

LEMMA PlacedCreate ==
  ASSUME NexusInv, PlacedInv, CreateWriter
  PROVE  PlacedInv'
<1>1. /\ phase = "walking" /\ making # None /\ making' = None /\ phase \in Running
      /\ places' = Append(places, Top.group) /\ stack' = stack
      /\ document' = document /\ registry' = registry
  BY DEF CreateWriter, Running, input
<1>2. document \in Documents /\ PlacesInv /\ StackInv
  BY <1>1, RunningSays
<1>3. Maker \in TheModules /\ Placed = {m \in TheModules : m < Maker}
  BY <1>1, MakerIsNext
<1>4. Maker \in Walked
  BY <1>2, WalkType
<1>5. Walked' = Walked /\ TheModules' = TheModules
  BY <1>1 DEF Walked, Top, TheModules
<1>6. Placed' = Placed \cup {Maker} /\ Maker \notin Placed
  BY <1>1, <1>3, <1>4, <1>5 DEF Placed
<1>7. IsFiniteSet(Placed)
  <2>1. Placed \in SUBSET TheModules /\ IsFiniteSet(TheModules)
    BY <1>2, ModulesFinite DEF Placed, TheModules
  <2> QED BY <2>1, FS_Subset
<1>8. Cardinality(Placed') = Cardinality(Placed) + 1
  BY <1>6, <1>7, FS_AddElement
<1>9. Len(places') = Len(places) + 1
  BY <1>1, <1>2 DEF PlacesInv
<1> QED BY <1>1, <1>8, <1>9 DEF PlacedInv

LEMMA PlacedStep ==
  ASSUME NexusInv, PlacedInv, [NexusNext]_vars
  PROVE  PlacedInv'
<1>1. CASE Register
  BY <1>1 DEF Register, PlacedInv, Running
<1>2. CASE ParseStructure
  <2>1. SUFFICES ASSUME phase' \in Running PROVE Len(places') = Cardinality(Placed')
    BY DEF PlacedInv
  <2>2. /\ phase = "starting" /\ phase' = "walking" /\ making' = making /\ places' = places
        /\ stack' = <<Frame(0, 0, {})>>
    BY <1>2, <2>1 DEF ParseStructure, Running, placement
  <2>3. places' = <<>> /\ making' = None
    BY <2>2 DEF NexusInv, Begun, Running, NotBegunInv
  <2>4. Top'.next = 1
    BY <2>2 DEF Top, Frame
  <2>5. Walked' = {0}
    BY <2>4 DEF Walked
  <2>6. 0 \notin TheModules'
    BY DEF TheModules, Modules
  <2>7. Placed' = {}
    BY <2>5, <2>6 DEF Placed
  <2> QED BY <2>3, <2>7, FS_EmptySet
<1>3. CASE ReturnFromGroup
  <2>1. Walked' = Walked /\ making = None /\ making' = None /\ phase \in Running
        /\ UNCHANGED <<document, registry, places>>
    BY <1>3, StepReturn DEF ReturnFromGroup, AtReturn, Running, input, placement
  <2> QED BY <2>1, PlacedKept, PlacedSame
<1>4. CASE AddNexusGroup
  <2>1. /\ Walked' = Walked \cup {Top.next} /\ making = None /\ making' = None
        /\ phase \in Running /\ UNCHANGED <<document, registry, places>>
        /\ IsGroup(document.nodes[Top.next])
    BY <1>4, StepGroup DEF AddNexusGroup, AtChild, Running, input, placement, Child
  <2>2. Top.next \notin TheModules
    BY <2>1, Exclusive DEF TheModules, Modules, IsModuleOf
  <2>3. Placed' = Placed
    BY <2>1, <2>2 DEF Placed, TheModules
  <2> QED BY <2>1, <2>3, PlacedKept
<1>5. CASE FindFactory
  <2>1. /\ Walked' = Walked \cup {Maker'} /\ Maker' \notin Walked /\ making = None
        /\ phase \in Running /\ UNCHANGED <<document, registry, places>> /\ phase' = phase
        /\ making' # None
    BY <1>5, StepFind DEF FindFactory, AtChild, Running, input, placement
  <2>2. Placed' = Placed
    BY <2>1 DEF Placed, TheModules
  <2> QED BY <2>1, <2>2, PlacedKept
<1>6. ASSUME NEW k \in AttributeNames, AddAttribute(k) PROVE PlacedInv'
  <2>1. Walked' = Walked /\ making = None /\ making' = None /\ phase \in Running
        /\ UNCHANGED <<document, registry, places>>
    BY <1>6, StepAttribute DEF AddAttribute, AtAttribute, Running, input, placement
  <2> QED BY <2>1, PlacedKept, PlacedSame
<1>7. CASE (\E name \in Datasets : MakeDataset(name)) \/ MakeAttribute("NX_class")
  <2>1. /\ making # None /\ making.left # <<>> /\ making' = [making EXCEPT !.left = Tail(@)]
        /\ phase \in Running /\ UNCHANGED <<document, registry, places, stack>>
    BY <1>7 DEF MakeDataset, MakeAttribute, Making, Running, input, placement
  <2>2. making \in Creating
    BY <2>1, RunningSays DEF MakingInv
  <2>3. making' # None
    BY <2>1, <2>2, NextMaking
  <2> QED BY <2>1, <2>3, PlacedKept, PlacedStays
<1>8. CASE CreateWriter
  BY <1>8, PlacedCreate
<1>9. CASE SubscribeWriter \/ PushWriter \/ FinishStructure
           \/ \E k \in Range(DefaultAttributes) : AddDefaultAttribute(k)
  <2>1. /\ phase \in Running /\ UNCHANGED <<document, registry, places, stack, making>>
    BY <1>9 DEF SubscribeWriter, PushWriter, FinishStructure, AddDefaultAttribute, AtDefault,
                Running, input, placement
  <2> QED BY <2>1, PlacedKept, PlacedStays
<1>10. CASE BeginRootAttributes
  <2>1. Walked' = Walked /\ making = None /\ making' = None /\ phase \in Running
        /\ UNCHANGED <<document, registry, places>>
    BY <1>10, StepRoot DEF BeginRootAttributes, AtReturn, Running, input, placement
  <2> QED BY <2>1, PlacedKept, PlacedSame
<1>11. CASE BuildFails
  BY <1>11 DEF BuildFails, Refuse, RefuseChild, RefuseGroup, RefuseAttribute, RefuseModule,
               CallFails, Fail, PlacedInv, Running
<1>12. CASE UNCHANGED vars
  <2>1. UNCHANGED <<document, registry, places, stack, making, phase>>
    BY <1>12 DEF vars, input, placement
  <2> QED BY <2>1, PlacedStays DEF PlacedInv
<1> QED BY <1>1, <1>2, <1>3, <1>4, <1>5, <1>6, <1>7, <1>8, <1>9, <1>10, <1>11, <1>12 DEF NexusNext

BuildInv == NexusInv /\ PlacedInv

LEMMA BuildInvariant == NexusSpec => []BuildInv
<1>1. NexusInit => BuildInv
  BY NexusStart DEF BuildInv, PlacedInv, NexusInit, Running
<1>2. BuildInv /\ [NexusNext]_vars => BuildInv'
  BY NexusStep, PlacedStep DEF BuildInv
<1> QED BY <1>1, <1>2, PTL DEF NexusSpec

-----------------------------------------------------------------------------
(***************************************************************************)
(* The operators of InProgressFile are those of this module.               *)
(***************************************************************************)
LEMMA SameNewWriter == \A spec, r : File!NewWriter(spec, r) = NewWriter(spec, r)
BY DEF File!NewWriter, NewWriter

LEMMA SameSubscribe == \A r, id, sub : File!Subscribe(r, id, sub) = Subscribe(r, id, sub)
BY DEF File!Subscribe, File!TopicSubscribe, File!Entry, File!Insert, File!EmptyTopicRouter,
       File!EmptyMap, Subscribe, TopicSubscribe, Entry, Insert, EmptyTopicRouter, EmptyMap

LEMMA SpecsLeftSame ==
  ASSUME UNCHANGED <<document, registry, places>>
  PROVE  SpecsLeft' = SpecsLeft
BY DEF SpecsLeft

\* The next spec is the one of the module being created, and its writer takes it away.
LEMMA SpecsLeftCreate ==
  ASSUME BuildInv, CreateWriter
  PROVE  SpecsLeft # <<>> /\ Head(SpecsLeft) = making.spec /\ SpecsLeft' = Tail(SpecsLeft)
<1> DEFINE all == Specs(document, registry)
           n   == Len(places)
<1>1. /\ phase = "walking" /\ making # None /\ phase \in Running
      /\ places' = Append(places, Top.group) /\ document' = document /\ registry' = registry
  BY DEF CreateWriter, Running, input
<1>2. document \in Documents /\ PlacesInv
  BY <1>1, RunningSays DEF BuildInv
<1>3. /\ Maker \in Modules(document, registry) /\ n = Rank(document, registry, Maker)
      /\ making.spec = SpecIn(document.nodes[Maker], registry)
  BY <1>1, MakerIsNext DEF BuildInv, TheModules
<1>4. all[n + 1] = making.spec
  BY <1>2, <1>3, SpecAt
<1>5. n \in Nat /\ n < Len(all) /\ Len(all) \in Nat /\ all \in Seq(Range(all))
  BY <1>2, <1>3, RankIsBelowAll, SpecsType, ModulesFinite
<1>6. n + 1 \in 1..Len(all) /\ Len(all) \in (n + 1)..Len(all)
  BY <1>5
<1>7. Len(places') = n + 1
  BY <1>1, <1>2 DEF PlacesInv
<1> HIDE DEF all, n
<1>8. /\ Head(SubSeq(all, n + 1, Len(all))) = all[n + 1]
      /\ Tail(SubSeq(all, n + 1, Len(all))) = SubSeq(all, n + 2, Len(all))
  BY <1>5, <1>6, HeadTailOfSubSeq
<1>9. Len(SubSeq(all, n + 1, Len(all))) = Len(all) - n
  BY <1>5, <1>6
<1>10. SpecsLeft = SubSeq(all, n + 1, Len(all))
  BY DEF SpecsLeft, all, n
<1>11. SpecsLeft' = SubSeq(all, n + 2, Len(all))
  BY <1>1, <1>5, <1>7 DEF SpecsLeft, all, n
<1>12. SpecsLeft # <<>>
  <2>1. Len(SpecsLeft) = Len(all) - n
    BY <1>9, <1>10
  <2>2. Len(SpecsLeft) > 0
    BY <1>5, <2>1
  <2> QED BY <2>2
<1> QED BY <1>4, <1>8, <1>10, <1>11, <1>12

\* The walk is over: every module has a writer.
LEMMA SpecsLeftNone ==
  ASSUME BuildInv, phase = "root"
  PROVE  SpecsLeft = <<>>
<1>1. phase \in Running
  BY DEF Running
<1>2. document \in Documents /\ RootInv
  BY <1>1, RunningSays DEF BuildInv
<1>3. making = None /\ Walked = DOMAIN document.nodes
  BY <1>2, Numbers DEF RootInv, Walked
<1>4. Placed = TheModules
  BY <1>3 DEF Placed, TheModules, Modules, ReachedIn
<1>5. Len(places) = Len(Specs(document, registry)) /\ Len(places) \in Nat
  BY <1>1, <1>2, <1>4, SpecsType, ModulesFinite DEF BuildInv, PlacedInv, TheModules
<1> QED BY <1>5, SubSeqEmpty DEF SpecsLeft

-----------------------------------------------------------------------------
theFile == <<run, SpecsLeft, adding, subscribed, writers, router, FALSE, FilePhase, None, <<>>,
             FileError>>

LEMMA FileStarts == NexusInit => File!FileInit
<1> SUFFICES ASSUME NexusInit PROVE File!FileInit
  OBVIOUS
<1>1. /\ document \in Documents /\ registry \in Registries /\ run \in File!RunParameters
      /\ phase = "starting" /\ places = <<>> /\ adding = None /\ subscribed = 0
      /\ writers = <<>> /\ router = EmptyRouter /\ error = None
  BY DEF NexusInit, RunParameters, FromPl72, File!RunParameters, File!FromPl72
<1>2. SpecsLeft = Specs(document, registry)
  <2>1. Specs(document, registry) \in Seq(Range(Specs(document, registry)))
    BY <1>1, SpecsType
  <2>2. Len(places) + 1 = 1
    BY <1>1
  <2> QED BY <2>1, <2>2, SubSeqFull DEF SpecsLeft
<1>3. SpecsLeft \in AllSpecs
  BY <1>1, <1>2 DEF AllSpecs
<1>4. FilePhase = "building" /\ FileError = None
  BY <1>1 DEF FilePhase, FileError
<1>5. router = File!EmptyRouter
  BY <1>1 DEF EmptyRouter, EmptyMap, File!EmptyRouter, File!EmptyMap
<1> QED BY <1>1, <1>3, <1>4, <1>5 DEF File!FileInit

\* A step of the walk that places no writer and does not end it
LEMMA FileStutters ==
  ASSUME UNCHANGED <<document, registry, run>>, UNCHANGED placement,
         FilePhase' = FilePhase, FileError' = FileError
  PROVE  UNCHANGED theFile
<1>1. UNCHANGED <<places, adding, subscribed, writers, router>>
  BY DEF placement
<1> QED BY <1>1, SpecsLeftSame DEF theFile

LEMMA FileCreates ==
  ASSUME BuildInv, CreateWriter
  PROVE  File!CreateWriter
<1>1. /\ phase = "walking" /\ making # None /\ phase \in Running /\ phase' = phase
      /\ adding' = NewWriter(making.spec, run)
      /\ UNCHANGED <<run, subscribed, writers, router, error>>
  BY DEF CreateWriter, Running, input
<1>2. adding = None /\ subscribed = 0
  <2>1. MakingInv /\ PlacesInv
    BY <1>1, RunningSays DEF BuildInv
  <2> QED BY <1>1, <2>1 DEF MakingInv, PlacesInv
<1>3. SpecsLeft # <<>> /\ Head(SpecsLeft) = making.spec /\ SpecsLeft' = Tail(SpecsLeft)
  BY SpecsLeftCreate
<1>4. FilePhase = "building" /\ FilePhase' = FilePhase /\ FileError' = FileError
  BY <1>1 DEF FilePhase, FileError
<1> QED BY <1>1, <1>2, <1>3, <1>4, SameNewWriter DEF File!CreateWriter, File!handling

LEMMA FileSubscribes ==
  ASSUME SubscribeWriter
  PROVE  File!SubscribeWriter
<1>1. /\ phase = "walking" /\ adding # None /\ subscribed < Len(adding.subscriptions)
      /\ router' = Subscribe(router, Len(writers), adding.subscriptions[subscribed + 1])
      /\ subscribed' = subscribed + 1
      /\ UNCHANGED <<run, document, registry, places, adding, writers, phase, error>>
  BY DEF SubscribeWriter, input
<1>2. FilePhase = "building" /\ FilePhase' = FilePhase /\ FileError' = FileError
  BY <1>1 DEF FilePhase, FileError
<1> QED BY <1>1, <1>2, SameSubscribe, SpecsLeftSame DEF File!SubscribeWriter, File!handling

LEMMA FilePushes ==
  ASSUME PushWriter
  PROVE  File!PushWriter
<1>1. /\ phase = "walking" /\ adding # None /\ subscribed = Len(adding.subscriptions)
      /\ writers' = Append(writers, adding) /\ adding' = None /\ subscribed' = 0
      /\ UNCHANGED <<run, document, registry, places, router, phase, error>>
  BY DEF PushWriter, input
<1>2. FilePhase = "building" /\ FilePhase' = FilePhase /\ FileError' = FileError
  BY <1>1 DEF FilePhase, FileError
<1> QED BY <1>1, <1>2, SpecsLeftSame DEF File!PushWriter, File!handling

LEMMA FileFinishes ==
  ASSUME BuildInv, FinishStructure
  PROVE  File!FinishStructure
<1>1. /\ phase = "root" /\ phase' = "ready" /\ phase \in Running /\ error' = error
      /\ UNCHANGED <<run, document, registry>> /\ UNCHANGED placement
  BY DEF FinishStructure, Running, input
<1>2. adding = None /\ UNCHANGED <<places, adding, subscribed, writers, router>>
  <2>1. RootInv
    BY <1>1, RunningSays DEF BuildInv
  <2> QED BY <1>1, <2>1 DEF RootInv, placement
<1>3. SpecsLeft = <<>> /\ SpecsLeft' = SpecsLeft
  BY <1>1, <1>2, SpecsLeftNone, SpecsLeftSame
<1>4. FilePhase = "building" /\ FilePhase' = "ready" /\ FileError' = FileError
  BY <1>1 DEF FilePhase, FileError
<1> QED BY <1>1, <1>2, <1>3, <1>4 DEF File!FinishStructure, File!placement, File!handling

\* A call is made only when no writer is being added, so that its failure leaves none half added.
LEMMA FileFails ==
  ASSUME BuildInv, BuildFails
  PROVE  File!PlacementFails
<1>1. /\ phase \in {"walking", "root"} /\ phase' = "failed"
      /\ error' \in {"NexusStructureError", "Hdf5Error"}
      /\ adding = None \/ making # None \/ phase = "root"
      /\ UNCHANGED <<run, document, registry>> /\ UNCHANGED placement
  <2>1. CASE Refuse
    BY <2>1 DEF BuildFails, Refuse, RefuseChild, RefuseGroup, RefuseAttribute, RefuseModule, Fail,
                AtChild, AtAttribute, AtDefault, Making, CallFails, input
  <2>2. CASE CallFails
    BY <2>2 DEF BuildFails, CallFails, Fail, AtChild, AtAttribute, AtDefault, Making,
                input
  <2> QED BY <2>1, <2>2 DEF BuildFails
<1>2. adding = None /\ UNCHANGED <<places, adding, subscribed, writers, router>>
  <2>1. MakingInv /\ RootInv
    BY <1>1, RunningSays DEF BuildInv, Running
  <2> QED BY <1>1, <2>1 DEF MakingInv, RootInv, placement
<1>3. SpecsLeft' = SpecsLeft
  BY <1>1, <1>2, SpecsLeftSame
<1>4. FilePhase = "building" /\ FilePhase' = "failed" /\ FileError' = error'
  BY <1>1 DEF FilePhase, FileError
<1> QED BY <1>1, <1>2, <1>3, <1>4
        DEF File!PlacementFails, File!Fail, File!placement, File!handling

LEMMA FileStep == BuildInv /\ [NexusNext]_vars => File!Build \/ UNCHANGED theFile
<1> SUFFICES ASSUME BuildInv, [NexusNext]_vars PROVE File!Build \/ UNCHANGED theFile
  OBVIOUS
<1>1. CASE CreateWriter \/ SubscribeWriter \/ PushWriter \/ FinishStructure \/ BuildFails
  BY <1>1, FileCreates, FileSubscribes, FilePushes, FileFinishes, FileFails DEF File!Build
<1>2. CASE ParseStructure
  <2>1. /\ phase = "starting" /\ UNCHANGED <<document, registry, run>> /\ UNCHANGED placement
        /\ (phase' = "walking" /\ error' = error) \/ phase' = "rejected"
    BY <1>2 DEF ParseStructure, input
  <2>2. error = None
    BY <2>1 DEF BuildInv, NexusInv
  <2>3. FilePhase' = FilePhase /\ FileError' = FileError
    BY <2>1, <2>2 DEF FilePhase, FileError
  <2> QED BY <2>1, <2>3, FileStutters
<1>3. CASE BeginRootAttributes
  <2>1. /\ phase = "walking" /\ phase' = "root" /\ error' = error
        /\ UNCHANGED <<document, registry, run>> /\ UNCHANGED placement
    BY <1>3 DEF BeginRootAttributes, AtReturn, input
  <2>2. FilePhase' = FilePhase /\ FileError' = FileError
    BY <2>1 DEF FilePhase, FileError
  <2> QED BY <2>1, <2>2, FileStutters
<1>4. CASE \/ Register \/ ReturnFromGroup \/ AddNexusGroup \/ FindFactory \/ UNCHANGED vars
           \/ \E k \in AttributeNames : AddAttribute(k)
           \/ \E name \in Datasets : MakeDataset(name)
           \/ MakeAttribute("NX_class")
           \/ \E k \in Range(DefaultAttributes) : AddDefaultAttribute(k)
  <2>1. UNCHANGED <<document, registry, run, phase, error>> /\ UNCHANGED placement
    BY <1>4 DEF Register, ReturnFromGroup, AddNexusGroup, FindFactory, AddAttribute, MakeDataset,
                MakeAttribute, AddDefaultAttribute, vars, input
  <2>2. FilePhase' = FilePhase /\ FileError' = FileError
    BY <2>1 DEF FilePhase, FileError
  <2> QED BY <2>1, <2>2, FileStutters
<1> QED BY <1>1, <1>2, <1>3, <1>4 DEF NexusNext

(***************************************************************************)
(* use_structure, whatever the document: the walk is the build that        *)
(* InProgressFile has, for the modules in the order of the text.           *)
(***************************************************************************)
THEOREM WalkBuildsFile == NexusSpec => BuildsFile
<1>1. BuildInv /\ [NexusNext]_vars => [File!Build]_(File!fileVars)
  BY FileStep DEF theFile, File!fileVars
<1> QED BY <1>1, FileStarts, BuildInvariant, PTL DEF NexusSpec, BuildsFile
=============================================================================
