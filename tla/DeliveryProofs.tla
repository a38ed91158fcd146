---------------------------- MODULE DeliveryProofs --------------------------
(***************************************************************************)
(* How often a message is handed to a writer.  RoutedAsSubscribed, proved  *)
(* in InProgressFileProofs, says to which writers the router sends it; the *)
(* lists of the router may hold a writer more than once, and here its      *)
(* occurrences are counted, with the lemmas of MessageRouterProofs.        *)
(***************************************************************************)
EXTENDS InProgressFileProofs

-----------------------------------------------------------------------------
(***************************************************************************)
(* The inductive invariant: between two writers no subscription is counted. *)
(***************************************************************************)
DeliveryInv ==
  /\ RoutingInv
  /\ adding = None => subscribed = 0
  /\ OncePerSubscription

LEMMA DeliveriesAre ==
  \A id, t, k : Deliveries(id, t, k) = Occurrences(WritersFor(router, t, k), id)
BY DEF Deliveries, Occurrences

\* The registrations of a writer that is in writers, and of the one being added
LEMMA RegistrationsAre ==
  ASSUME NEW t, NEW k
  PROVE  /\ \A id : id < Len(writers) =>
              Registrations(id, t, k) =
                {i \in 1..Len(writers[id + 1].subscriptions) :
                   Matches(writers[id + 1].subscriptions[i], t, k)}
         /\ \A id : ~(id < Len(writers)) =>
              Registrations(id, t, k) =
                {i \in 1..subscribed : Matches(adding.subscriptions[i], t, k)}
BY DEF Registrations

LEMMA CountedElsewhere ==
  ASSUME FileTypeOK, OncePerSubscription, UNCHANGED <<router, adding, subscribed>>,
         Len(writers') = Len(writers),
         \A i \in DOMAIN writers : writers'[i].subscriptions = writers[i].subscriptions
  PROVE  OncePerSubscription'
<1>1. Len(writers) \in Nat /\ DOMAIN writers = 1..Len(writers)
  BY DEF FileTypeOK
<1>2. ASSUME NEW id \in 0..Len(writers), NEW t, NEW k
      PROVE  Registrations(id, t, k)' = Registrations(id, t, k)
  <2>1. CASE id < Len(writers)
    <3>1. id + 1 \in DOMAIN writers
      BY <1>1, <2>1
    <3> QED BY <2>1, <3>1 DEF Registrations
  <2>2. CASE ~(id < Len(writers))
    BY <2>2 DEF Registrations
  <2> QED BY <2>1, <2>2
<1>3. \A id, t, k : Deliveries(id, t, k)' = Deliveries(id, t, k)
  BY DEF Deliveries
<1> QED BY <1>2, <1>3 DEF OncePerSubscription

LEMMA CountedCreate ==
  ASSUME DeliveryInv, CreateWriter
  PROVE  OncePerSubscription'
<1>1. /\ adding = None /\ subscribed = 0 /\ subscribed' = 0
      /\ writers' = writers /\ router' = router
  BY DEF DeliveryInv, CreateWriter
<1>2. \A id, t, k : Registrations(id, t, k)' = Registrations(id, t, k)
  BY <1>1 DEF Registrations
<1>3. \A id, t, k : Deliveries(id, t, k)' = Deliveries(id, t, k)
  BY <1>1 DEF Deliveries
<1> QED BY <1>1, <1>2, <1>3 DEF DeliveryInv, OncePerSubscription

LEMMA CountedSubscribe ==
  ASSUME DeliveryInv, SubscribeWriter
  PROVE  OncePerSubscription'
<1> DEFINE sub == adding.subscriptions[subscribed + 1]
           n   == Len(writers)
<1>1. /\ adding \in PlacedWriter /\ subscribed \in Nat /\ n \in Nat
      /\ subscribed + 1 \in 1..Len(adding.subscriptions) /\ IsRouter(router)
  BY DEF DeliveryInv, RoutingInv, SubscribeWriter, FileTypeOK
<1>2. sub \in Subscription
  BY <1>1 DEF PlacedWriter
<1>3. /\ router' = Subscribe(router, n, sub) /\ subscribed' = subscribed + 1
      /\ adding' = adding /\ writers' = writers
  BY DEF SubscribeWriter
<1>4. ASSUME NEW id \in 0..n, NEW t \in Topics, NEW k \in Keys \cup {None}
      PROVE  Cardinality(Deliveries(id, t, k))' = Cardinality(Registrations(id, t, k))'
  <2>1. Cardinality(Deliveries(id, t, k)) = Cardinality(Registrations(id, t, k))
    BY <1>4 DEF DeliveryInv, OncePerSubscription
  <2>2. Cardinality(Deliveries(id, t, k)') =
          Cardinality(Deliveries(id, t, k)) + Once(n = id /\ Matches(sub, t, k))
    <3> HIDE DEF sub, n
    <3>1. Deliveries(id, t, k)' = Occurrences(WritersFor(Subscribe(router, n, sub), t, k), id)
      BY <1>3 DEF Deliveries, Occurrences
    <3> QED BY <1>1, <1>2, <3>1, SubscribeCounts, DeliveriesAre DEF Count
  <2>3. CASE id = n
    <3>1. ~(id < Len(writers)) /\ ~(id < Len(writers'))
      BY <1>1, <1>3, <2>3
    <3>2. Registrations(id, t, k) =
            {i \in 1..subscribed : Matches(adding.subscriptions[i], t, k)}
      BY <3>1 DEF Registrations
    <3>3. Registrations(id, t, k)' =
            {i \in 1..(subscribed + 1) : Matches(adding.subscriptions[i], t, k)}
      BY <1>3, <3>1 DEF Registrations
    <3>4. 1..(subscribed + 1) = (1..subscribed) \cup {subscribed + 1}
      BY <1>1
    <3>5. Registrations(id, t, k)' =
            IF Matches(sub, t, k) THEN Registrations(id, t, k) \cup {subscribed + 1}
            ELSE Registrations(id, t, k)
      BY <3>2, <3>3, <3>4
    <3>6. Matches(sub, t, k) \in BOOLEAN
      BY DEF Matches
    <3> HIDE DEF sub, n
    <3>7. Cardinality(Registrations(id, t, k)') =
            Cardinality(Registrations(id, t, k)) + Once(Matches(sub, t, k))
      BY <1>1, <3>2, <3>5, <3>6, CountNext
    <3>8. Once(n = id /\ Matches(sub, t, k)) = Once(Matches(sub, t, k))
      BY <2>3 DEF Once
    <3> QED BY <2>1, <2>2, <3>7, <3>8
  <2>4. CASE id # n
    <3>1. id < Len(writers) /\ id < Len(writers')
      BY <1>1, <1>3, <2>4
    <3>2. Registrations(id, t, k)' = Registrations(id, t, k)
      BY <1>3, <3>1 DEF Registrations
    <3>3. Count(WritersFor(router, t, k), id) \in Nat
      BY <1>1, RouteType, CountType
    <3>4. Cardinality(Deliveries(id, t, k)) \in Nat
      BY <3>3, DeliveriesAre DEF Count
    <3>5. Once(n = id /\ Matches(sub, t, k)) = 0
      BY <2>4 DEF Once
    <3> HIDE DEF sub, n
    <3> QED BY <2>1, <2>2, <3>2, <3>4, <3>5
  <2> QED BY <2>3, <2>4
<1> QED BY <1>3, <1>4 DEF OncePerSubscription

LEMMA CountedPush ==
  ASSUME DeliveryInv, PushWriter
  PROVE  OncePerSubscription'
<1>1. /\ adding \in PlacedWriter /\ writers' = Append(writers, adding) /\ adding' = None
      /\ subscribed = Len(adding.subscriptions) /\ subscribed' = 0 /\ router' = router
      /\ IsRouter(router)
  BY DEF PushWriter, DeliveryInv, RoutingInv, FileTypeOK
<1>2. PICK n \in Nat : n = Len(writers)
  BY DEF DeliveryInv, RoutingInv, FileTypeOK
<1>3. /\ Len(writers') = n + 1 /\ writers'[n + 1] = adding
      /\ \A i \in 1..n : writers'[i] = writers[i]
  BY <1>1, <1>2 DEF DeliveryInv, RoutingInv, FileTypeOK
<1>4. \A id, t, k : Deliveries(id, t, k)' = Deliveries(id, t, k)
  BY <1>1 DEF Deliveries
<1>5. ASSUME NEW id \in 0..n, NEW t, NEW k
      PROVE  Registrations(id, t, k)' = Registrations(id, t, k)
  <2>1. CASE id = n
    BY <1>1, <1>2, <1>3, <2>1 DEF Registrations
  <2>2. CASE id # n
    <3>1. id < n /\ id < n + 1 /\ id + 1 \in 1..n
      BY <2>2
    <3>2. writers'[id + 1] = writers[id + 1]
      BY <1>3, <3>1
    <3> QED BY <1>2, <1>3, <3>1, <3>2 DEF Registrations
  <2> QED BY <2>1, <2>2
<1>6. ASSUME NEW t \in Topics, NEW k \in Keys \cup {None}
      PROVE  Registrations(n + 1, t, k)' = {} /\ Deliveries(n + 1, t, k) = {}
  <2>1. Registrations(n + 1, t, k)' = {}
    BY <1>1, <1>3 DEF Registrations
  <2>2. n + 1 \notin RoutedTo(t, k)
    BY <1>2 DEF DeliveryInv, RoutingInv, RoutedAsSubscribed, Subscribers
  <2> QED BY <2>1, <2>2 DEF RoutedTo, Deliveries, Range
<1>7. 0..Len(writers') = (0..n) \cup {n + 1}
  BY <1>3
<1>8. ASSUME NEW id \in (0..n) \cup {n + 1}, NEW t \in Topics, NEW k \in Keys \cup {None}
      PROVE  Cardinality(Deliveries(id, t, k)') = Cardinality(Registrations(id, t, k)')
  <2>1. CASE id \in 0..n
    <3>1. Cardinality(Deliveries(id, t, k)) = Cardinality(Registrations(id, t, k))
      BY <1>2, <2>1 DEF DeliveryInv, OncePerSubscription
    <3>2. Registrations(id, t, k)' = Registrations(id, t, k)
      BY <1>5, <2>1
    <3> QED BY <1>4, <3>1, <3>2
  <2>2. CASE id = n + 1
    <3>1. Registrations(id, t, k)' = {} /\ Deliveries(id, t, k) = {}
      BY <1>6, <2>2
    <3> QED BY <1>4, <3>1
  <2> QED BY <1>8, <2>1, <2>2
<1> QED BY <1>7, <1>8 DEF OncePerSubscription

LEMMA DeliveryInit == FileInit => DeliveryInv
<1> SUFFICES ASSUME FileInit PROVE DeliveryInv
  OBVIOUS
<1>1. ASSUME NEW id, NEW t, NEW k
      PROVE  Deliveries(id, t, k) = {}
  <2>1. WritersFor(router, t, k) = <<>>
    BY DEF FileInit, EmptyRouter, EmptyMap, EmptyTopicRouter, WritersFor, TopicWritersFor, Entry
  <2> QED BY <2>1 DEF Deliveries
<1>2. \A id \in 0..Len(writers) : \A t, k : Registrations(id, t, k) = {}
  BY DEF FileInit, Registrations
<1> QED BY <1>1, <1>2, RoutingInit DEF DeliveryInv, OncePerSubscription, FileInit

LEMMA DeliveryStep == DeliveryInv /\ [FileNext]_fileVars => DeliveryInv'
<1> SUFFICES ASSUME DeliveryInv, [FileNext]_fileVars PROVE DeliveryInv'
  OBVIOUS
<1>1. RoutingInv' /\ FileTypeOK /\ OncePerSubscription
  BY RoutingStep DEF DeliveryInv, RoutingInv
<1>2. CASE CreateWriter
  <2>1. subscribed' = 0
    BY <1>2 DEF CreateWriter
  <2> QED BY <1>1, <1>2, <2>1, CountedCreate DEF DeliveryInv
<1>3. CASE SubscribeWriter
  <2>1. adding' # None
    BY <1>3 DEF SubscribeWriter
  <2> QED BY <1>1, <1>3, <2>1, CountedSubscribe DEF DeliveryInv
<1>4. CASE PushWriter
  <2>1. subscribed' = 0
    BY <1>4 DEF PushWriter
  <2> QED BY <1>1, <1>4, <2>1, CountedPush DEF DeliveryInv
<1>5. CASE \/ PlacementFails \/ FinishStructure \/ NotifyWriter \/ StopWriter
           \/ (\E m \in Message : HandleMessage(m)) \/ UNCHANGED fileVars
  <2>1. UNCHANGED <<router, adding, subscribed>>
    BY <1>5 DEF PlacementFails, FinishStructure, NotifyWriter, StopWriter, HandleMessage,
                IgnoreMessage, UnroutedMessage, StopWithoutWriters, BeginMessage, BeginRunStop,
                Begin, placement, fileVars
  <2>2. /\ Len(writers') = Len(writers)
        /\ \A i \in DOMAIN writers : writers'[i].subscriptions = writers[i].subscriptions
    <3>1. CASE NotifyWriter \/ StopWriter
      <4>1. FileTypeOK /\ WriterAlwaysFound
        BY DEF DeliveryInv, RoutingInv
      <4>2. Len(writers') = Len(writers)
        BY <3>1, <4>1, LoopStep
      <4>3. PICK out : /\ \/ phase = "message" /\ Notify(Head(todo), out, FALSE)
                          \/ phase = "stop" /\ Notify(Head(todo), out, TRUE)
                       /\ SameWriter(writers[Head(todo) + 1], out.writer)
        BY <3>1, <4>1, LoopStep
      <4> QED BY <4>1, <4>2, <4>3, LoopUpdate DEF SameWriter
    <3>2. CASE ~(NotifyWriter \/ StopWriter)
      BY <1>5, <3>2 DEF PlacementFails, FinishStructure, HandleMessage, IgnoreMessage,
                  UnroutedMessage, StopWithoutWriters, BeginMessage, BeginRunStop, Begin, fileVars
    <3> QED BY <3>1, <3>2
  <2> QED BY <1>1, <2>1, <2>2, CountedElsewhere DEF DeliveryInv
<1> QED BY <1>2, <1>3, <1>4, <1>5 DEF FileNext, Build

(***************************************************************************)
(* Every writer is handed a message once for each of its subscriptions     *)
(* that match it: twice if it subscribed to its key and to all keys, as    *)
(* the two lists of message_router.rs have it, and never more or less.     *)
(***************************************************************************)
THEOREM Deliver == FileSpec => []OncePerSubscription
<1>1. DeliveryInv => OncePerSubscription
  BY DEF DeliveryInv
<1> QED BY <1>1, DeliveryInit, DeliveryStep, PTL DEF FileSpec
=============================================================================
