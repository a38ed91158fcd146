--------------------------- MODULE MessageRouter ---------------------------
(***************************************************************************)
(* The message router of src/run_writer/message_router.rs: a map from a    *)
(* topic to the router of that topic, which lists the writers subscribed   *)
(* to one key and the writers subscribed to every key.  Operators only:    *)
(* InProgressFile owns the router and drives it.                           *)
(***************************************************************************)
EXTENDS StreamTypes, Functions

CONSTANT All   \* SubscriptionKey::All

ASSUME AllAssumption == All \notin Keys \cup {None}

Subscription == [topic : Topics, key : Keys \cup {All}]

(***************************************************************************)
(* HashMap::entry(k).or_default() as a read and as the write that follows. *)
(***************************************************************************)
Entry(map, k, default) == IF k \in DOMAIN map THEN map[k] ELSE default

Insert(map, k, v) == [x \in DOMAIN map \cup {k} |-> IF x = k THEN v ELSE map[x]]

EmptyMap == [x \in {} |-> <<>>]

EmptyTopicRouter == [keyed_subscribers |-> EmptyMap, all_key_subscribers |-> <<>>]

EmptyRouter == EmptyMap

\* Slip: the key's list is replaced instead of extended
TopicSubscribeReplacing(tr, id, key) ==
  IF key = All THEN [tr EXCEPT !.all_key_subscribers = Append(@, id)]
  ELSE [tr EXCEPT !.keyed_subscribers = Insert(@, key, <<id>>)]

\* Slip: a writer is listed once, as if the lists were sets
TopicSubscribeAsSet(tr, id, key) ==
  LET listed(seq) == IF id \in Range(seq) THEN seq ELSE Append(seq, id)
  IN  IF key = All
      THEN [tr EXCEPT !.all_key_subscribers = listed(@)]
      ELSE [tr EXCEPT !.keyed_subscribers = Insert(@, key, listed(Entry(@, key, <<>>)))]

\* TopicMessageRouter::subscribe
TopicSubscribe(tr, id, key) ==
  IF key = All
  THEN [tr EXCEPT !.all_key_subscribers = Append(@, id)]
  ELSE [tr EXCEPT !.keyed_subscribers = Insert(@, key, Append(Entry(@, key, <<>>), id))]

\* MessageRouter::subscribe
Subscribe(router, id, sub) ==
  Insert(router, sub.topic,
         TopicSubscribe(Entry(router, sub.topic, EmptyTopicRouter), id, sub.key))

\* MessageRouter::topics
RoutedTopics(router) == DOMAIN router

\* TopicMessageRouter::writers_for: the writers of the key, then those of all keys
TopicWritersFor(tr, key) ==
  (IF key = None THEN <<>> ELSE Entry(tr.keyed_subscribers, key, <<>>))
    \o tr.all_key_subscribers

\* MessageRouter::writers_for; an unknown topic falls to the empty default router
WritersFor(router, topic, key) ==
  TopicWritersFor(Entry(router, topic, EmptyTopicRouter), key)

\* The types HashMap<K, V>, TopicMessageRouter and MessageRouter
IsHashMap(map, K, V) == DOMAIN map \subseteq K /\ map \in [DOMAIN map -> V]

IsTopicRouter(tr) ==
  /\ tr \in [keyed_subscribers : {tr.keyed_subscribers}, all_key_subscribers : Seq(Nat)]
  /\ IsHashMap(tr.keyed_subscribers, Keys, Seq(Nat))

IsRouter(router) ==
  DOMAIN router \subseteq Topics /\ \A t \in DOMAIN router : IsTopicRouter(router[t])

(***************************************************************************)
(* What a subscription promises (the comments of src/subscription.rs): the *)
(* messages of one topic, with one key or with any key or none.            *)
(***************************************************************************)
Matches(sub, topic, key) == sub.topic = topic /\ sub.key \in {All, key}
=============================================================================
