---------------------------- MODULE StreamTypes ----------------------------
(***************************************************************************)
(* The Kafka messages the file writer reads: the metadata of               *)
(* src/stream/traits.rs and of the payload only what the program looks at. *)
(***************************************************************************)
EXTENDS Integers, Sequences

CONSTANTS
  Topics,      \* topic names
  Keys,        \* Kafka message keys
  JobIds,      \* job ids of runs
  MessageIds,  \* what tells messages apart: the partition and offset
  None         \* Option::None

ASSUME NoneAssumption == None \notin Keys /\ None \notin JobIds /\ None \notin Int

(***************************************************************************)
(* "empty" has no payload, "garbage" does not deserialize, "stop" is 6s4t, *)
(* "pu00" and "ev44" carry pulses and events, "other" is every schema no   *)
(* module looks at (run starts among them).  pixel_id and time_of_flight   *)
(* are the lengths of the two vectors of an ev44 message, None if absent.  *)
(***************************************************************************)
Schemas == {"empty", "garbage", "stop", "pu00", "ev44", "other"}

Message ==
  [id : MessageIds, topic : Topics, key : Keys \cup {None}, timestamp : Int \cup {None},
   schema : Schemas, job_id : JobIds \cup {None}, stop_time : Nat,
   pixel_id : Nat \cup {None}, time_of_flight : Nat \cup {None}]
=============================================================================
