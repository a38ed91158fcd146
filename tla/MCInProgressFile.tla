-------------------------- MODULE MCInProgressFile -------------------------
(***************************************************************************)
(* InProgressFile on its own, handed any MaxMessages messages of           *)
(* MCMessages in any order.  The message's number is its id.               *)
(***************************************************************************)
EXTENDS InProgressFile

CONSTANTS t1, t2, k1, k2, j1, j2,
          MaxMessages   \* bound on the messages a file is handed

VARIABLE received       \* how many it has been handed

Sub(t, k) == [topic |-> t, key |-> k]

Events(t) == [module |-> "NXevent_data", subscriptions |-> <<Sub(t, All)>>]
Block     == [module |-> "IXseblock", subscriptions |-> <<>>]
Plugin(s) == [module |-> "plugin", subscriptions |-> s]

MCStructures ==
  { <<>>, <<Block, Events(t1)>>, <<Events(t1), Events(t2)>>,
    <<Events(t2), Plugin(<<Sub(t1, k1), Sub(t2, k1)>>), Events(t1)>>,
    <<Plugin(<<Sub(t1, k1), Sub(t1, k2)>>), Plugin(<<Sub(t1, k1), Sub(t1, All), Sub(t1, k1)>>)>> }

MCRunStarts ==
  { [start_time_ms |-> 2, stop_time_ms |-> s, job_id |-> j1,
      control_topic |-> None] : s \in {0, 3} }

Meta(t, k, ts) == [id |-> 0, topic |-> t, key |-> k, timestamp |-> ts, schema |-> "other",
                   job_id |-> None, stop_time |-> 0,
                   pixel_id |-> None, time_of_flight |-> None]

Ev44(t, ts, p, n) == [Meta(t, None, ts) EXCEPT !.schema = "ev44", !.pixel_id = p,
                                               !.time_of_flight = n]
Pu00(t, ts)       == [Meta(t, k1, ts) EXCEPT !.schema = "pu00"]
Stop(j, s)        == [Meta(t2, None, 3) EXCEPT !.schema = "stop", !.job_id = j, !.stop_time = s]

MCMessages ==
  { Ev44(t1, 1, 1, 1), Ev44(t1, 3, 2, 2), Ev44(t1, 4, 1, 1), Ev44(t1, 2, 1, 2),
    Ev44(t1, 3, None, 1), Ev44(t2, None, 1, 1), Ev44(t2, -2, 1, 1), Ev44(t2, 3, 0, 0),
    Pu00(t1, 2), Pu00(t2, 3), Meta(t1, k2, 3), Stop(j1, 3), Stop(j1, 2), Stop(j2, 1),
    [Stop(j1, 1) EXCEPT !.schema = "garbage"] }

MCInit == FileInit /\ received = 0

Receive(m) ==
  /\ received < MaxMessages
  /\ HandleMessage([m EXCEPT !.id = received + 1])
  /\ received' = received + 1

MCNext ==
  \/ \E m \in MCMessages : Receive(m)
  \/ /\ Build \/ NotifyWriter \/ StopWriter
     /\ UNCHANGED received

MCSpec == MCInit /\ [][MCNext]_<<fileVars, received>>
=============================================================================
