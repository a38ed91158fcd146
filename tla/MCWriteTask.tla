----------------------------- MODULE MCWriteTask ---------------------------
(***************************************************************************)
(* WriteTask on a topic ev with two partitions, a topic mon with one and a *)
(* control topic, with a few short logs.                                   *)
(***************************************************************************)
EXTENDS WriteTask

CONSTANTS ev, mon, ctl, gone, k1, j1, j2

Ev0 == <<ev, 0>>
Ev1 == <<ev, 1>>
Mon == <<mon, 0>>
Ctl == <<ctl, 0>>

MCPartitions == {Ev0, Ev1, Mon, Ctl}
MCMessageIds == MCPartitions \X (1..3)

Sub(t, k) == [topic |-> t, key |-> k]
Events(t) == [module |-> "NXevent_data", subscriptions |-> <<Sub(t, All)>>]
Plugin    == [module |-> "plugin", subscriptions |-> <<Sub(ev, k1)>>]

Run(start, stop, topic) ==
  [start_time_ms |-> start, stop_time_ms |-> stop, job_id |-> j1, control_topic |-> topic]

Any == [id |-> <<Ctl, 1>>, topic |-> ctl, key |-> None, timestamp |-> 2, schema |-> "other",
        job_id |-> None, stop_time |-> 0, pixel_id |-> None, time_of_flight |-> None]

E(ts, n)     == [Any EXCEPT !.timestamp = ts, !.schema = "ev44", !.pixel_id = n,
                            !.time_of_flight = n]
S(ts, j, st) == [Any EXCEPT !.timestamp = ts, !.schema = "stop", !.job_id = j, !.stop_time = st]

Numbered(p, msgs) == [i \in DOMAIN msgs |-> [msgs[i] EXCEPT !.id = <<p, i>>, !.topic = p[1]]]

\* A history in which everything is there from the start but what the partitions in late hold
History(late, e0, e1, m0, c0) ==
  LET msgs == [p \in MCPartitions |-> CASE p = Ev0 -> e0 [] p = Ev1 -> e1
                                        [] p = Mon -> m0 [] OTHER -> c0]
  IN  [log |-> [p \in MCPartitions |-> Numbered(p, msgs[p])],
       published |-> [p \in MCPartitions |-> IF p \in late THEN 0 ELSE Len(msgs[p])]]

MCStructures ==
  { <<Events(ev), Plugin>>, <<Events(mon), Events(ev)>>,
    <<[module |-> "IXseblock", subscriptions |-> <<>>]>> }

\* A stop time given by the run start, a start before SeekBack and one past MaxTimestamp,
\* and a control topic that does not exist
MCRunStarts ==
  { Run(2, 0, None), Run(2, 4, ctl), Run(0, 0, mon), Run(8, 0, None),
    Run(2, 0, gone) }

\* Of each partition the first message is there, the rest comes while the task runs.
StillWriting(h) == [h EXCEPT !.published = [p \in MCPartitions |-> Min({1, Len(h.log[p])})]]

\* Events late, early and unordered; stops early, late, repeated, without a stop time, of
\* another job, and of an earlier run with the job id of this one; in the last two, mon is in
\* order and has several messages of the run, one after it, or one before the seek timestamp
MCHistories ==
  { History({}, <<E(2, 1), E(4, 2), E(3, 1)>>, <<E(None, 1)>>, <<E(3, 1)>>,
            <<S(2, j1, 3), S(4, j1, 5)>>),
    History({Mon}, <<E(5, 1), E(2, 1)>>, <<[E(4, 1) EXCEPT !.key = k1]>>, <<E(3, 1)>>,
            <<S(5, j2, 2), S(5, j1, 4)>>),
    History({Ctl}, <<E(1, 1), E(2, 1)>>, <<E(4, 2)>>, <<S(4, j1, 3)>>, <<S(5, j1, 4)>>),
    History({}, <<E(2, 1), E(3, 1)>>, <<E(0, 1)>>, <<E(4, 1)>>, <<S(1, j1, 1), S(3, j1, 0)>>),
    History({}, <<E(4, 1)>>, <<>>, <<E(2, 1), E(3, 1), E(5, 1)>>, <<S(3, j1, 3)>>),
    StillWriting(History({}, <<E(5, 1)>>, <<>>, <<E(0, 1), E(2, 1), E(4, 1)>>,
                         <<S(4, j1, 4)>>)) }

\* A topic with one partition in order, read from a known place
MCOneTopic == { <<Events(mon)>>, <<Events(mon), Events(mon)>> }

MCOrdered ==
  { StillWriting(History({}, <<>>, <<>>, m0, c0)) :
      m0 \in {<<E(2, 1), E(3, 2), E(4, 1)>>, <<E(1, 1), E(3, 1), E(6, 1)>>},
      c0 \in {<<S(3, j1, 3)>>, <<S(2, j2, 9), S(5, j1, 4)>>, <<S(2, j1, 2), S(5, j1, 4)>>} }

MCOpenRun == { Run(2, 0, None) }

\* The counterexamples: one event writer, its two partitions read in any order
MCTwoPartitions == { <<Events(ev)>> }

MCUneven == { History({}, <<E(3, 1), E(4, 1)>>, <<E(3, 1)>>, <<>>, <<S(3, j1, 3)>>) }

MCLateStop == { History({}, <<E(3, 1), E(4, 1)>>, <<>>, <<>>, <<S(3, j1, 3)>>) }

MCLaggard == { History({}, <<E(3, 1)>>, <<E(2, 1)>>, <<>>, <<S(3, j1, 3)>>) }

MCIdleTopic == { History({Ev0}, <<E(2, 1), E(3, 1)>>, <<>>, <<>>, <<S(3, j1, 3)>>) }
=============================================================================
