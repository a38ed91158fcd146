------------------------------ MODULE EventFile ----------------------------
(***************************************************************************)
(* What a file of events promises to those who read it: writers are placed *)
(* in it while it holds no event; then each of them takes the events of a  *)
(* message, all of them or none, at most once, and never those of one that *)
(* a partition holds before one it already took; when it is closed it      *)
(* changes no more.  A message is <<partition, number>>.                   *)
(***************************************************************************)
EXTENDS Integers, Sequences

CONSTANT Partitions

VARIABLES
  events,    \* for each partition, how many events each of its messages has
  status,    \* absent, open or closed
  rows       \* for each writer, what a reader sees: rows <<message, event>>, in order

Init ==
  /\ events \in [Partitions -> Seq(Nat)]
  /\ status = "absent" /\ rows = <<>>

Open == status = "absent" /\ status' = "open" /\ UNCHANGED <<events, rows>>

AddWriter ==
  /\ status = "open" /\ \A w \in DOMAIN rows : rows[w] = <<>>
  /\ rows' = Append(rows, <<>>)
  /\ UNCHANGED <<events, status>>

Batch(p, i) == [k \in 1..events[p][i] |-> <<<<p, i>>, k>>]

After(p, i, seq) == \A k \in DOMAIN seq : seq[k][1][1] = p => seq[k][1][2] < i

Take(w, p, i) ==
  /\ status = "open" /\ After(p, i, rows[w])
  /\ rows' = [rows EXCEPT ![w] = @ \o Batch(p, i)]
  /\ UNCHANGED <<events, status>>

Close == status = "open" /\ status' = "closed" /\ UNCHANGED <<events, rows>>

Next ==
  \/ Open \/ AddWriter \/ Close
  \/ \E w \in DOMAIN rows, p \in Partitions : \E i \in DOMAIN events[p] : Take(w, p, i)

Spec == Init /\ [][Next]_<<events, status, rows>>
=============================================================================
