------------------------------- MODULE RunPool ------------------------------
(***************************************************************************)
(* What a pool of file writers promises about the runs offered to it: each *)
(* is taken by at most one writer, once; only a run that was taken is      *)
(* written; and what has become of a run is not revised.  It does not      *)
(* promise that every run is taken: one may be refused or lost.            *)
(***************************************************************************)
CONSTANT Runs

VARIABLE fate   \* waiting, taken, written, failed, refused or lost

Init == fate = [r \in Runs |-> "waiting"]

Becomes(r, from, to) == fate[r] = from /\ fate' = [fate EXCEPT ![r] = to]

Take(r) == Becomes(r, "waiting", "taken")
Drop(r) == \E to \in {"refused", "lost"} : Becomes(r, "waiting", to)
End(r)  == \E to \in {"written", "failed"} : Becomes(r, "taken", to)

Next == \E r \in Runs : Take(r) \/ Drop(r) \/ End(r)

Spec == Init /\ [][Next]_fate
=============================================================================
