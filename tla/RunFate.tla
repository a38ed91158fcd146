------------------------------ MODULE RunFate ------------------------------
(***************************************************************************)
(* A run that was taken, and its file, as FileWriter has them: a write     *)
(* task makes the file once (CreateFile), ends well only after that        *)
(* (EndTask), may end badly before or after it (TaskFails, EndTask), and   *)
(* what has ended begins no more.  WriteTask is the task that keeps this.  *)
(***************************************************************************)
VARIABLES
  fate,   \* taken, written or failed
  file    \* absent or made

Init == fate = "taken" /\ file = "absent"

Make == fate = "taken" /\ file = "absent" /\ file' = "made" /\ UNCHANGED fate

Complete == fate = "taken" /\ file = "made" /\ fate' = "written" /\ UNCHANGED file

Break == fate = "taken" /\ fate' = "failed" /\ UNCHANGED file

Next == Make \/ Complete \/ Break

Spec == Init /\ [][Next]_<<fate, file>>
=============================================================================
