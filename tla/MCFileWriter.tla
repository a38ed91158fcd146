---------------------------- MODULE MCFileWriter ---------------------------
(***************************************************************************)
(* Two processes on a job pool of two partitions, in which two starts ask  *)
(* for the same file.                                                      *)
(***************************************************************************)
EXTENDS FileWriter, TLC

CONSTANTS p1, p2, x1, x2, f1, f2

Entry(k, f) == [kind |-> k, filename |-> f]

MCPool == x1 :> <<Entry("start", f1), Entry("other", f1), Entry("start", f2)>>
          @@ x2 :> <<Entry("incomplete", f2), Entry("start", f1)>>

\* Three runs in a row on one partition
MCLongPool == x1 :> <<Entry("start", f1), Entry("incomplete", f2), Entry("start", f2)>>
              @@ x2 :> <<Entry("start", f1)>>
=============================================================================
