------------------------ MODULE MCReportOperations ------------------------
(* Small instances of ReportOperations.                                    *)
EXTENDS ReportOperations, TLC

(* Requests, handlers and job ids are interchangeable.                     *)
Interchangeable == Permutations(Call) \cup Permutations(Delivery) \cup Permutations(Job)
=============================================================================
