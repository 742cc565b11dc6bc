--------------------------- MODULE MCReportExport ---------------------------
(* Small instances of ReportExport.                                        *)
EXTENDS ReportExport, TLC

Interchangeable == Permutations(Principal) \cup Permutations(Download) \cup Permutations(Job)
=============================================================================
