----------------------------- MODULE MCReports ------------------------------
(* Small instances of Reports.                                              *)
EXTENDS Reports
=============================================================================
