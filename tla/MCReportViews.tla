--------------------------- MODULE MCReportViews ----------------------------
(* ReportViews needs no definitions of its own for TLC.                     *)
EXTENDS ReportViews
=============================================================================
