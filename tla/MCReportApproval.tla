---------------------------- MODULE MCReportApproval ----------------------------
(* Model-checking instances of ReportApproval. *)
EXTENDS ReportApproval

\* Everything is paid, or the delivery is not.
SomeGates == {OpenGate, [OpenGate EXCEPT !.deliver = FALSE]}

=============================================================================
