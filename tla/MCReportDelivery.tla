-------------------------- MODULE MCReportDelivery --------------------------
(***************************************************************************)
(* Instances of ReportDelivery for TLC: which destinations a template has, *)
(* what its runs are named and how they end, which troubles are met.       *)
(***************************************************************************)
EXTENDS ReportDelivery

Template(kinds, reports, unique, outcomes, may) ==
  [kinds |-> kinds, reports |-> reports, unique |-> unique, notify |-> TRUE,
   policy |-> "always", outcomes |-> outcomes, may |-> may]

MCModes ==
  {Template(<<"folder", "message">>, {"pdf"}, TRUE, {"full", "partial"},
            {"unwritten", "lost", "refused", "crashes"}),
   Template(<<"sftp", "notice">>, {"html"}, TRUE, {"full"}, {"broken", "refused", "lost", "stuck"}),
   Template(<<"message", "folder">>, {"html", "pdf"}, FALSE, {"full", "partial", "none"},
            {"taken", "report", "edited"}),
   Template(<<"folder", "sftp">>, {}, FALSE, {"full", "none"},
            {"taken", "broken", "unwritten", "edited"}),
   [Template(<<"notice">>, {"pdf"}, TRUE, {"full", "partial", "none"},
             {"stuck", "report", "taken", "crashes"}) EXCEPT !.notify = FALSE, !.policy = "on_change"],
   [Template(<<"message">>, {}, TRUE, {"full"}, {}) EXCEPT !.policy = "threshold"]}
=============================================================================
