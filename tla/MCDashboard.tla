------------------------------ MODULE MCDashboard ------------------------------
(* Instances of Dashboard for TLC. *)
EXTENDS Dashboard

\* A page of every kind: with two requests, with a search field, with a filter in the
\* request, without a request when there is no token.
FourPages == {"overview", "network", "alerts", "settings"}
SavedOrNot == {"valid", "none"}
AnyOrSome == {"any", "some"}
=============================================================================
