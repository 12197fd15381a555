--------------------------- MODULE MCTokenRefresh ---------------------------
(* Deployments for the instances of TokenRefresh that TLC checks. *)
EXTENDS TokenRefresh

\* Everything the refresh needs.
Complete == [secret |-> TRUE, valid |-> TRUE, exec |-> TRUE, home |-> TRUE,
             delete |-> TRUE]
MCComplete == {Complete}

\* What chart/templates/clusterrole.yaml allows: neither exec nor delete.
Shipped == [Complete EXCEPT !.exec = FALSE, !.delete = FALSE]
MCShipped == {Shipped}

\* These, and: no bootstrap Secret; a bootstrap token Authentik does not know
\* (any more), so that only the Job, which is told the namespace, can get a token.
MCTypical == {Complete, Shipped, [Complete EXCEPT !.secret = FALSE],
              [Complete EXCEPT !.valid = FALSE, !.home = FALSE]}
=============================================================================
