----------------------- MODULE ExternalAuthorizationMC -----------------------
(* ExternalAuthorization on small instances. *)
EXTENDS ExternalAuthorization

CONSTANTS l1, l2, t1, t2

\* A browser that stops and one that goes on as TKTokenBrowser does, for each
\* kind of operation.
SomeKeepUp ==
  [f \in Flows |-> IF f \in {l2, t2} THEN {"back", "loading"} ELSE {}]

\* The Back button of TKTokenBrowser.
BackOnly == [f \in Flows |-> {"back"}]
=============================================================================
