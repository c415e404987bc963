-------------------------------- MODULE MCAuth --------------------------------
(***************************************************************************)
(* The middleware with two requests at once and one key that has two of    *)
(* the four scopes, so that of every route one such key opens it and the   *)
(* other does not.  The routes are one to read health, one to read tasks   *)
(* and one to write them.                                                  *)
(***************************************************************************)
EXTENDS Auth

SomeRoutes ==
    {[method |-> "GET", path |-> "/health"],
     [method |-> "GET", path |-> "/tasks/id/logs"],
     [method |-> "DELETE", path |-> "/tasks/id"]}

SplitScopes == {{"health:read", "tasks:write"}, {"stats:read", "tasks:read"}}
=============================================================================
