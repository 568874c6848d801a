------------------------------ MODULE MCRegistry ------------------------------
(* An instance of Registry for TLC.                                         *)
EXTENDS Registry

\* Two repos share an alias; the third has that alias for its name.
Registrations ==
  {[name |-> "app", alias |-> "svc"], [name |-> "web", alias |-> "svc"],
   [name |-> "svc", alias |-> "app"]}
=============================================================================
