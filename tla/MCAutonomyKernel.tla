--------------------------- MODULE MCAutonomyKernel ---------------------------
(* Contracts in which a file is judged before or after a command changes   *)
(* it, a route or two criteria of one page need the application, and one   *)
(* criterion of the page does not start it; a failure that says two        *)
(* things; a task with a retry; repairs enough for failures that alternate *)
(* and a limit that ends one that repeats before they do; a process that   *)
(* is lost and another that is killed to no effect.                        *)
EXTENDS AutonomyKernel
=============================================================================
