------------------------------- MODULE MCJobs -------------------------------
(* Two jobs, of every pair of kinds that have something to do with each    *)
(* other.                                                                  *)
EXTENDS Jobs, TLC

CONSTANTS a, b

MCWorlds == { a :> "patch" @@ b :> "patch",
              a :> "patch" @@ b :> "remediate",
              a :> "patch" @@ b :> "update",
              a :> "patch" @@ b :> "reboot",
              a :> "software" @@ b :> "remediate",
              a :> "software" @@ b :> "update" }

Reboots == { a :> "patch" @@ b :> "reboot" }
=============================================================================
