--------------------------- MODULE OrderedInstall ---------------------------
(***************************************************************************)
(* What a run of the build queue promises to the rest of the program:      *)
(* packages are registered one at a time, a package only after everything  *)
(* it must come after, and the run is called a success only when all of    *)
(* them are registered.  It says nothing of threads, locks, channels or    *)
(* counters.                                                               *)
(***************************************************************************)
CONSTANT Tasks

VARIABLES before,     \* what each task must come after
          registered, \* the tasks installed so far
          outcome     \* "running", then "succeeded" or "failed"

avars == <<before, registered, outcome>>

AInit ==
  /\ before \in [Tasks -> SUBSET Tasks]
  /\ registered = {}
  /\ outcome = "running"

\* One more package is installed.
Register(t) ==
  /\ outcome = "running"
  /\ t \notin registered
  /\ before[t] \subseteq registered
  /\ registered' = registered \cup {t}
  /\ UNCHANGED <<before, outcome>>

\* The run ends well: nothing is left to install.
Succeed ==
  /\ outcome = "running"
  /\ registered = Tasks
  /\ outcome' = "succeeded"
  /\ UNCHANGED <<before, registered>>

\* The run gives up; what was registered stays registered.
Fail ==
  /\ outcome = "running"
  /\ outcome' = "failed"
  /\ UNCHANGED <<before, registered>>

ANext == (\E t \in Tasks : Register(t)) \/ Succeed \/ Fail

ASpec == AInit /\ [][ANext]_avars
=============================================================================
