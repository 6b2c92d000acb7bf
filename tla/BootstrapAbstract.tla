------------------------- MODULE BootstrapAbstract --------------------------
(***************************************************************************)
(* What the manager process promises, without the steps of its setup:     *)
(* it sets up (installing the signal handler on the way) and may fail,     *)
(* it starts serving only once fully set up, a first signal after the     *)
(* handler cancels it, and it ends with                                    *)
(*   0   only after it ran and was cancelled,                              *)
(*   143 only by a signal that came before the handler,                    *)
(*   1   on a failure or a second signal.                                  *)
(***************************************************************************)
EXTENDS Integers

VARIABLES
  phase,       \* "setup", "running" or "exited"
  handler,     \* signals are handled (cancel, then exit 1)
  ready,       \* everything the manager serves is set up
  cancelled,   \* a handled signal asked the process to stop
  status       \* the exit status; -1 while the process lives

avars == <<phase, handler, ready, cancelled, status>>

AInit ==
  /\ phase = "setup"
  /\ handler = FALSE /\ ready = FALSE /\ cancelled = FALSE
  /\ status = -1

InstallHandler ==
  /\ phase = "setup" /\ ~handler
  /\ handler' = TRUE
  /\ UNCHANGED <<phase, ready, cancelled, status>>

CompleteSetup ==
  /\ phase = "setup" /\ handler /\ ~ready
  /\ ready' = TRUE
  /\ UNCHANGED <<phase, handler, cancelled, status>>

Start ==
  /\ phase = "setup" /\ ready
  /\ phase' = "running"
  /\ UNCHANGED <<handler, ready, cancelled, status>>

Cancel ==
  /\ phase # "exited" /\ handler /\ ~cancelled
  /\ cancelled' = TRUE
  /\ UNCHANGED <<phase, handler, ready, status>>

\* End the process with status code.
Stop(code) ==
  /\ phase # "exited"
  /\ phase' = "exited" /\ status' = code
  /\ UNCHANGED <<handler, ready, cancelled>>

Kill       == ~handler /\ Stop(143)
Fail       == Stop(1)
CleanExit  == phase = "running" /\ cancelled /\ Stop(0)

ANext ==
  \/ InstallHandler \/ CompleteSetup \/ Start \/ Cancel
  \/ Kill \/ Fail \/ CleanExit

ASpec == AInit /\ [][ANext]_avars
=============================================================================
