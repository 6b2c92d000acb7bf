------------------------- MODULE DownloadAbstract ---------------------------
(***************************************************************************)
(* What a checksum-verifying installer promises, without the commands it  *)
(* runs: it obtains an archive, which is then either the pinned one,       *)
(* waived by the operator, or rejected; it goes on to install only an     *)
(* accepted archive; and it ends either with the binary installed and      *)
(* status 0, or with nothing installed and a non-zero status.             *)
(***************************************************************************)
EXTENDS Integers

CONSTANT FailureStatus   \* the non-zero statuses the installer may end with

VARIABLES
  stage,      \* "fetching", "accepted" or "done"
  verdict,    \* "pending", "pinned", "waived" or "rejected"
  binary,     \* the binary is installed
  status      \* the exit status; -1 while the installer runs

avars == <<stage, verdict, binary, status>>

AInit ==
  /\ stage = "fetching" /\ verdict = "pending"
  /\ binary = FALSE /\ status = -1

\* The archive arrives and is judged against the pinned sum and the waiver.
Download ==
  /\ stage = "fetching" /\ verdict = "pending"
  /\ verdict' \in {"pinned", "waived", "rejected"}
  /\ UNCHANGED <<stage, binary, status>>

\* Only a pinned or waived archive is taken further.
Accept ==
  /\ stage = "fetching" /\ verdict \in {"pinned", "waived"}
  /\ stage' = "accepted"
  /\ UNCHANGED <<verdict, binary, status>>

InstallBinary ==
  /\ stage = "accepted"
  /\ stage' = "done" /\ binary' = TRUE /\ status' = 0
  /\ UNCHANGED verdict

\* At any point before the end the installer may give up, installing nothing.
Fail ==
  /\ stage # "done"
  /\ stage' = "done" /\ status' \in FailureStatus
  /\ UNCHANGED <<verdict, binary>>

ANext == Download \/ Accept \/ InstallBinary \/ Fail

ASpec == AInit /\ [][ANext]_avars
=============================================================================
