--------------------------- MODULE DownloadVerify ---------------------------
(***************************************************************************)
(* The golangci-lint installer (src/unnamed/part_000): a bash script run   *)
(* under `set -eux` that creates a temporary directory, downloads the      *)
(* release archive for this platform, compares its sha256 with the pinned *)
(* one, unpacks it and moves the binary into <repo>/<bin_dir>.             *)
(*                                                                         *)
(* Under `set -e` a failing simple command ends the script with its        *)
(* status; under `set -u` expanding an unset variable ends it with status *)
(* 1 and "unbound variable".  Which external command (mktemp, wget, tar,   *)
(* mkdir, mv) fails, and whether the download matches the pinned sum, is  *)
(* a nondeterministic choice.  Messages are abstracted to their kind.      *)
(***************************************************************************)
EXTENDS Integers

CONSTANTS
  KernelOSValues,   \* what `uname | tr '[:upper:]' '[:lower:]'` can print
  SkipValues        \* values of INSECURE_SKIP_DOWNLOAD_VERIFICATION, Unset included

Unset == "<unset>"

ASSUME DownloadVerifyAssumption ==
  /\ KernelOSValues # {} /\ SkipValues # {}
  /\ Unset \in SkipValues

\* The kernels the `case` at lines 64-71 pins a checksum for.
SupportedOS == {"darwin", "linux"}

VARIABLES
  pc,          \* the line the script is at
  argGiven,    \* the script was called with a bin_dir argument ($1)
  skip,        \* the environment's INSECURE_SKIP_DOWNLOAD_VERIFICATION
  kernelOS,    \* KERNEL_OS
  tmpDir,      \* the mktemp directory exists
  archive,     \* the downloaded archive: "none", "match" or "mismatch"
  installed,   \* the binary is in <repo>/<bin_dir>
  message,     \* the last diagnostic on stderr, by kind
  exitCode     \* the script's status; -1 while it runs

vars == <<pc, argGiven, skip, kernelOS, tmpDir, archive, installed, message, exitCode>>

Init ==
  /\ pc = "main"
  /\ argGiven \in BOOLEAN
  /\ skip \in SkipValues
  /\ kernelOS \in KernelOSValues
  /\ tmpDir = FALSE
  /\ archive = "none"
  /\ installed = FALSE
  /\ message = "none"
  /\ exitCode = -1

\* The script ends with status code after printing msg.
Exit(code, msg) ==
  /\ pc' = "exited" /\ exitCode' = code /\ message' = msg

\* The non-zero statuses each external command can fail with: wget's 1-8,
\* GNU tar's 1 and 2, and 1 for mktemp, pushd, mkdir and mv.
WgetStatus == 1..8
TarStatus == {1, 2}
CoreutilsStatus == {1}

\* A command that either succeeds and moves to `to`, or fails with one of
\* codes and, by set -e, ends the script with that status.
CommandOrExit(to, codes) ==
  \/ pc' = to /\ UNCHANGED <<message, exitCode>>
  \/ \E c \in codes : Exit(c, "commandFailed")

\* Line 80: download_and_install_golangci_lint "$1"; under set -u an absent
\* $1 is an unbound variable before ${1:?Binary path missing} is reached.
Main ==
  /\ pc = "main"
  /\ IF argGiven THEN pc' = "mktemp" /\ UNCHANGED <<message, exitCode>>
                 ELSE Exit(1, "unboundVariable")
  /\ UNCHANGED <<argGiven, skip, kernelOS, tmpDir, archive, installed>>

\* Lines 57-58: tmp_dir="$(mktemp -d)"; pushd "${tmp_dir}" || return 1.
MakeTempDir ==
  /\ pc = "mktemp"
  /\ \/ tmpDir' = TRUE /\ CommandOrExit("uname", CoreutilsStatus)
     \/ Exit(1, "commandFailed") /\ UNCHANGED tmpDir
  /\ UNCHANGED <<argGiven, skip, kernelOS, archive, installed>>

\* Lines 60-71: the checksum for this kernel, or exit 1 when there is none.
SelectChecksum ==
  /\ pc = "uname"
  /\ IF kernelOS \in SupportedOS THEN pc' = "wget" /\ UNCHANGED <<message, exitCode>>
                                 ELSE Exit(1, "osUnsupported")
  /\ UNCHANGED <<argGiven, skip, kernelOS, tmpDir, archive, installed>>

\* Lines 37-39: wget -O target url, then checksum="$(sha256sum target | awk ...)".
\* The archive served may or may not be the pinned one.
Wget ==
  /\ pc = "wget"
  /\ \/ /\ archive' \in {"match", "mismatch"}
        /\ pc' = "compare" /\ UNCHANGED <<message, exitCode>>
     \/ \E c \in WgetStatus : Exit(c, "commandFailed") /\ UNCHANGED archive
  /\ UNCHANGED <<argGiven, skip, kernelOS, tmpDir, installed>>

\* Mutant: any value of the switch, "false" included, skips verification.
VerifyChecksumAnySet ==
  /\ pc = "compare"
  /\ \/ archive = "match" /\ pc' = "tar" /\ UNCHANGED <<message, exitCode>>
     \/ /\ archive = "mismatch"
        /\ IF skip = Unset THEN Exit(1, "unboundVariable")
           ELSE pc' = "tar" /\ message' = "checksumWarning" /\ UNCHANGED exitCode
  /\ UNCHANGED <<argGiven, skip, kernelOS, tmpDir, archive, installed>>

\* Lines 40-49: on a mismatch, read INSECURE_SKIP_DOWNLOAD_VERIFICATION
\* (unbound under set -u when unset); "true" only warns, anything else
\* prints the fatal message and returns 1, which set -e turns into exit 1.
VerifyChecksum ==
  /\ pc = "compare"
  /\ \/ archive = "match" /\ pc' = "tar" /\ UNCHANGED <<message, exitCode>>
     \/ /\ archive = "mismatch"
        /\ CASE skip = Unset  -> Exit(1, "unboundVariable")
             [] skip = "true" -> pc' = "tar" /\ message' = "checksumWarning"
                                 /\ UNCHANGED exitCode
             [] OTHER         -> Exit(1, "checksumFatal")
  /\ UNCHANGED <<argGiven, skip, kernelOS, tmpDir, archive, installed>>

\* Lines 74-75: tar zxvf the archive; rm -f the archive.
Extract ==
  /\ pc = "tar"
  /\ CommandOrExit("install", TarStatus)
  /\ UNCHANGED <<argGiven, skip, kernelOS, tmpDir, archive, installed>>

\* Mutant: `mv ... || true`, a failed move is not an error.
InstallIgnoringMvFailure ==
  /\ pc = "install"
  /\ \/ installed' = TRUE /\ Exit(0, message)
     \/ Exit(0, message) /\ UNCHANGED installed
  /\ UNCHANGED <<argGiven, skip, kernelOS, tmpDir, archive>>

\* Lines 76-77: mkdir -p <repo>/<bin_dir>; mv the binary there.  The function
\* then returns and the script ends with the status of its last command.
Install ==
  /\ pc = "install"
  /\ \/ installed' = TRUE /\ Exit(0, message)
     \/ Exit(1, "commandFailed") /\ UNCHANGED installed
  /\ UNCHANGED <<argGiven, skip, kernelOS, tmpDir, archive>>

Next == Main \/ MakeTempDir \/ SelectChecksum \/ Wget \/ VerifyChecksum
        \/ Extract \/ Install

Spec == Init /\ [][Next]_vars

-----------------------------------------------------------------------------
(* The refinement mapping to DownloadAbstract.  The installer is done once *)
(* the script exited and has accepted the archive once past the           *)
(* comparison; the verdict on the archive is read from the archive wget   *)
(* fetched and the skip switch, which the script never changes.            *)
InstallStage ==
  IF pc = "exited" THEN "done"
  ELSE IF pc \in {"tar", "install"} THEN "accepted" ELSE "fetching"

ArchiveVerdict ==
  IF archive = "none" THEN "pending"
  ELSE IF archive = "match" THEN "pinned"
  ELSE IF skip = "true" THEN "waived" ELSE "rejected"

Abstract == INSTANCE DownloadAbstract
              WITH stage <- InstallStage, verdict <- ArchiveVerdict,
                   binary <- installed, status <- exitCode,
                   FailureStatus <- WgetStatus

-----------------------------------------------------------------------------
(* Properties.                                                             *)

TypeOK ==
  /\ pc \in {"main", "mktemp", "uname", "wget", "compare", "tar", "install", "exited"}
  /\ argGiven \in BOOLEAN /\ tmpDir \in BOOLEAN /\ installed \in BOOLEAN
  /\ skip \in SkipValues /\ kernelOS \in KernelOSValues
  /\ archive \in {"none", "match", "mismatch"}
  /\ exitCode \in {-1, 0} \cup WgetStatus

(* The point of wget_and_verify (comment, lines 17-18): a binary reaches   *)
(* bin_dir only if its archive had the pinned sha256, or the operator set  *)
(* INSECURE_SKIP_DOWNLOAD_VERIFICATION=true, in which case a warning was   *)
(* printed and the installation still succeeded.                            *)
InstalledOnlyIfVerified ==
  installed =>
    \/ archive = "match"
    \/ skip = "true" /\ message = "checksumWarning"

(* The status tells the caller (make) what happened: 0 exactly when the    *)
(* binary was installed, non-zero for every way it can stop early.        *)
ExitStatusMeansInstalled ==
  pc = "exited" => (exitCode = 0 <=> installed)

(* The script implements the abstract installer: every step leaves what  *)
(* the abstraction sees alone or is one of its steps, so it installs only *)
(* a pinned or waived archive, and ends with 0 and the binary or with a    *)
(* non-zero status and nothing installed.                                  *)
ImplementsAbstract == Abstract!ASpec

(* Lines 43-45: on a mismatch without the skip switch, the script is meant *)
(* to stop with "fatal: <url> binary checksum ... differs from expected".  *)
MismatchReportsChecksum ==
  (pc = "exited" /\ archive = "mismatch" /\ skip # "true") =>
    message = "checksumFatal"
=============================================================================
