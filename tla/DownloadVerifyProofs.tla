------------------------ MODULE DownloadVerifyProofs ------------------------
(***************************************************************************)
(* Proofs, for every set of kernels and skip-switch values, that the       *)
(* golangci-lint installer installs a binary only from a verified archive  *)
(* (or under the explicit skip switch) and that its status is 0 exactly   *)
(* when it installed one.                                                  *)
(***************************************************************************)
EXTENDS DownloadVerify, TLAPS

\* The archive may be installed: it had the pinned sum, or the switch was
\* "true" and the warning of line 42 was printed.
Verified ==
  \/ archive = "match"
  \/ skip = "true" /\ message = "checksumWarning"

\* Past the comparison the archive is verified; the binary is in bin_dir
\* only once the script exited with 0, and an exit with 0 means it is.
ScriptProgress ==
  /\ pc \in {"tar", "install"} \/ installed => Verified
  /\ installed => pc = "exited" /\ exitCode = 0
  /\ pc = "exited" /\ exitCode = 0 => installed

IInv == TypeOK /\ ScriptProgress

LEMMA InitIInv == Init => IInv
BY DEF Init, IInv, TypeOK, ScriptProgress, Verified, WgetStatus

LEMMA NextIInv == IInv /\ [Next]_vars => IInv'
<1> SUFFICES ASSUME TypeOK, ScriptProgress, [Next]_vars
             PROVE  TypeOK' /\ ScriptProgress'
  BY DEF IInv
<1> USE DEF TypeOK, ScriptProgress, Verified, WgetStatus, TarStatus,
            CoreutilsStatus, Exit, CommandOrExit
<1>1. CASE Main
  BY <1>1 DEF Main
<1>2. CASE MakeTempDir
  <2>1. ~installed /\ tmpDir' \in BOOLEAN
    BY <1>2 DEF MakeTempDir
  <2>2. CASE tmpDir' = TRUE /\ pc' = "uname" /\ UNCHANGED <<message, exitCode>>
    BY <1>2, <2>1, <2>2 DEF MakeTempDir
  <2>3. CASE \E c \in CoreutilsStatus : Exit(c, "commandFailed")
    <3>1. PICK c \in CoreutilsStatus : Exit(c, "commandFailed")
      BY <2>3
    <3>2. c = 1 /\ pc' = "exited" /\ exitCode' = c
      BY <3>1
    <3>3. UNCHANGED <<argGiven, skip, kernelOS, archive, installed>>
      BY <1>2 DEF MakeTempDir
    <3>4. QED
      BY <2>1, <3>2, <3>3
  <2>4. CASE Exit(1, "commandFailed") /\ UNCHANGED tmpDir
    BY <1>2, <2>1, <2>4 DEF MakeTempDir
  <2>5. QED
    BY <1>2, <2>2, <2>3, <2>4 DEF MakeTempDir
<1>3. CASE SelectChecksum
  BY <1>3 DEF SelectChecksum
<1>4. CASE Wget
  BY <1>4 DEF Wget
<1>5. CASE VerifyChecksum
  BY <1>5 DEF VerifyChecksum
<1>6. CASE Extract
  BY <1>6 DEF Extract
<1>7. CASE Install
  <2>1. pc = "install" /\ ~installed /\ Verified
    BY <1>7 DEF Install
  <2>2. UNCHANGED <<argGiven, skip, kernelOS, tmpDir, archive>>
    BY <1>7 DEF Install
  <2>3. CASE installed' = TRUE /\ Exit(0, message)
    BY <2>1, <2>2, <2>3
  <2>4. CASE Exit(1, "commandFailed") /\ UNCHANGED installed
    BY <2>1, <2>2, <2>4
  <2>5. QED
    BY <1>7, <2>3, <2>4 DEF Install
<1>8. CASE UNCHANGED vars
  BY <1>8 DEF vars
<1>9. QED
  BY <1>1, <1>2, <1>3, <1>4, <1>5, <1>6, <1>7, <1>8 DEF Next

(* Every reachable state of the installer is well typed: the status is   *)
(* -1 while it runs, 0, or one a failing command can return.              *)
THEOREM DownloadTypeCorrect == Spec => []TypeOK
<1>1. IInv => TypeOK
  BY DEF IInv
<1>2. QED
  BY <1>1, InitIInv, NextIInv, PTL DEF Spec

(* Lines 40-49 and 76-77: a binary reaches bin_dir only from an archive   *)
(* with the pinned sha256, or under INSECURE_SKIP_DOWNLOAD_VERIFICATION=  *)
(* true after the warning.                                                 *)
THEOREM OnlyVerifiedInstalled == Spec => []InstalledOnlyIfVerified
<1>1. IInv => InstalledOnlyIfVerified
  BY DEF IInv, ScriptProgress, Verified, InstalledOnlyIfVerified
<1>2. QED
  BY <1>1, InitIInv, NextIInv, PTL DEF Spec

(* Under set -e the script's status is 0 exactly when mv installed the    *)
(* binary, whichever command failed otherwise.                            *)
THEOREM StatusMeansInstalled == Spec => []ExitStatusMeansInstalled
<1>1. IInv => ExitStatusMeansInstalled
  BY DEF IInv, TypeOK, ScriptProgress, ExitStatusMeansInstalled
<1>2. QED
  BY <1>1, InitIInv, NextIInv, PTL DEF Spec
-----------------------------------------------------------------------------
(* The refinement of DownloadAbstract.  Besides IInv it needs where the    *)
(* archive stands: none before wget returned, one after it, and a status  *)
(* other than -1 exactly once the script exited.                           *)
ArchiveProgress ==
  /\ pc \in {"main", "mktemp", "uname", "wget"} => archive = "none"
  /\ pc \in {"compare", "tar", "install"} => archive \in {"match", "mismatch"}
  /\ pc = "exited" <=> exitCode # -1

RInv == IInv /\ ArchiveProgress

\* Before the first line ran no archive exists and no status is set.
LEMMA InitRInv == Init => RInv
BY InitIInv DEF Init, RInv, ArchiveProgress

\* wget is the only step that sets the archive, and every step that leaves
\* the script's lines sets a status other than -1.
LEMMA NextRInv == RInv /\ [Next]_vars => RInv'
<1> SUFFICES ASSUME RInv, [Next]_vars PROVE ArchiveProgress'
  BY NextIInv DEF RInv
<1>1. TypeOK' /\ exitCode' \in {-1, 0} \cup WgetStatus
  BY NextIInv DEF RInv, IInv, TypeOK
<1> USE DEF RInv, IInv, TypeOK, ArchiveProgress, Exit, CommandOrExit,
            WgetStatus, TarStatus, CoreutilsStatus
<1>2. CASE Main
  BY <1>2 DEF Main
<1>3. CASE MakeTempDir
  BY <1>3 DEF MakeTempDir
<1>4. CASE SelectChecksum
  BY <1>4 DEF SelectChecksum
<1>5. CASE Wget
  BY <1>5 DEF Wget
<1>6. CASE VerifyChecksum
  BY <1>6 DEF VerifyChecksum
<1>7. CASE Extract
  BY <1>7 DEF Extract
<1>8. CASE Install
  BY <1>8 DEF Install
<1>9. CASE UNCHANGED vars
  BY <1>9 DEF vars
<1>10. QED
  BY <1>2, <1>3, <1>4, <1>5, <1>6, <1>7, <1>8, <1>9 DEF Next

\* A step that ends the script with a non-zero status and leaves archive
\* and installation alone is the abstract installer giving up.
LEMMA FailRefines ==
  ASSUME RInv, pc # "exited", pc' = "exited", exitCode' \in WgetStatus,
         UNCHANGED <<archive, skip, installed>>
  PROVE  [Abstract!ANext]_Abstract!avars
<1>1. Abstract!Fail
  BY DEF Abstract!Fail, InstallStage, ArchiveVerdict
<1>2. QED
  BY <1>1 DEF Abstract!ANext

\* A step between two lines of the same stage that sets neither archive,
\* status nor installation is invisible to the abstraction.
LEMMA StutterRefines ==
  ASSUME InstallStage' = InstallStage,
         UNCHANGED <<archive, skip, installed, exitCode>>
  PROVE  UNCHANGED Abstract!avars
BY DEF Abstract!avars, ArchiveVerdict

\* Every step of the script is a step of the abstract installer or leaves
\* stage, verdict, installation and status alone.
LEMMA NextRefinesAbstract == RInv /\ [Next]_vars => [Abstract!ANext]_Abstract!avars
<1> SUFFICES ASSUME RInv, [Next]_vars PROVE [Abstract!ANext]_Abstract!avars
  OBVIOUS
<1>0. TypeOK /\ ScriptProgress /\ ArchiveProgress
  BY DEF RInv, IInv
<1>1. CASE Main
  <2>1. CASE argGiven
    BY <1>1, <2>1, StutterRefines DEF Main, InstallStage
  <2>2. CASE ~argGiven
    BY <1>1, <2>2, FailRefines DEF Main, Exit, WgetStatus
  <2>3. QED
    BY <2>1, <2>2
<1>2. CASE MakeTempDir
  <2>1. CASE pc' = "uname" /\ UNCHANGED <<message, exitCode>>
    BY <1>2, <2>1, StutterRefines DEF MakeTempDir, InstallStage
  <2>2. CASE pc' # "uname"
    <3>1. pc' = "exited" /\ exitCode' \in WgetStatus
      BY <1>2, <2>2 DEF MakeTempDir, CommandOrExit, Exit, CoreutilsStatus, WgetStatus
    <3>2. QED
      BY <1>2, <3>1, FailRefines DEF MakeTempDir
  <2>3. QED
    BY <1>2, <2>1, <2>2 DEF MakeTempDir, CommandOrExit, Exit
<1>3. CASE SelectChecksum
  <2>1. CASE kernelOS \in SupportedOS
    BY <1>3, <2>1, StutterRefines DEF SelectChecksum, InstallStage
  <2>2. CASE kernelOS \notin SupportedOS
    BY <1>3, <2>2, FailRefines DEF SelectChecksum, Exit, WgetStatus
  <2>3. QED
    BY <2>1, <2>2
<1>4. CASE Wget
  <2>1. archive = "none" /\ exitCode = -1
    BY <1>0, <1>4 DEF Wget, ArchiveProgress
  <2>2. CASE archive' \in {"match", "mismatch"} /\ pc' = "compare"
             /\ UNCHANGED <<message, exitCode>>
    <3>1. Abstract!Download
      BY <1>4, <2>1, <2>2 DEF Wget, Abstract!Download, InstallStage, ArchiveVerdict
    <3>2. QED
      BY <3>1 DEF Abstract!ANext
  <2>3. CASE \E c \in WgetStatus : Exit(c, "commandFailed") /\ UNCHANGED archive
    BY <1>4, <2>3, FailRefines DEF Wget, Exit
  <2>4. QED
    BY <1>4, <2>2, <2>3 DEF Wget
<1>5. CASE VerifyChecksum
  <2>1. pc = "compare" /\ archive \in {"match", "mismatch"} /\ exitCode = -1
    BY <1>0, <1>5 DEF VerifyChecksum, ArchiveProgress
  <2>2. CASE pc' = "tar"
    <3>1. archive = "match" \/ skip = "true"
      BY <1>5, <2>2 DEF VerifyChecksum, Exit
    <3>2. Abstract!Accept
      BY <1>5, <2>1, <2>2, <3>1 DEF VerifyChecksum, Exit, Abstract!Accept,
         InstallStage, ArchiveVerdict
    <3>3. QED
      BY <3>2 DEF Abstract!ANext
  <2>3. CASE pc' # "tar"
    <3>1. pc' = "exited" /\ exitCode' = 1
      BY <1>5, <2>3 DEF VerifyChecksum, Exit
    <3>2. QED
      BY <1>5, <3>1, FailRefines DEF VerifyChecksum, WgetStatus
  <2>4. QED
    BY <2>2, <2>3
<1>6. CASE Extract
  <2>1. CASE pc' = "install" /\ UNCHANGED <<message, exitCode>>
    BY <1>6, <2>1, StutterRefines DEF Extract, InstallStage
  <2>2. CASE \E c \in TarStatus : Exit(c, "commandFailed")
    BY <1>6, <2>2, FailRefines DEF Extract, Exit, TarStatus, WgetStatus
  <2>3. QED
    BY <1>6, <2>1, <2>2 DEF Extract, CommandOrExit
<1>7. CASE Install
  <2>1. pc = "install" /\ exitCode = -1
    BY <1>0, <1>7 DEF Install, ArchiveProgress
  <2>2. CASE installed' = TRUE /\ Exit(0, message)
    <3>1. Abstract!InstallBinary
      BY <1>7, <2>1, <2>2 DEF Install, Exit, Abstract!InstallBinary,
         InstallStage, ArchiveVerdict
    <3>2. QED
      BY <3>1 DEF Abstract!ANext
  <2>3. CASE Exit(1, "commandFailed") /\ UNCHANGED installed
    BY <1>7, <2>3, FailRefines DEF Install, Exit, WgetStatus
  <2>4. QED
    BY <1>7, <2>2, <2>3 DEF Install
<1>8. CASE UNCHANGED vars
  BY <1>8, StutterRefines DEF vars, InstallStage
<1>9. QED
  BY <1>1, <1>2, <1>3, <1>4, <1>5, <1>6, <1>7, <1>8 DEF Next

(* The installer implements the abstract checksum-verifying installer:    *)
(* for every kernel and skip-switch value it installs only a pinned or     *)
(* waived archive, after accepting it, and ends with 0 and the binary or   *)
(* with a failing command's status and nothing installed.                  *)
THEOREM DownloadRefinement == Spec => ImplementsAbstract
<1>1. Init => Abstract!AInit
  BY DEF Init, Abstract!AInit, InstallStage, ArchiveVerdict
<1>2. QED
  BY <1>1, InitRInv, NextRInv, NextRefinesAbstract, PTL
  DEF Spec, ImplementsAbstract, Abstract!ASpec
=============================================================================
