------------------------- MODULE MC_DownloadVerify --------------------------
(* Both pinned kernels and one without a checksum; the skip switch unset,  *)
(* "true" and any other value.                                             *)
EXTENDS DownloadVerify

MCKernelOSValues == {"linux", "darwin", "freebsd"}
MCSkipValues == {Unset, "true", "false"}
=============================================================================
