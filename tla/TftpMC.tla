------------------------------- MODULE TftpMC -------------------------------
(***************************************************************************)
(* Tftp for TLC: one client that downloads and one that uploads, files     *)
(* long enough for block numbers to wrap.                                  *)
(***************************************************************************)
EXTENDS Tftp

CONSTANTS r, w

=============================================================================
