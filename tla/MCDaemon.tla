------------------------------ MODULE MCDaemon ------------------------------
(* Small instances of Daemon for TLC: every clock of the code is scaled    *)
(* down to a few seconds.                                                  *)
EXTENDS Daemon

MCDrifts == {-1, 0}

NoDrift == {0}
=============================================================================
