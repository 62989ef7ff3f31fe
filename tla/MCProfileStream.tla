--------------------------- MODULE MCProfileStream --------------------------
(* Small instances of ProfileStream for TLC.                               *)
EXTENDS ProfileStream

CONSTANTS bob, home

\* bob looks at one handle; the host, bob himself or nobody may be behind it.
MCOnePage == {<<bob, home>>}
=============================================================================
