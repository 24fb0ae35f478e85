--------------------------- MODULE MCNetLifecycle ---------------------------
(* Instances of NetLifecycle for TLC.  Ports 23 and 69 are telnet's and      *)
(* TFTP's, so a server configured on them clashes.                           *)
EXTENDS NetLifecycle

AllServices == Services
=============================================================================
