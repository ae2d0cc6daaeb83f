----------------------------- MODULE MCSshStream ----------------------------
(* Model checking of SshStream.  Its constants are small numbers.          *)
EXTENDS SshStream
=============================================================================
