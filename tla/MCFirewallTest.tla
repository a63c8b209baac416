--------------------------- MODULE MCFirewallTest ---------------------------
(* TLC instance of FirewallTest.                                           *)
EXTENDS FirewallTest
=============================================================================
