--------------------------- MODULE MCSyslogExport ---------------------------
(* TLC instance of SyslogExport.                                           *)
EXTENDS SyslogExport
MCConfigs == {[transport |-> "disabled", host |-> "good"],
              [transport |-> "udp", host |-> "good"],
              [transport |-> "tls", host |-> "good"],
              [transport |-> "tcp", host |-> "bad"]}
=============================================================================
