---------------------------- MODULE MCDnsBalancing ----------------------------
(* DnsBalancing for TLC. *)
EXTENDS DnsBalancing
================================================================================
