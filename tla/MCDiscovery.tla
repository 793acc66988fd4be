---------------------------- MODULE MCDiscovery ----------------------------
(* Constants of the Discovery runs.                                         *)
EXTENDS Discovery

\* Entries of getifaddrs(): a loopback, an IPv4 interface on the default
\* route with a broadcast address, a second IPv4 interface off it, and
\* an IPv6 address of the default-route interface.
MC_Lo    == [fam |-> "inet", usable |-> TRUE, loop |-> TRUE, bcast |-> FALSE,
             dflt |-> FALSE]
MC_Eth   == [fam |-> "inet", usable |-> TRUE, loop |-> FALSE, bcast |-> TRUE,
             dflt |-> TRUE]
MC_Wlan  == [fam |-> "inet", usable |-> TRUE, loop |-> FALSE, bcast |-> TRUE,
             dflt |-> FALSE]
MC_Eth6  == [fam |-> "inet6", usable |-> TRUE, loop |-> FALSE, bcast |-> FALSE,
             dflt |-> TRUE]

\* A host with two interfaces, one with IPv6, and a host with only the
\* loopback, on which chooseMDnsRecvAddr finds nothing.
MC_IfTables == {<<MC_Lo, MC_Wlan, MC_Eth, MC_Eth6>>, <<MC_Lo>>}
MC_IfTablesMultiHomed == {<<MC_Lo, MC_Wlan, MC_Eth, MC_Eth6>>}

MC_FdNums == 3..8
MC_BoundPorts == {50000}
MC_TxFlagSets == {{"AJ"}, {"MDNS"}}

\* Bytes of an mDNS packet, abstracted to the letters of "send" and two
\* others.  Each packet ends with its sender-info record ("sender-info"
\* followed by its fixed fields); the second carries a "send" in an
\* earlier record too.  The byte past the data may be any of Bytes.
MC_Bytes == {"s", "e", "n", "d", "r", "x"}
MC_TxPackets ==
    {<<"x", "s", "e", "n", "d", "e", "r", "x", "x">>,
     <<"s", "e", "n", "d", "x", "s", "e", "n", "d", "e", "r", "x">>}
\* An mDNS packet with no sender-info record (marshalled without one).
MC_TxPacketsNoRecord == MC_TxPackets \cup {<<"x", "e", "r", "x", "x">>}
=============================================================================
