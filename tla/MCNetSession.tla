---------------------------- MODULE MCNetSession ----------------------------
(* Model-checking instance of NetSession: the constants of the runs.       *)
EXTENDS NetSession

\* Four descriptor numbers starting at 0 (a daemon with its standard
\* streams closed): an eventfd and two sockets of one attempt plus one
\* descriptor of another part of the process.
MC_FdNums == {0, 1, 2, 3}

\* Numbers starting at 3, as in a process with open standard streams.
MC_FdNumsStd == {3, 4, 5, 6}

\* Candidates: stream only, datagram only, and both kinds of each family.
MC_AddrTypeSets ==
    {{"TCP4"}, {"TCP6"}, {"UDP4", "UDP6"}, {"UDP6", "TCP4"}}

\* TCP-only candidates, for the build without ARDP.
MC_TcpAddrTypeSets == {{"TCP4"}, {"TCP6"}, {"TCP4", "TCP6"}}

\* Every value the uninitialised uint64_t can hold, as write() sees it.
MC_U64Values == {"Zero", "AllOnes", "Other"}

\* Only values that signal, to isolate the other causes of a lost interrupt.
MC_U64Signal == {"Other"}
=============================================================================
