----------------------------- MODULE SenderInfo -----------------------------
(***************************************************************************)
(* The backward search of RewriteSenderInfo (src/src/target/linux/       *)
(* aj_net.c lines 490-503) for the "send" of the sender-info record of an  *)
(* mDNS packet, and the definition it is checked against.                 *)
(*                                                                         *)
(* A packet is its data: the sequence of bytes from readPtr (offset 0)    *)
(* to writePtr (offset Len(d), exclusive).  The byte at writePtr, beyond  *)
(* the data, is whatever the buffer held there before.                    *)
(***************************************************************************)
EXTENDS Naturals, Sequences, FiniteSets

\* Mutant: the pattern written in reading order rather than reversed.
Snd_forward == <<"s", "e", "n", "d">>

\* snd[] (line 446): "send" backwards, the order in which the scan compares.
Snd == <<"d", "n", "e", "s">>

\* *pkt for pkt = readPtr + i; i = Len(d) is the byte at writePtr.
ByteAt(d, stale, i) == IF i = Len(d) THEN stale ELSE d[i + 1]

\* Lines 494-503: from writePtr, compare *pkt with snd[match] and step back;
\* a mismatch restarts the count without comparing that byte again.  Stop
\* when pkt reaches readPtr (never compared) or four bytes matched.  On a
\* match pkt is one before the 's', so pkt + 1 = at is the record's start.
\* Requires Len(d) >= 1: with writePtr = readPtr the loop runs off the
\* front of the buffer.
ScanSenderInfo(d, stale) ==
    LET RECURSIVE Scan(_, _)
        Scan(pkt, match) ==
            LET m == IF ByteAt(d, stale, pkt) = Snd[match + 1]
                     THEN match + 1 ELSE 0
            IN IF pkt - 1 # 0 /\ m # 4 THEN Scan(pkt - 1, m)
               ELSE [found |-> m = 4, at |-> pkt]
    IN Scan(Len(d), 0)

\* Reference: the offsets after readPtr at which "send" lies wholly in the
\* data.  Under the code's ASSUMPTIONS (lines 489-491) the sender-info
\* record is the last record, so the greatest is its start.
MarkerStarts(d) ==
    {i \in 1..(Len(d) - 4) :
        <<d[i + 1], d[i + 2], d[i + 3], d[i + 4]>> = <<"s", "e", "n", "d">>}
=============================================================================
