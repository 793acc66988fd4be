---------------------------- MODULE Descriptors ----------------------------
(***************************************************************************)
(* The process's descriptor table as the Linux kernel manages it for the  *)
(* network layer (src/src/target/linux/aj_net.c).  Only the descriptors   *)
(* this layer may receive are modelled: FdNums.  socket() and eventfd()   *)
(* return the LOWEST free number (POSIX), close() frees a number so that  *)
(* the next creation reuses it, and -1 (INVALID_SOCKET) is the code's     *)
(* "no descriptor".  These operators describe the kernel, not the code.   *)
(***************************************************************************)
EXTENDS Integers, FiniteSetsExt

CONSTANT FdNums          \* the descriptor numbers the layer can be given

ASSUME FdNums \subseteq Nat /\ FdNums # {}

INVALID_SOCKET == -1

\* What a descriptor number currently refers to ("other": a descriptor that
\* another part of the process opened).
FdKinds == {"free", "eventfd", "tcp", "udp", "other"}

FreeFds(fk) == {f \in FdNums : fk[f] = "free"}

\* socket()/eventfd() can only succeed while a number is free.
CanCreate(fk) == FreeFds(fk) # {}

\* The number a successful creation returns.
LowestFree(fk) == Min(FreeFds(fk))

OpenFd(fk, fd, kind) == [fk EXCEPT ![fd] = kind]

\* close(fd): a no-op (EBADF) on -1 or on a number that is not open.
CloseFd(fk, fd) ==
    IF fd \in FdNums THEN [fk EXCEPT ![fd] = "free"] ELSE fk

IsOpen(fk, fd) == fd \in FdNums /\ fk[fd] # "free"

OpenFds(fk) == {f \in FdNums : fk[f] # "free"}
=============================================================================
