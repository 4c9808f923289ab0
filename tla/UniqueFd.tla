------------------------------ MODULE UniqueFd ------------------------------
(***************************************************************************)
(* pulsecore::UniqueFd (src/common/unique_fd.cpp): objects that own a      *)
(* descriptor each, over the process's table of open descriptors.  The     *)
(* kernel hands out the lowest free number, so that a descriptor closed    *)
(* twice, or used after it was closed, may be somebody else's.             *)
(***************************************************************************)
EXTENDS Integers

CONSTANTS
  Objects,  \* the UniqueFd objects of the program
  MaxFd     \* bound: the largest descriptor number

VARIABLES
  fd_,   \* the descriptor each object holds
  open   \* the open descriptors of the process

kInvalidFd == -1

Init == fd_ = [o \in Objects |-> kInvalidFd] /\ open = {}

\* UniqueFd(fd), around a system call that returns a new descriptor.
Open(o) ==
  /\ fd_[o] = kInvalidFd
  /\ \E fd \in 0..MaxFd \ open :
       /\ \A other \in 0..MaxFd \ open : fd <= other
       /\ fd_' = [fd_ EXCEPT ![o] = fd]
       /\ open' = open \cup {fd}

\* A bug that is not in the code: the other object keeps its descriptor.
Copy(f, to, from) == [f EXCEPT ![to] = f[from]]

\* std::exchange of the move constructor.
Exchange(f, to, from) == [f EXCEPT ![to] = f[from], ![from] = kInvalidFd]

Move(to, from) ==
  /\ fd_[to] = kInvalidFd /\ fd_[from] # kInvalidFd
  /\ fd_' = Exchange(fd_, to, from)
  /\ UNCHANGED open

\* ~UniqueFd, that is reset(): closes what is owned.
Destroy(o) ==
  /\ fd_' = [fd_ EXCEPT ![o] = kInvalidFd]
  /\ open' = open \ {fd_[o]}

\* Every open descriptor has exactly one owner, and every owner's descriptor is
\* open: across moves, exceptions and destruction none leaks, none is closed
\* twice, and none is used that was closed.
OwnedOnce ==
  /\ \A fd \in open : \E o \in Objects : \A p \in Objects : fd_[p] = fd <=> p = o
  /\ \A o \in Objects : fd_[o] \in open \cup {kInvalidFd}
=============================================================================
