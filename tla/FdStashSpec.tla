---------------------------- MODULE FdStashSpec ----------------------------
(***************************************************************************)
(* What the process-wide FD stash of block-nbd promises (spec section    *)
(* 4.5): a table of at most NPassedFds entries mapping a name (its first *)
(* 39 bytes) to a connected socket.                                      *)
(*   - stash(fd, name) replaces the entry of that name, closing the fd   *)
(*     it held, or takes a new entry; when the table is full the passed  *)
(*     fd is closed and nothing is stored.                               *)
(*   - retrieve(name) removes the entry and hands its fd to the caller.  *)
(* held[k] is the fd stored under name k (NoFd: none); fdopen is the set *)
(* of fd numbers open in the process, shared with the code-level model.  *)
(***************************************************************************)
EXTENDS Naturals, FiniteSets, Functions

CONSTANTS NPassedFds, Names, Fds

NoFd == -1

VARIABLES held, fdopen

vars == <<held, fdopen>>

HeldNames == {k \in Names : held[k] # NoFd}

\* Store fd under k in a process whose open fds are `open'.
StashStep(fd, k, open) ==
    \/ /\ held[k] # NoFd
       /\ held' = [held EXCEPT ![k] = fd]
       /\ fdopen' = open \ {held[k]}
    \/ /\ held[k] = NoFd
       /\ Cardinality(HeldNames) < NPassedFds
       /\ held' = [held EXCEPT ![k] = fd]
       /\ fdopen' = open
    \/ /\ held[k] = NoFd
       /\ Cardinality(HeldNames) = NPassedFds
       /\ held' = held
       /\ fdopen' = open \ {fd}

\* The fd receiver hands over a newly received connection.
Pass(fd, k) == fd \notin fdopen /\ StashStep(fd, k, fdopen \cup {fd})

\* A user gives back an fd it owns.
Park(fd, k) == fd \in fdopen \ Range(held) /\ StashStep(fd, k, fdopen)

\* retrieve(k); the caller may close what it got at once.
Take(k) ==
    /\ held' = [held EXCEPT ![k] = NoFd]
    /\ fdopen' \in {fdopen, fdopen \ {held[k]}}

\* A user closes an fd it owns, one the stash does not hold.
Release(fd) ==
    /\ fd \in fdopen \ Range(held)
    /\ fdopen' = fdopen \ {fd}
    /\ UNCHANGED held

Init ==
    /\ held = [k \in Names |-> NoFd]
    /\ fdopen = {}

Next ==
    \/ \E fd \in Fds, k \in Names : Pass(fd, k) \/ Park(fd, k)
    \/ \E k \in Names : Take(k)
    \/ \E fd \in Fds : Release(fd)

Spec == Init /\ [][Next]_vars

=============================================================================
