------------------------------ MODULE FdStash ------------------------------
(***************************************************************************)
(* The process-wide FD stash of block-nbd (src/drivers/tapdisk2.c) and   *)
(* its users:                                                            *)
(*   - the fd receiver, which hands in sockets connected to an NBD      *)
(*     export by calling tdnbd_stash_passed_fd;                          *)
(*   - tdnbd_open, which takes one out with tdnbd_retrieve_passed_fd and *)
(*     negotiates on it;                                                 *)
(*   - tdnbd_close, which closes the socket, or sends DISC and parks the *)
(*     socket back into the stash.                                       *)
(* The kernel side is the set of open fd numbers, allocated lowest-free, *)
(* and for each number the connection it refers to: its export name and *)
(* its state, fresh (the server will send its handshake), session        *)
(* (negotiated), disc (NBD_CMD_DISC sent) or hungup (server closed).     *)
(* Names stand for their first 39 bytes, the part strncmp compares.      *)
(***************************************************************************)
EXTENDS Naturals, FiniteSets, FiniteSetsExt

CONSTANTS
    NPassedFds,     \* N_PASSED_FDS
    Names,          \* export names passed in and opened
    Fds,            \* fd numbers the process may hold
    Drivers         \* tapdisk VBDs with an nbd driver in this process

ASSUME NPassedFds \in Nat \ {0} /\ Fds \subseteq Nat \ {0}

Slots      == 1..NPassedFds
NoFd       == -1
NoName     == "none"             \* the id of a slot never written
ConnStates == {"none", "fresh", "session", "disc", "hungup"}

VARIABLES
    passed_fds,     \* the passed_fds[] array: [id, fd] per slot
    fdopen,         \* fd numbers open in the process
    conn,           \* conn[f]: the connection fd number f refers to
    drv             \* per driver: opened, prv->name, prv->socket

vars == <<passed_fds, fdopen, conn, drv>>

ClosedDrv == [open |-> FALSE, name |-> NoName, socket |-> NoFd]

(***************************************************************************)
(* tdnbd_stash_passed_fd(fd, msg): the first slot that is unused OR whose *)
(* id matches takes the fd, closing the fd it held; with no such slot    *)
(* the passed fd is closed. Returns the new table and open set.          *)
(***************************************************************************)
StashClosesNew(fd, msg, open) ==
    LET cand == {i \in Slots : passed_fds[i].fd = NoFd \/ passed_fds[i].id = msg}
        i    == Min(cand)
    IN  IF cand = {} THEN [slots |-> passed_fds, open |-> open \ {fd}]
        ELSE [slots |-> [passed_fds EXCEPT ![i] = [id |-> msg, fd |-> fd]],
              open  |-> open \ {fd}]

StashKeepsId(fd, msg, open) ==
    LET cand == {i \in Slots : passed_fds[i].fd = NoFd \/ passed_fds[i].id = msg}
        i    == Min(cand)
    IN  IF cand = {} THEN [slots |-> passed_fds, open |-> open \ {fd}]
        ELSE [slots |-> [passed_fds EXCEPT ![i].fd = fd],
              open  |-> open \ {passed_fds[i].fd}]

tdnbd_stash_passed_fd(fd, msg, open) ==
    LET cand == {i \in Slots : passed_fds[i].fd = NoFd \/ passed_fds[i].id = msg}
        i    == Min(cand)
    IN  IF cand = {} THEN [slots |-> passed_fds, open |-> open \ {fd}]
        ELSE [slots |-> [passed_fds EXCEPT ![i] = [id |-> msg, fd |-> fd]],
              open  |-> open \ {passed_fds[i].fd}]

(***************************************************************************)
(* tdnbd_retrieve_passed_fd(name): the first slot whose id matches, used *)
(* or not, gives its fd (maybe -1) and is marked unused; its id stays.   *)
(***************************************************************************)
RetrieveKeepsFd(name) ==
    LET I == {i \in Slots : passed_fds[i].id = name}
    IN  IF I = {} THEN [fd |-> NoFd, slots |-> passed_fds]
        ELSE [fd |-> passed_fds[Min(I)].fd, slots |-> passed_fds]

RetrieveClearsId(name) ==
    LET I == {i \in Slots : passed_fds[i].id = name}
    IN  IF I = {} THEN [fd |-> NoFd, slots |-> passed_fds]
        ELSE [fd |-> passed_fds[Min(I)].fd,
              slots |-> [passed_fds EXCEPT ![Min(I)].id = ""]]

tdnbd_retrieve_passed_fd(name) ==
    LET I == {i \in Slots : passed_fds[i].id = name}
    IN  IF I = {} THEN [fd |-> NoFd, slots |-> passed_fds]
        ELSE [fd |-> passed_fds[Min(I)].fd,
              slots |-> [passed_fds EXCEPT ![Min(I)].fd = NoFd]]

(***************************************************************************)
(* tdnbd_nbd_negotiate(fd): the handshake succeeds only on a connection  *)
(* whose server still sends its greeting; it may fail on any connection *)
(* (10 s timeout, short read, bad magic), and every failure path closes *)
(* the socket (errout). The set of possible outcomes.                    *)
(***************************************************************************)
NegotiateFailNoClose(fd) ==
    {[ok |-> FALSE, open |-> fdopen]}
    \cup (IF conn[fd].st = "fresh" THEN {[ok |-> TRUE, open |-> fdopen]} ELSE {})

tdnbd_nbd_negotiate(fd) ==
    {[ok |-> FALSE, open |-> fdopen \ {fd}]}
    \cup (IF conn[fd].st = "fresh" THEN {[ok |-> TRUE, open |-> fdopen]} ELSE {})

(***************************************************************************)
(* The fd receiver accepts a connection to export n (the kernel gives the *)
(* lowest free fd number) and calls tdnbd_stash_passed_fd.               *)
(***************************************************************************)
FdPassed(n) ==
    /\ fdopen # Fds
    /\ LET fd == Min(Fds \ fdopen)
           r  == tdnbd_stash_passed_fd(fd, n, fdopen \cup {fd})
       IN  /\ passed_fds' = r.slots
           /\ fdopen' = r.open
           /\ conn' = [conn EXCEPT ![fd] = [name |-> n, st |-> "fresh"]]
    /\ UNCHANGED drv

(***************************************************************************)
(* tdnbd_open(d, n) for a name that is neither a socket path nor         *)
(* host:port: retrieve the passed fd, record the name, negotiate. When   *)
(* retrieve finds nothing, open returns -1 and no state changes, so that *)
(* case is not an action.                                                *)
(***************************************************************************)
tdnbd_open(d, n) ==
    /\ ~drv[d].open
    /\ LET r == tdnbd_retrieve_passed_fd(n)
       IN  /\ r.fd # NoFd
           /\ passed_fds' = r.slots
           /\ \E res \in tdnbd_nbd_negotiate(r.fd) :
                 /\ fdopen' = res.open
                 /\ IF res.ok
                    THEN /\ conn' = [conn EXCEPT ![r.fd].st = "session"]
                         /\ drv' = [drv EXCEPT ![d] =
                                      [open |-> TRUE, name |-> n, socket |-> r.fd]]
                    ELSE UNCHANGED <<conn, drv>>

(***************************************************************************)
(* tdnbd_close(d). With closed == 3 (the engine saw the connection die)  *)
(* the socket is closed. Otherwise a DISC is sent on it and, as prv->name *)
(* is set for a socket that came from the stash, it is parked back with  *)
(* tdnbd_stash_passed_fd.                                                *)
(***************************************************************************)
CloseDead(d) ==
    /\ drv[d].open
    /\ fdopen' = fdopen \ {drv[d].socket}
    /\ drv' = [drv EXCEPT ![d] = ClosedDrv]
    /\ UNCHANGED <<passed_fds, conn>>

CloseLive(d) ==
    /\ drv[d].open
    /\ LET s == drv[d].socket
           r == tdnbd_stash_passed_fd(s, drv[d].name, fdopen)
       IN  /\ conn' = [conn EXCEPT ![s].st = IF @ = "session" THEN "disc" ELSE @]
           /\ passed_fds' = r.slots
           /\ fdopen' = r.open
    /\ drv' = [drv EXCEPT ![d] = ClosedDrv]

tdnbd_close(d) == CloseDead(d) \/ CloseLive(d)

\* The NBD server ends a connection of its own accord.
ServerHangup(f) ==
    /\ f \in fdopen
    /\ conn[f].st \in {"fresh", "session"}
    /\ conn' = [conn EXCEPT ![f].st = "hungup"]
    /\ UNCHANGED <<passed_fds, fdopen, drv>>

\* tdnbd_fdreceiver_start: every slot unused; ids zero-initialised.
Init ==
    /\ passed_fds = [i \in Slots |-> [id |-> NoName, fd |-> NoFd]]
    /\ fdopen = {}
    /\ conn = [f \in Fds |-> [name |-> NoName, st |-> "none"]]
    /\ drv = [d \in Drivers |-> ClosedDrv]

Next ==
    \/ \E n \in Names : FdPassed(n)
    \/ \E d \in Drivers, n \in Names : tdnbd_open(d, n)
    \/ \E d \in Drivers : tdnbd_close(d)
    \/ \E f \in Fds : ServerHangup(f)

Spec == Init /\ [][Next]_vars

-----------------------------------------------------------------------------
InStash     == {passed_fds[i].fd : i \in Slots} \ {NoFd}
DrvSockets  == {drv[d].socket : d \in {e \in Drivers : drv[e].open}}

TypeOK ==
    /\ passed_fds \in [Slots -> [id : Names \cup {NoName}, fd : Fds \cup {NoFd}]]
    /\ fdopen \subseteq Fds
    /\ conn \in [Fds -> [name : Names \cup {NoName}, st : ConnStates]]
    /\ drv \in [Drivers -> [open : BOOLEAN, name : Names \cup {NoName},
                            socket : Fds \cup {NoFd}]]

(***************************************************************************)
(* No fd number is owned twice: it sits in at most one stash slot or one *)
(* open driver. retrieve must clear the slot it hands out, or a later    *)
(* stash closes a socket a driver is using.                              *)
(***************************************************************************)
NoFdOwnedTwice ==
    \A f \in Fds :
        Cardinality({i \in Slots : passed_fds[i].fd = f})
          + Cardinality({d \in Drivers : drv[d].open /\ drv[d].socket = f}) <= 1

(***************************************************************************)
(* Every fd number a slot or a driver holds is still open: the stash     *)
(* never keeps a number it closed, which the kernel would reuse for the  *)
(* next connection.                                                      *)
(***************************************************************************)
OwnersHoldOpenFds == InStash \cup DrvSockets \subseteq fdopen

(***************************************************************************)
(* Each slot's id, and each open driver's prv->name, names the export    *)
(* its fd is connected to: open(n) never gets another export's socket.   *)
(***************************************************************************)
SlotIdNamesConnection ==
    /\ \A i \in Slots : passed_fds[i].fd # NoFd =>
                           conn[passed_fds[i].fd].name = passed_fds[i].id
    /\ \A d \in Drivers : drv[d].open => conn[drv[d].socket].name = drv[d].name

(***************************************************************************)
(* No fd leaks: every open fd is in the stash or owned by an open driver *)
(* (full stash, replaced slot and failed negotiation all close).         *)
(***************************************************************************)
NoFdLeak == fdopen \subseteq InStash \cup DrvSockets

(***************************************************************************)
(* Every connection in the stash can still be opened: none has already   *)
(* been negotiated or sent DISC, which tdnbd_close's park would store.   *)
(***************************************************************************)
StashedUnused == \A f \in InStash : conn[f].st \in {"fresh", "hungup"}

(***************************************************************************)
(* The stash implements FdStashSpec: name k maps to the fd of the first  *)
(* slot with id k (the one retrieve takes), and the open fds are shared. *)
(***************************************************************************)
Held == [k \in Names |->
            LET I == {i \in Slots : passed_fds[i].id = k}
            IN  IF I = {} THEN NoFd ELSE passed_fds[Min(I)].fd]

Abs == INSTANCE FdStashSpec WITH held <- Held

StashRefinement == Abs!Spec

=============================================================================
