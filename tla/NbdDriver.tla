------------------------------ MODULE NbdDriver ------------------------------
(***************************************************************************)
(* The block-nbd driver's life cycle over the resources it takes:        *)
(* tdnbd_open with its three ways to a connection (a UNIX socket path,   *)
(* host:port through tdnbd_connect_import_session, or a name passed to   *)
(* the FD stash), the request engine abstracted to the moment it         *)
(* disables the connection, and tdnbd_close. It composes the FD stash:   *)
(* stash, retrieve and the negotiation outcome are FdStash's operators   *)
(* over the shared passed_fds, fdopen and conn.                          *)
(* heap[d] counts the live blocks d's opens allocated: prv->remote       *)
(* (malloc), prv->peer_ip and prv->name (strdup). opens bounds how many  *)
(* times a driver slot is opened.                                        *)
(***************************************************************************)
EXTENDS Naturals, FiniteSets, FiniteSetsExt

CONSTANTS
    NPassedFds,     \* N_PASSED_FDS
    Fds,            \* fd numbers the process may hold
    Drivers,        \* tapdisk VBDs with an nbd driver
    SockPaths,      \* names stat() reports as a UNIX socket
    HostPorts,      \* names of the form host:port
    BadHosts,       \* host:port names whose host inet_pton rejects
    StashNames,     \* any other name: looked up in the FD stash
    MaxOpens        \* bound on tdnbd_open calls per driver

ASSUME BadHosts \subseteq HostPorts /\ MaxOpens \in Nat

Names  == SockPaths \cup HostPorts \cup StashNames
NoFd   == -1
NoName == "none"
Blocks == {"remote", "peer_ip", "name"}

VARIABLES
    passed_fds, fdopen, conn,   \* shared with FdStash
    prv,            \* per driver: open, closed3, socket, the three pointers
    heap,           \* heap[d][b]: live blocks of kind b allocated for d
    opens           \* tdnbd_open calls made per driver

vars == <<passed_fds, fdopen, conn, prv, heap, opens>>

S == INSTANCE FdStash WITH
        Names <- StashNames,
        drv   <- [d \in Drivers |-> [open |-> prv[d].open, name |-> prv[d].name,
                                     socket |-> prv[d].socket]]

\* memset(prv, 0) at the start of tdnbd_open, then writer_event_id = -1.
Zeroed == [open |-> FALSE, closed3 |-> FALSE, socket |-> NoFd,
           remote |-> FALSE, peer_ip |-> FALSE, name |-> NoName]

Alloc(d, b) == [heap EXCEPT ![d][b] = @ + 1]
NextFd == Min(Fds \ fdopen)

(***************************************************************************)
(* Branch 1: stat(name) says socket. socket(AF_UNIX), connect, negotiate; *)
(* a failed connect returns -1 with the socket still open.               *)
(***************************************************************************)
OpenSockPath(d, n) ==
    /\ n \in SockPaths
    /\ UNCHANGED <<passed_fds, heap>>
    /\ \/ /\ fdopen = Fds                         \* socket() fails
          /\ prv' = [prv EXCEPT ![d] = Zeroed]
          /\ UNCHANGED <<fdopen, conn>>
       \/ /\ fdopen # Fds
          /\ LET fd == NextFd IN
             \/ /\ fdopen' = fdopen \cup {fd}       \* connect fails
                /\ conn' = [conn EXCEPT ![fd] = [name |-> n, st |-> "none"]]
                /\ prv' = [prv EXCEPT ![d] = [Zeroed EXCEPT !.socket = fd]]
             \/ /\ fdopen' = fdopen                  \* negotiate fails, closes
                /\ conn' = [conn EXCEPT ![fd] = [name |-> n, st |-> "none"]]
                /\ prv' = [prv EXCEPT ![d] = [Zeroed EXCEPT !.socket = fd]]
             \/ /\ fdopen' = fdopen \cup {fd}       \* negotiated
                /\ conn' = [conn EXCEPT ![fd] = [name |-> n, st |-> "session"]]
                /\ prv' = [prv EXCEPT ![d] = [Zeroed EXCEPT !.socket = fd, !.open = TRUE]]

(***************************************************************************)
(* Branch 2: sscanf finds host:port. peer_ip = strdup, name = NULL, then  *)
(* tdnbd_connect_import_session: socket, malloc remote, inet_pton,       *)
(* connect, negotiate. Its error paths close the socket and free remote, *)
(* except that a failed connect leaves prv->remote pointing at the freed *)
(* block; none frees peer_ip.                                            *)
(***************************************************************************)
\* prv after sscanf found host:port: peer_ip = strdup(host), name = NULL.
HostPortPrvNamed(n) == [Zeroed EXCEPT !.peer_ip = TRUE, !.name = n]

HostPortPrv(n) == [Zeroed EXCEPT !.peer_ip = TRUE]

tdnbd_connect_import_session(d, n) ==
    LET P  == HostPortPrv(n)
        H  == Alloc(d, "peer_ip")
        HR == [H EXCEPT ![d]["remote"] = @ + 1]
        fd == NextFd
    IN
    /\ UNCHANGED passed_fds
    /\ \/ /\ fdopen = Fds                          \* socket() fails
          /\ prv' = [prv EXCEPT ![d] = P]
          /\ heap' = H
          /\ UNCHANGED <<fdopen, conn>>
       \/ /\ fdopen # Fds
          /\ n \in BadHosts                        \* inet_pton == 0: free, NULL, close
          /\ prv' = [prv EXCEPT ![d] = P]
          /\ heap' = H
          /\ UNCHANGED <<fdopen, conn>>
       \/ /\ fdopen # Fds
          /\ n \notin BadHosts                     \* connect fails: free, close
          /\ prv' = [prv EXCEPT ![d] = [P EXCEPT !.remote = TRUE]]
          /\ heap' = H
          /\ UNCHANGED <<fdopen, conn>>
       \/ /\ fdopen # Fds
          /\ n \notin BadHosts                     \* negotiate fails, closes
          /\ prv' = [prv EXCEPT ![d] = [P EXCEPT !.remote = TRUE, !.socket = fd]]
          /\ heap' = HR
          /\ conn' = [conn EXCEPT ![fd] = [name |-> n, st |-> "none"]]
          /\ UNCHANGED fdopen
       \/ /\ fdopen # Fds
          /\ n \notin BadHosts                     \* negotiated
          /\ prv' = [prv EXCEPT ![d] = [P EXCEPT !.remote = TRUE, !.socket = fd,
                                                     !.open = TRUE]]
          /\ heap' = HR
          /\ fdopen' = fdopen \cup {fd}
          /\ conn' = [conn EXCEPT ![fd] = [name |-> n, st |-> "session"]]

OpenHostPort(d, n) == n \in HostPorts /\ tdnbd_connect_import_session(d, n)

(***************************************************************************)
(* Branch 3: any other name. Retrieve the passed fd (none: return -1, no *)
(* state change), name = strdup(name), negotiate on it.                  *)
(***************************************************************************)
OpenStash(d, n) ==
    LET r == S!tdnbd_retrieve_passed_fd(n) IN
    /\ n \in StashNames
    /\ r.fd # NoFd
    /\ passed_fds' = r.slots
    /\ heap' = Alloc(d, "name")
    /\ \E res \in S!tdnbd_nbd_negotiate(r.fd) :
          /\ fdopen' = res.open
          /\ conn' = IF res.ok THEN [conn EXCEPT ![r.fd].st = "session"] ELSE conn
          /\ prv' = [prv EXCEPT ![d] = [Zeroed EXCEPT !.socket = r.fd, !.name = n,
                                                      !.open = res.ok]]

tdnbd_open(d, n) ==
    /\ ~prv[d].open
    /\ opens[d] < MaxOpens
    /\ opens' = [opens EXCEPT ![d] = @ + 1]
    /\ OpenSockPath(d, n) \/ OpenHostPort(d, n) \/ OpenStash(d, n)

\* The engine disables the connection (tdnbd_disable sets closed = 3).
EngineDisable(d) ==
    /\ prv[d].open /\ ~prv[d].closed3
    /\ prv' = [prv EXCEPT ![d].closed3 = TRUE]
    /\ UNCHANGED <<passed_fds, fdopen, conn, heap, opens>>

(***************************************************************************)
(* tdnbd_close. closed == 3: close the socket and return. Otherwise queue *)
(* DISC, free peer_ip, then park the socket in the stash under prv->name *)
(* and free the name, or close the socket when there is no name. The     *)
(* DISC is refused with EBUSY when every slot is in flight (the engine,   *)
(* abstracted here, decides which); the code ignores that, sends nothing  *)
(* and goes on, so the session stays live.                                *)
(***************************************************************************)
CloseDead(d) ==
    /\ prv[d].open /\ prv[d].closed3
    /\ fdopen' = fdopen \ {prv[d].socket}
    /\ prv' = [prv EXCEPT ![d].open = FALSE, ![d].socket = NoFd]
    /\ UNCHANGED <<passed_fds, conn, heap, opens>>

CloseLive(d) ==
    LET s == prv[d].socket
        r == S!tdnbd_stash_passed_fd(s, prv[d].name, fdopen)
        h == IF prv[d].peer_ip THEN [heap EXCEPT ![d]["peer_ip"] = @ - 1] ELSE heap
    IN
    /\ prv[d].open /\ ~prv[d].closed3
    /\ \E queued \in BOOLEAN :
          conn' = IF queued THEN [conn EXCEPT ![s].st = IF @ = "session" THEN "disc" ELSE @]
                  ELSE conn
    /\ IF prv[d].name # NoName
       THEN /\ passed_fds' = r.slots /\ fdopen' = r.open
            /\ heap' = [h EXCEPT ![d]["name"] = @ - 1]
       ELSE /\ fdopen' = fdopen \ {s} /\ heap' = h
            /\ UNCHANGED passed_fds
    /\ prv' = [prv EXCEPT ![d].open = FALSE, ![d].peer_ip = FALSE]
    /\ UNCHANGED opens

tdnbd_close(d) == CloseDead(d) \/ CloseLive(d)

FdPassed(n) == UNCHANGED <<prv, heap, opens>> /\ S!FdPassed(n)

ServerHangup(f) ==
    /\ f \in fdopen /\ conn[f].st \in {"fresh", "session"}
    /\ conn' = [conn EXCEPT ![f].st = "hungup"]
    /\ UNCHANGED <<passed_fds, fdopen, prv, heap, opens>>

Init ==
    /\ passed_fds = [i \in 1..NPassedFds |-> [id |-> NoName, fd |-> NoFd]]
    /\ fdopen = {}
    /\ conn = [f \in Fds |-> [name |-> NoName, st |-> "none"]]
    /\ prv = [d \in Drivers |-> Zeroed]
    /\ heap = [d \in Drivers |-> [b \in Blocks |-> 0]]
    /\ opens = [d \in Drivers |-> 0]

Next ==
    \/ \E d \in Drivers, n \in Names : tdnbd_open(d, n)
    \/ \E d \in Drivers : EngineDisable(d) \/ tdnbd_close(d)
    \/ \E n \in StashNames : FdPassed(n)
    \/ \E f \in Fds : ServerHangup(f)

Spec == Init /\ [][Next]_vars

-----------------------------------------------------------------------------
OpenSockets == {prv[d].socket : d \in {e \in Drivers : prv[e].open}}

TypeOK ==
    /\ passed_fds \in [1..NPassedFds -> [id : StashNames \cup {NoName}, fd : Fds \cup {NoFd}]]
    /\ fdopen \subseteq Fds
    /\ conn \in [Fds -> [name : Names \cup {NoName}, st : S!ConnStates]]
    /\ prv \in [Drivers -> [open : BOOLEAN, closed3 : BOOLEAN, socket : Fds \cup {NoFd},
                            remote : BOOLEAN, peer_ip : BOOLEAN,
                            name : StashNames \cup {NoName}]]
    /\ heap \in [Drivers -> [Blocks -> 0..MaxOpens]]
    /\ opens \in [Drivers -> 0..MaxOpens]

(***************************************************************************)
(* Open and close release what they take: every open fd is in the stash *)
(* or is an open driver's socket, whichever way open failed, and a       *)
(* driver holds at most one block of each kind (remote, peer_ip, name)   *)
(* while open and none once closed or after a failed open.               *)
(***************************************************************************)
NoResourceLeak ==
    /\ fdopen \subseteq S!InStash \cup OpenSockets
    /\ \A d \in Drivers, b \in Blocks :
          heap[d][b] <= (IF prv[d].open THEN 1 ELSE 0)

=============================================================================
