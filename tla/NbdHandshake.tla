---------------------------- MODULE NbdHandshake ----------------------------
(***************************************************************************)
(* The blocking NBD handshake of block-nbd (src/drivers/tapdisk2.c):     *)
(* tdnbd_wait_recv, tdnbd_nbd_negotiate and its OLD and NEW branches,    *)
(* negotiate_client_newstyle_options. Each client action is one          *)
(* wait_recv or send of the code together with the checks that follow.  *)
(* The byte stream is modelled by counts: the server has put `sent`      *)
(* bytes of its greeting into the socket, the client has consumed `got`. *)
(* wait_recv returns min(available, len) when bytes are there, 0 when    *)
(* the server has closed, and -ETIMEDOUT when it stays silent. A read    *)
(* that passes its short-read check is aligned on the field it reads,    *)
(* so its value is the server's: only the magic checks depend on kind.   *)
(***************************************************************************)
EXTENDS Naturals, Integers

CONSTANTS
    NameLen         \* sizeof(NBD_FIXED_SINGLE_EXPORT)

\* Field sizes of the code (sizeof of the variables it reads and sends).
MagicLen  == 8
SizeLen   == 8
FlagsLen  == 4
PadLen    == 124
GflagsLen == 2
CflagsLen == 4
OptLen    == 16
FinishLen == 10         \* NO_ZERO_HANDSHAKE_FINISH_SIZE
ETIMEDOUT == -110

\* The peer: an OLD- or NEW-style NBD server, a server with an unknown
\* second magic, or a peer that does not speak NBD at all.
ServerKinds == {"OLD", "NEW", "BADVER", "NOTNBD"}
ClientLen   == CflagsLen + OptLen + NameLen
GreetingLen(k) ==
    IF k = "OLD" THEN 2 * MagicLen + SizeLen + FlagsLen + PadLen
    ELSE 2 * MagicLen + GflagsLen + FinishLen

PCs == {"magic1", "magic2", "old_size", "old_flags", "old_pad", "new_gflags",
        "new_cflags", "new_opt", "new_name", "new_finish", "ok", "fail"}

VARIABLES
    pc,             \* the step of the negotiation the client is at
    padbytes,       \* negotiate_old's padbytes
    got,            \* greeting bytes the client has consumed
    size_src,       \* where driver->info.size came from
    sock_open,      \* the client socket is open
    closes,         \* close(sock) calls made by the handshake
    kind,           \* the peer's kind
    sent,           \* greeting bytes the server has written
    srv_closed,     \* the server has closed its end
    srv_got,        \* bytes of the client's flags and option received
    send_err        \* the socket's send side is shut by the peer's reset

vars == <<pc, padbytes, got, size_src, sock_open, closes, kind, sent,
          srv_closed, srv_got, send_err>>

Avail == sent - got

Least(a, b) == IF a < b THEN a ELSE b

(***************************************************************************)
(* tdnbd_wait_recv(sock, buf, len): select with a 10 s timeout, then one *)
(* recv. The set of values it can return in this state.                  *)
(***************************************************************************)
\* Mutant: a plain blocking recv without the select timeout.
WaitRecvNoTimeout(len) ==
    IF Avail > 0 THEN {Least(Avail, len)}
    ELSE IF srv_closed THEN {0} ELSE {}

tdnbd_wait_recv(len) ==
    IF Avail > 0 THEN {Least(Avail, len)}
    ELSE IF srv_closed THEN {0} ELSE {ETIMEDOUT}

\* send() on the blocking socket: complete while the server is there;
\* after it closed, a send may still succeed until the peer's reset
\* arrives; from the first failure on, every send fails with EPIPE.
SendResults(len) ==
    IF send_err THEN {-1} ELSE IF srv_closed THEN {len, -1} ELSE {len}

SendDone(rc) == send_err' = (send_err \/ rc < 0)

\* send_fully_or_fail (not in this repository): whole buffer or error.
send_fully_or_fail(len) == SendResults(len)

Delivered(rc) == IF rc > 0 /\ ~srv_closed THEN rc ELSE 0

Consume(rc) == got' = got + (IF rc > 0 THEN rc ELSE 0)

(***************************************************************************)
(* The errout labels: close(sock) and return -1. One per function, as in *)
(* the code; each failure path runs exactly one of them.                 *)
(***************************************************************************)
NegotiateErrout ==
    /\ pc' = "fail" /\ sock_open' = FALSE /\ closes' = closes + 1
    /\ UNCHANGED <<padbytes, size_src>>

OldErrout == NegotiateErrout

NewErrout == NegotiateErrout

OptionsErroutTwice ==
    /\ pc' = "fail" /\ sock_open' = FALSE /\ closes' = closes + 2
    /\ UNCHANGED <<padbytes, size_src>>

OptionsErrout == NegotiateErrout

Goto(next) == pc' = next /\ UNCHANGED <<padbytes, size_src, sock_open, closes>>

ClientIdle == UNCHANGED <<kind, sent, srv_closed, srv_got, send_err>>

\* Read a field of len bytes and require all of it (rc < 0, rc < len).
ReadField(from, len, onerr, next) ==
    /\ pc = from
    /\ \E rc \in tdnbd_wait_recv(len) :
          /\ Consume(rc)
          /\ IF rc < len THEN onerr ELSE Goto(next)
    /\ ClientIdle

(***************************************************************************)
(* tdnbd_nbd_negotiate: NBDMAGIC, then the second magic selects OLD or   *)
(* NEW; anything else fails.                                             *)
(***************************************************************************)
ReadMagic1 ==
    /\ pc = "magic1"
    /\ \E rc \in tdnbd_wait_recv(MagicLen) :
          /\ Consume(rc)
          /\ IF rc < MagicLen \/ kind = "NOTNBD" THEN NegotiateErrout
             ELSE Goto("magic2")
    /\ ClientIdle

Magic2DefaultNew ==
    /\ pc = "magic2"
    /\ \E rc \in tdnbd_wait_recv(MagicLen) :
          /\ Consume(rc)
          /\ IF rc < MagicLen THEN NegotiateErrout
             ELSE IF kind = "OLD" THEN Goto("old_size")
             ELSE Goto("new_gflags")
    /\ ClientIdle

ReadMagic2 ==
    /\ pc = "magic2"
    /\ \E rc \in tdnbd_wait_recv(MagicLen) :
          /\ Consume(rc)
          /\ IF rc < MagicLen THEN NegotiateErrout
             ELSE IF kind = "OLD" THEN Goto("old_size")
             ELSE IF kind = "NEW" THEN Goto("new_gflags")
             ELSE NegotiateErrout
    /\ ClientIdle

(***************************************************************************)
(* tdnbd_nbd_negotiate_old: size (stored in driver->info at once), flags *)
(* and a loop draining 124 pad bytes that subtracts each recv result,    *)
(* then O_NONBLOCK and success.                                          *)
(***************************************************************************)
OldSize ==
    /\ pc = "old_size"
    /\ \E rc \in tdnbd_wait_recv(SizeLen) :
          /\ Consume(rc)
          /\ IF rc < SizeLen THEN OldErrout
             ELSE /\ pc' = "old_flags" /\ size_src' = "server"
                  /\ UNCHANGED <<padbytes, sock_open, closes>>
    /\ ClientIdle

OldFlags ==
    /\ pc = "old_flags"
    /\ \E rc \in tdnbd_wait_recv(FlagsLen) :
          /\ Consume(rc)
          /\ IF rc < FlagsLen THEN OldErrout
             ELSE /\ pc' = "old_pad" /\ padbytes' = PadLen
                  /\ UNCHANGED <<size_src, sock_open, closes>>
    /\ ClientIdle

PadNoErrorCheck ==
    /\ pc = "old_pad"
    /\ \E rc \in tdnbd_wait_recv(padbytes) :
          /\ Consume(rc)
          /\ padbytes' = padbytes - rc
          /\ pc' = IF padbytes - rc = 0 THEN "ok" ELSE "old_pad"
          /\ UNCHANGED <<size_src, sock_open, closes>>
    /\ ClientIdle

OldPad ==
    /\ pc = "old_pad"
    /\ \E rc \in tdnbd_wait_recv(padbytes) :
          /\ Consume(rc)
          /\ IF rc < 0 THEN OldErrout
             ELSE /\ padbytes' = padbytes - rc
                  /\ pc' = IF padbytes - rc = 0 THEN "ok" ELSE "old_pad"
                  /\ UNCHANGED <<size_src, sock_open, closes>>
    /\ ClientIdle

(***************************************************************************)
(* tdnbd_nbd_negotiate_new: gflags, then send cflags and test            *)
(* rc < sizeof(cflags) -- an int against a size_t, so -1 passes.         *)
(***************************************************************************)
NewGflags == ReadField("new_gflags", GflagsLen, NewErrout, "new_cflags")

NewCflags ==
    /\ pc = "new_cflags"
    /\ \E rc \in SendResults(CflagsLen) :
          /\ srv_got' = srv_got + Delivered(rc) /\ SendDone(rc)
          /\ IF rc >= 0 /\ rc < CflagsLen THEN NewErrout ELSE Goto("new_opt")
    /\ UNCHANGED <<got, kind, sent, srv_closed>>

(***************************************************************************)
(* negotiate_client_newstyle_options: send the EXPORT_NAME option and    *)
(* the name, read the 10-byte reply with only an rc < 0 check, take the  *)
(* export size from it, O_NONBLOCK, success.                             *)
(***************************************************************************)
SendOptionNoCheck(from, len, next) ==
    /\ pc = from
    /\ \E rc \in send_fully_or_fail(len) :
          /\ srv_got' = srv_got + Delivered(rc) /\ SendDone(rc)
          /\ Goto(next)
    /\ UNCHANGED <<got, kind, sent, srv_closed>>

SendOption(from, len, next) ==
    /\ pc = from
    /\ \E rc \in send_fully_or_fail(len) :
          /\ srv_got' = srv_got + Delivered(rc) /\ SendDone(rc)
          /\ IF rc < 0 THEN OptionsErrout ELSE Goto(next)
    /\ UNCHANGED <<got, kind, sent, srv_closed>>

NewOpt  == SendOption("new_opt", OptLen, "new_name")
NewName == SendOption("new_name", NameLen, "new_finish")

NewFinish ==
    /\ pc = "new_finish"
    /\ \E rc \in tdnbd_wait_recv(FinishLen) :
          /\ Consume(rc)
          /\ IF rc < 0 THEN OptionsErrout
             ELSE /\ pc' = "ok"
                  /\ size_src' = IF rc >= SizeLen THEN "server" ELSE "garbage"
                  /\ UNCHANGED <<padbytes, sock_open, closes>>
    /\ ClientIdle

ClientStep ==
    \/ ReadMagic1 \/ ReadMagic2
    \/ OldSize \/ OldFlags \/ OldPad
    \/ NewGflags \/ NewCflags \/ NewOpt \/ NewName \/ NewFinish

(***************************************************************************)
(* The peer writes its greeting in segments of any size; a NEW server    *)
(* sends the export reply only after the client's flags and option; any *)
(* peer may close at any time, or stay silent.                           *)
(***************************************************************************)
SendLimit ==
    CASE kind = "OLD" -> GreetingLen("OLD")
      [] kind = "NEW" -> IF srv_got >= ClientLen THEN GreetingLen("NEW")
                         ELSE 2 * MagicLen + GflagsLen
      [] OTHER        -> GreetingLen(kind)

ServerSend ==
    /\ ~srv_closed
    /\ \E k \in 1..(SendLimit - sent) : sent' = sent + k
    /\ UNCHANGED <<pc, padbytes, got, size_src, sock_open, closes, kind,
                   srv_closed, srv_got, send_err>>

ServerClose ==
    /\ ~srv_closed
    /\ srv_closed' = TRUE
    /\ UNCHANGED <<pc, padbytes, got, size_src, sock_open, closes, kind,
                   sent, srv_got, send_err>>

\* A socket connected to the peer (tdnbd_open / connect_import_session).
Init ==
    /\ pc = "magic1" /\ padbytes = PadLen /\ got = 0 /\ size_src = "none"
    /\ sock_open = TRUE /\ closes = 0
    /\ kind \in ServerKinds /\ sent = 0 /\ srv_closed = FALSE /\ srv_got = 0
    /\ send_err = FALSE

\* tdnbd_open has returned; the handshake takes no further step.
Done == pc \in {"ok", "fail"} /\ UNCHANGED vars

Next == ClientStep \/ ServerSend \/ ServerClose \/ Done

Spec == Init /\ [][Next]_vars

\* The client thread runs whenever it can; the peer may stop at any time.
FairSpec == Spec /\ WF_vars(ClientStep)

-----------------------------------------------------------------------------
TypeOK ==
    /\ pc \in PCs /\ padbytes \in 0..PadLen
    /\ got \in 0..GreetingLen("OLD") /\ sent \in 0..GreetingLen("OLD")
    /\ size_src \in {"none", "server", "garbage"}
    /\ sock_open \in BOOLEAN /\ closes \in 0..1
    /\ kind \in ServerKinds /\ srv_closed \in BOOLEAN /\ srv_got \in Nat
    /\ send_err \in BOOLEAN

(***************************************************************************)
(* Every failed negotiation closes the socket exactly once, and a        *)
(* successful or unfinished one never closes it: the errout labels of    *)
(* the nested negotiate functions must not both run.                     *)
(***************************************************************************)
FailClosesOnce ==
    /\ (pc = "fail") <=> ~sock_open
    /\ closes = IF pc = "fail" THEN 1 ELSE 0

(***************************************************************************)
(* Open succeeds only with an NBD server whose second magic is one the   *)
(* code knows: a peer with another magic is never taken for a server.    *)
(***************************************************************************)
SuccessOnlyFromNbdServer == pc = "ok" => kind \in {"OLD", "NEW"}

(***************************************************************************)
(* A handshake in which a send of the client failed never succeeds. The  *)
(* cflags send is tested as rc < sizeof(cflags), an int against a       *)
(* size_t, so its -1 passes; only the failure of the option sends after  *)
(* it (the peer's reset shuts the send side for good) stops the open.    *)
(***************************************************************************)
FailedSendNeverSucceeds == send_err => pc # "ok"

(***************************************************************************)
(* A successful handshake has consumed exactly the server's greeting and *)
(* took the export size from it (spec 4.3: a short read fails open), so  *)
(* the request engine starts on a frame boundary.                        *)
(***************************************************************************)
SuccessAtGreetingEnd ==
    pc = "ok" => got = GreetingLen(kind) /\ size_src = "server"

(***************************************************************************)
(* Negotiation always ends, in success or failure, whatever the server   *)
(* does: wait_recv's timeout bounds every wait.                          *)
(***************************************************************************)
NegotiationTerminates == <>(pc \in {"ok", "fail"})

(***************************************************************************)
(* The only handshake that never ends is the pad spin: against any peer, *)
(* however it segments, stalls or closes, tdnbd_open returns, unless an  *)
(* OLD server closes during the pad bytes and negotiate_old's loop then  *)
(* subtracts recv's 0 for ever. A silent peer is cut off by the 10 s     *)
(* select of tdnbd_wait_recv.                                            *)
(***************************************************************************)
NegotiationEndsUnlessPadSpin ==
    \/ <>(pc \in {"ok", "fail"})
    \/ <>[](pc = "old_pad" /\ srv_closed)

=============================================================================
