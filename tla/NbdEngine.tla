----------------------------- MODULE NbdEngine -----------------------------
(***************************************************************************)
(* The NBD client request engine of the tapdisk "nbd" driver               *)
(* (src/drivers/tapdisk2.c, the block-nbd part): a fixed pool of request   *)
(* slots moved between the free, pending and sent lists, the writer and    *)
(* reader callbacks the tapdisk scheduler runs on one thread, the          *)
(* connection-wide disable, and the driver's queue_read, queue_write and   *)
(* close entry points.  The model starts in the state tdnbd_open leaves    *)
(* after a successful handshake.                                           *)
(*                                                                         *)
(* The environment is the non-blocking stream socket and the NBD server    *)
(* behind it.  Bytes are abstracted to units: a request header is HdrLen   *)
(* units, a one-sector body BodyLen units, a reply header ReplyHdrLen      *)
(* units.  The kernel send buffer holds TxCap units, so send() takes part  *)
(* of a request and then fails with EAGAIN.  The server reads requests in  *)
(* order, answers them in any order, may answer with an error, and may     *)
(* close the connection at any time; it closes it after NBD_CMD_DISC.      *)
(*                                                                         *)
(* Each callback runs to completion before another starts (the scheduler  *)
(* is single threaded), so each is one atomic step.                        *)
(***************************************************************************)
EXTENDS Integers, Sequences, SequencesExt, FiniteSets

CONSTANTS
    MaxReqs,        \* MAX_NBD_REQS (TAPDISK_DATA_REQUESTS): slots per connection
    NReqs,          \* number of distinct upstream requests td_request_t
    HdrLen,         \* units in a struct nbd_request header
    BodyLen,        \* units in the body of a one-sector read or write
    ReplyHdrLen,    \* units in a struct nbd_reply header
    TxCap,          \* units the kernel send buffer accepts before EAGAIN
    IdInit,         \* values global_id may have when the connection opens
    CloseWhenIdle   \* TRUE: the block layer closes only with no request outstanding

ASSUME /\ MaxReqs \in Nat \ {0}
       /\ NReqs \in Nat \ {0}
       /\ {HdrLen, BodyLen, ReplyHdrLen, TxCap} \subseteq Nat \ {0}
       /\ CloseWhenIdle \in BOOLEAN

(* 32-bit int, as global_id is declared. *)
IntMax == 2147483647
IntMin == -IntMax - 1
ASSUME IdInit \subseteq IntMin..IntMax

Slots  == 1..MaxReqs
Reqs   == 1..NReqs
NoReq  == 0                     \* the zeroed td_request_t tdnbd_close sends DISC with
ReqIds == Reqs \cup {NoReq}
Types  == {"READ", "WRITE", "DISC"}
NoHandle == -1                  \* the all-zero handle bytes left by memset in tdnbd_open
Status == {"none", "OK", "EIO", "ETIMEDOUT", "FWD"}

VARIABLES
    requests,        \* prv->requests[]: the request slots
    free_reqs,       \* prv->free_reqs   (list order kept: list_add adds at the head)
    pending_reqs,    \* prv->pending_reqs
    sent_reqs,       \* prv->sent_reqs
    nr_free_count,   \* prv->nr_free_count
    writer_event_id, \* prv->writer_event_id: -1 or the id returned by register_event
    registered,      \* the scheduler's registered events of this connection
    cur_reply,       \* the reply-header units read so far (cur_reply_qio.so_far = Len)
    curr_reply_req,  \* prv->curr_reply_req: a slot, or 0 for NULL
    closed,          \* prv->closed: 0 live, 2 DISC sent, 3 dead
    secondary,       \* prv->flags & TD_OPEN_SECONDARY
    global_id,       \* the process-wide handle counter
    phase,           \* the driver: "open", "closing" (tdnbd_close flushing DISC), "closed"
    tx,              \* units in the kernel send buffer, not yet read by the server
    rx,              \* units the server has sent and the client has not read
    peer,            \* "up" or "closed": the server has shut the connection
    srv_queue,       \* requests the server has read and not answered
    issued,          \* upstream requests handed to queue_read / queue_write
    ncompl,          \* number of td_complete_request calls per request
    result,          \* the status of the last td_complete_request per request
    answer,          \* the requests whose reply bytes filled a completed request
    wire,            \* history: every unit ever written to the socket
    enq_log          \* history: every request queued, in queue order

engine   == <<requests, free_reqs, pending_reqs, sent_reqs, nr_free_count,
              writer_event_id, cur_reply, curr_reply_req, closed, global_id>>
env      == <<tx, rx, peer, srv_queue>>
upstream == <<issued, ncompl, result, answer>>
vars     == <<engine, registered, secondary, phase, env, upstream, wire, enq_log>>

-----------------------------------------------------------------------------
(* The handle string.  snprintf(handle, 8, "td%05x", id % 0xffff) prints  *)
(* the C remainder (truncated towards zero) as an unsigned 32-bit hex     *)
(* number of at least 5 digits, and keeps only the first 5 of them.  The  *)
(* handle is represented by the value of those 5 hex digits.  A negative  *)
(* remainder r prints as the 8 digits of 2^32 + r, whose first 5 are      *)
(* 2^20 + floor(r / 2^12).                                                *)
CRem(a, b) == LET m == a % b IN IF a < 0 /\ m # 0 THEN m - b ELSE m

Handle(id) ==
    LET r == CRem(id, 65535) IN
    IF r >= 0 THEN r ELSE 2^20 + (r \div 4096)

(* global_id++: signed overflow at INT_MAX wraps on the build's target.   *)
NextId(id) == IF id = IntMax THEN IntMin ELSE id + 1

(* The units of a request as they go on the wire. *)
ReqUnit(q, kind, k) ==
    [kind |-> kind, i |-> k, req |-> q.treq, type |-> q.type,
     handle |-> q.handle, err |-> 0]

Frame(q) ==
    [k \in 1..HdrLen |-> ReqUnit(q, "H", k)]
    \o (IF q.type = "WRITE" THEN [k \in 1..BodyLen |-> ReqUnit(q, "B", k)] ELSE <<>>)

(* The units of the server's reply to request d with error e; a read     *)
(* that succeeded is followed by its data.                               *)
ReplyFrame(d, e) ==
    [k \in 1..ReplyHdrLen |-> [kind |-> "RH", i |-> k, req |-> d.treq,
                               type |-> d.type, handle |-> d.handle, err |-> e]]
    \o (IF d.type = "READ" /\ e = 0
          THEN [k \in 1..BodyLen |-> [kind |-> "RB", i |-> k, req |-> d.treq,
                                     type |-> d.type, handle |-> d.handle, err |-> 0]]
          ELSE <<>>)

(* Bytes in current_reply that are not one reply header (the stream lost  *)
(* its alignment): their error field or handle makes the reader disable.  *)
Junk == [kind |-> "J", i |-> 0, req |-> NoReq, type |-> "READ",
         handle |-> NoHandle, err |-> 1]

DecodeReply(buf) ==
    IF \A k \in 1..ReplyHdrLen : /\ buf[k].kind = "RH" /\ buf[k].i = k
                                 /\ buf[k].req = buf[1].req
                                 /\ buf[k].handle = buf[1].handle
    THEN buf[1] ELSE Junk

-----------------------------------------------------------------------------
(* td_complete_request(treq, e) for each request of the sequence L of    *)
(* slots, in the slot contents reqs.                                     *)
CompleteAll(L, reqs, e) ==
    LET n(r) == Cardinality({k \in DOMAIN L : reqs[L[k]].treq = r}) IN
    /\ ncompl' = [r \in ReqIds |-> ncompl[r] + n(r)]
    /\ result' = [r \in ReqIds |-> IF n(r) > 0 THEN e ELSE result[r]]

(* Mutants of tdnbd_disable: pending requests not cancelled; closed not *)
(* set; only the writer event unregistered.                              *)
DisableSentOnly(e, sentL, pendL, reqs) ==
    /\ registered' = registered \ {"writer", "reader"}
    /\ CompleteAll(sentL, reqs, e)
    /\ closed' = 3

DisableKeepsLive(e, sentL, pendL, reqs) ==
    /\ registered' = registered \ {"writer", "reader"}
    /\ CompleteAll(sentL \o pendL, reqs, e)
    /\ closed' = closed

DisableKeepsReader(e, sentL, pendL, reqs) ==
    /\ registered' = registered \ {"writer"}
    /\ CompleteAll(sentL \o pendL, reqs, e)
    /\ closed' = 3

(* tdnbd_disable(prv, e) applied to the lists as they are at the call:   *)
(* both events are unregistered (writer_event_id keeps its value), every *)
(* sent and then every pending request is completed with e, and the      *)
(* connection is dead.  The slots stay on their lists.                   *)
tdnbd_disable(e, sentL, pendL, reqs) ==
    /\ registered' = registered \ {"writer", "reader"}
    /\ CompleteAll(sentL \o pendL, reqs, e)
    /\ closed' = 3

-----------------------------------------------------------------------------
(* Mutant: send() assumed to take everything (EAGAIN never seen). *)
WriteSomeAll(w, s, field, kind, len) ==
    LET cur   == w.req[s][field]
        left  == len - cur
        n     == IF peer = "closed" THEN 0 ELSE left
        units == [k \in 1..n |-> ReqUnit(w.req[s], kind, cur + k)]
    IN [w EXCEPT !.req[s][field] = cur + n, !.tx = @ \o units,
                 !.wire = @ \o units, !.rc = IF peer = "closed" /\ left > 0 THEN -1 ELSE 0]

(* The writer loop of tdnbd_writer_cb over a record w of the state it    *)
(* touches.  tdnbd_write_some sends what the send buffer takes; it       *)
(* returns the units left (EAGAIN), 0, or -1 when the peer has closed.   *)
tdnbd_write_some(w, s, field, kind, len) ==
    LET cur   == w.req[s][field]
        left  == len - cur
        n     == IF peer = "closed" THEN 0 ELSE Min({left, TxCap - Len(w.tx)})
        units == [k \in 1..n |-> ReqUnit(w.req[s], kind, cur + k)]
    IN [w EXCEPT !.req[s][field] = cur + n,
                 !.tx   = @ \o units,
                 !.wire = @ \o units,
                 !.rc   = IF left = 0 THEN 0
                          ELSE IF peer = "closed" THEN -1 ELSE left - n]

(* Mutant: the loop also stops on a send error (rc != 0 where the code  *)
(* tests rc > 0), so a request on a dead socket is never retired.        *)
RECURSIVE WriterLoopErrStops(_)
WriterLoopErrStops(w) ==
    IF w.pending = <<>> THEN [w EXCEPT !.done = TRUE] ELSE
    LET s  == Head(w.pending)
        t  == w.req[s].type
        w1 == tdnbd_write_some(w, s, "hdr", "H", HdrLen)
        w2 == IF t = "WRITE" /\ w1.rc <= 0
                THEN tdnbd_write_some(w1, s, "body", "B", BodyLen) ELSE w1
    IN IF w2.rc # 0 THEN [w2 EXCEPT !.done = FALSE]
       ELSE IF t = "DISC"
            THEN WriterLoopErrStops([w2 EXCEPT !.pending = Tail(@), !.free = <<s>> \o @,
                                               !.nr_free = @ + 1, !.closed = 2])
            ELSE WriterLoopErrStops([w2 EXCEPT !.pending = Tail(@), !.sent = <<s>> \o @])

(* list_for_each_entry_safe over pending_reqs: stop when a send is not   *)
(* done (a negative return is not tested, so an error counts as done);   *)
(* a sent DISC goes back to the free list and sets closed = 2, any other *)
(* request is list_move'd to the head of sent_reqs.                      *)
RECURSIVE WriterLoop(_)
WriterLoop(w) ==
    IF w.pending = <<>> THEN [w EXCEPT !.done = TRUE] ELSE
    LET s  == Head(w.pending)
        t  == w.req[s].type
        w1 == tdnbd_write_some(w, s, "hdr", "H", HdrLen)
        w2 == IF t = "WRITE" /\ w1.rc <= 0
                THEN tdnbd_write_some(w1, s, "body", "B", BodyLen) ELSE w1
    IN IF w2.rc > 0 THEN [w2 EXCEPT !.done = FALSE]
       ELSE IF t = "DISC"
            THEN WriterLoop([w2 EXCEPT !.pending = Tail(@), !.free = <<s>> \o @,
                                       !.nr_free = @ + 1, !.closed = 2])
            ELSE WriterLoop([w2 EXCEPT !.pending = Tail(@), !.sent = <<s>> \o @])

WriterState ==
    [pending |-> pending_reqs, sent |-> sent_reqs, free |-> free_reqs,
     nr_free |-> nr_free_count, closed |-> closed, req |-> requests,
     tx |-> tx, wire |-> wire, rc |-> 0, done |-> FALSE]

(* Mutant: the event id is reset but the event stays registered. *)
DisableWriteQueueLeaks ==
    /\ writer_event_id' = -1
    /\ UNCHANGED registered

(* disable_write_queue: unregister the writer if it is registered. *)
disable_write_queue ==
    /\ writer_event_id' = -1
    /\ registered' = registered \ {"writer"}

(* The whole of tdnbd_writer_cb: the loop, then, if it ran out of        *)
(* pending requests, disable_write_queue and, after a DISC, disable.     *)
tdnbd_writer_cb_body ==
    LET w == WriterLoop(WriterState) IN
    /\ pending_reqs' = w.pending /\ sent_reqs' = w.sent
    /\ free_reqs' = w.free /\ nr_free_count' = w.nr_free
    /\ requests' = w.req /\ tx' = w.tx /\ wire' = w.wire
    /\ IF ~w.done
         THEN /\ closed' = w.closed
              /\ UNCHANGED <<registered, writer_event_id, ncompl, result>>
       ELSE IF w.closed = 2
         THEN /\ writer_event_id' = -1
              /\ tdnbd_disable("EIO", w.sent, w.pending, w.req)
       ELSE /\ disable_write_queue
            /\ closed' = w.closed
            /\ UNCHANGED <<ncompl, result>>
    /\ UNCHANGED <<cur_reply, curr_reply_req, global_id, secondary, rx, peer,
                   srv_queue, issued, answer, enq_log>>

Writable == Len(tx) < TxCap \/ peer = "closed"

-----------------------------------------------------------------------------
(* tdnbd_queue_request(prv, type, ..., treq): EBUSY when no slot is free  *)
(* (the callers ignore it), ETIMEDOUT completion on a dead connection,    *)
(* otherwise the head of free_reqs is filled with a fresh handle, moved   *)
(* to the tail of pending_reqs, and the writer is registered.             *)
QueueBusy ==
    /\ nr_free_count = 0
    /\ UNCHANGED <<engine, registered, ncompl, result, enq_log>>

(* Mutant: a dead connection fails a new request with EIO, as disable   *)
(* does, instead of ETIMEDOUT.                                            *)
QueueDeadEIO(r) ==
    /\ nr_free_count # 0
    /\ closed = 3
    /\ ncompl' = [ncompl EXCEPT ![r] = @ + 1]
    /\ result' = [result EXCEPT ![r] = "EIO"]
    /\ UNCHANGED <<engine, registered, enq_log>>

QueueDead(r) ==
    /\ nr_free_count # 0
    /\ closed = 3
    /\ ncompl' = [ncompl EXCEPT ![r] = @ + 1]
    /\ result' = [result EXCEPT ![r] = "ETIMEDOUT"]
    /\ UNCHANGED <<engine, registered, enq_log>>

(* Mutant: list_move instead of list_move_tail (queued at the head). *)
EnqueueAtHead(t, r) ==
    LET s == Head(free_reqs)
        h == Handle(global_id)
    IN
    /\ nr_free_count # 0
    /\ closed # 3
    /\ requests' = [requests EXCEPT ![s] = [treq |-> r, type |-> t, handle |-> h,
                                            hdr |-> 0, body |-> 0, data |-> {}]]
    /\ global_id' = NextId(global_id)
    /\ free_reqs' = Tail(free_reqs)
    /\ pending_reqs' = <<s>> \o pending_reqs
    /\ nr_free_count' = nr_free_count - 1
    /\ IF writer_event_id < 0
         THEN /\ writer_event_id' = 1
              /\ registered' = registered \cup {"writer"}
         ELSE UNCHANGED <<writer_event_id, registered>>
    /\ enq_log' = Append(enq_log, [treq |-> r, type |-> t, handle |-> h])
    /\ UNCHANGED <<sent_reqs, cur_reply, curr_reply_req, closed, ncompl, result>>

Enqueue(t, r) ==
    LET s == Head(free_reqs)
        h == Handle(global_id)
    IN
    /\ nr_free_count # 0
    /\ closed # 3
    /\ requests' = [requests EXCEPT ![s] = [treq |-> r, type |-> t, handle |-> h,
                                            hdr |-> 0, body |-> 0, data |-> {}]]
    /\ global_id' = NextId(global_id)
    /\ free_reqs' = Tail(free_reqs)
    /\ pending_reqs' = Append(pending_reqs, s)
    /\ nr_free_count' = nr_free_count - 1
    /\ IF writer_event_id < 0                        \* enable_write_queue
         THEN /\ writer_event_id' = 1
              /\ registered' = registered \cup {"writer"}
         ELSE UNCHANGED <<writer_event_id, registered>>
    /\ enq_log' = Append(enq_log, [treq |-> r, type |-> t, handle |-> h])
    /\ UNCHANGED <<sent_reqs, cur_reply, curr_reply_req, closed, ncompl, result>>

tdnbd_queue_request(t, r) == QueueBusy \/ QueueDead(r) \/ Enqueue(t, r)

(* The requests the block layer has handed over and not seen completed.   *)
Outstanding == {r \in issued : ncompl[r] = 0}

(* The block layer submits a new request while the driver is open and    *)
(* fewer than MAX_NBD_REQS of its requests are outstanding.              *)
Submit(r) ==
    /\ phase = "open"
    /\ r \in Reqs \ issued
    /\ Cardinality(Outstanding) < MaxReqs
    /\ issued' = issued \cup {r}

(* tdnbd_queue_read: forwarded in secondary mode, else an NBD_CMD_READ.   *)
tdnbd_queue_read(r) ==
    /\ Submit(r)
    /\ \/ /\ secondary
          /\ ncompl' = [ncompl EXCEPT ![r] = @ + 1]
          /\ result' = [result EXCEPT ![r] = "FWD"]
          /\ UNCHANGED <<engine, registered, enq_log>>
       \/ /\ ~secondary
          /\ tdnbd_queue_request("READ", r)
    /\ UNCHANGED <<secondary, phase, env, answer, wire>>

tdnbd_queue_write(r) ==
    /\ Submit(r)
    /\ tdnbd_queue_request("WRITE", r)
    /\ UNCHANGED <<secondary, phase, env, answer, wire>>

-----------------------------------------------------------------------------
(* Mutant: end of stream taken for "need more data". *)
ReadSomeNoEof(st, cur, len) ==
    LET left == len - cur
        got  == Min({left, Len(st)})
    IN [got |-> got, rest |-> SubSeq(st, got + 1, Len(st)), rc |-> left - got]

(* tdnbd_read_some on the stream st for a buffer at cursor cur of length  *)
(* len: the units taken, and the return (units left on EAGAIN, 0 when     *)
(* complete, -1 when recv returns 0 at end of stream).                    *)
ReadSome(st, cur, len) ==
    LET left == len - cur
        got  == Min({left, Len(st)})
    IN [got  |-> got,
        rest |-> SubSeq(st, got + 1, Len(st)),
        rc   |-> IF got = left THEN 0
                 ELSE IF peer = "closed" THEN -1 ELSE left - got]

(* Mutant: replies assumed to come in order (head of sent_reqs). *)
FindSentHead(h) == IF sent_reqs = <<>> THEN 0 ELSE Head(sent_reqs)

(* The first slot on sent_reqs whose handle equals h, or 0. *)
FindSent(h) ==
    LET k == SelectInSeq(sent_reqs, LAMBDA s : requests[s].handle = h)
    IN IF k = 0 THEN 0 ELSE sent_reqs[k]

(* The reply header part of tdnbd_reader_cb, shared by its outcomes. *)
HdrRead   == ReadSome(rx, Len(cur_reply), ReplyHdrLen)
HdrBuf    == cur_reply \o SubSeq(rx, 1, HdrRead.got)
Reply     == DecodeReply(HdrBuf)
Matched   == IF curr_reply_req # 0 THEN curr_reply_req ELSE FindSent(Reply.handle)
BodyRead  == ReadSome(HdrRead.rest, requests[Matched].body, BodyLen)

ReaderReady ==
    /\ phase = "open"
    /\ "reader" \in registered
    /\ rx # <<>> \/ peer = "closed"

ReaderDisable(st) ==
    /\ tdnbd_disable("EIO", sent_reqs, pending_reqs, requests)
    /\ rx' = st
    /\ UNCHANGED <<requests, free_reqs, pending_reqs, sent_reqs, nr_free_count,
                   writer_event_id, curr_reply_req, global_id, answer>>

(* recv failed or hit end of stream inside the reply header. *)
ReaderHdrError ==
    /\ HdrRead.rc < 0
    /\ cur_reply' = HdrBuf
    /\ ReaderDisable(HdrRead.rest)

(* Part of a reply header: keep it in current_reply and return. *)
ReaderHdrPartial ==
    /\ HdrRead.rc > 0
    /\ cur_reply' = HdrBuf
    /\ rx' = HdrRead.rest
    /\ UNCHANGED <<requests, free_reqs, pending_reqs, sent_reqs, nr_free_count,
                   writer_event_id, registered, curr_reply_req, closed, global_id,
                   ncompl, result, answer>>

(* A whole header with a non-zero error, or with a handle no sent request *)
(* has: disable with EIO.                                                 *)
ReaderBadReply ==
    /\ HdrRead.rc = 0
    /\ Reply.err # 0 \/ Matched = 0
    /\ cur_reply' = HdrBuf
    /\ ReaderDisable(HdrRead.rest)

(* Mutant: the slot is recycled without nr_free_count++. *)
ReaderFinishNoCount(m, data, st) ==
    /\ ncompl' = [ncompl EXCEPT ![requests[m].treq] = @ + 1]
    /\ result' = [result EXCEPT ![requests[m].treq] = "OK"]
    /\ answer' = [answer EXCEPT ![requests[m].treq] = data]
    /\ requests' = [requests EXCEPT ![m].data = data]
    /\ sent_reqs' = Remove(sent_reqs, m)
    /\ free_reqs' = <<m>> \o free_reqs
    /\ nr_free_count' = nr_free_count
    /\ cur_reply' = <<>>
    /\ curr_reply_req' = 0
    /\ rx' = st
    /\ UNCHANGED <<pending_reqs, writer_event_id, registered, closed, global_id>>

(* The reply is matched: read the data of a read, then complete the       *)
(* request, put its slot at the head of free_reqs and reset the reply     *)
(* state.  The "default:" arm is unreachable: no DISC is ever on          *)
(* sent_reqs.                                                             *)
ReaderFinish(m, data, st) ==
    /\ ncompl' = [ncompl EXCEPT ![requests[m].treq] = @ + 1]
    /\ result' = [result EXCEPT ![requests[m].treq] = "OK"]
    /\ answer' = [answer EXCEPT ![requests[m].treq] = data]
    /\ requests' = [requests EXCEPT ![m].data = data]
    /\ sent_reqs' = Remove(sent_reqs, m)
    /\ free_reqs' = <<m>> \o free_reqs
    /\ nr_free_count' = nr_free_count + 1
    /\ cur_reply' = <<>>
    /\ curr_reply_req' = 0
    /\ rx' = st
    /\ UNCHANGED <<pending_reqs, writer_event_id, registered, closed, global_id>>

ReaderGood == HdrRead.rc = 0 /\ Reply.err = 0 /\ Matched # 0

ReaderWriteDone ==
    /\ ReaderGood
    /\ requests[Matched].type = "WRITE"
    /\ ReaderFinish(Matched, {Reply.req}, HdrRead.rest)

ReaderReadBody ==
    LET m    == Matched
        got  == SubSeq(HdrRead.rest, 1, BodyRead.got)
        data == requests[m].data \cup {u.req : u \in ToSet(got)} \cup {Reply.req}
    IN
    /\ ReaderGood
    /\ requests[m].type = "READ"
    /\ \/ /\ BodyRead.rc < 0
          /\ cur_reply' = HdrBuf
          /\ ReaderDisable(BodyRead.rest)
       \/ /\ BodyRead.rc > 0
          /\ requests' = [requests EXCEPT ![m].body = @ + BodyRead.got, ![m].data = data]
          /\ cur_reply' = HdrBuf
          /\ curr_reply_req' = m
          /\ rx' = BodyRead.rest
          /\ UNCHANGED <<free_reqs, pending_reqs, sent_reqs, nr_free_count,
                         writer_event_id, registered, closed, global_id,
                         ncompl, result, answer>>
       \/ /\ BodyRead.rc = 0
          /\ ReaderFinish(m, data, BodyRead.rest)

tdnbd_reader_cb ==
    /\ ReaderReady
    /\ \/ ReaderHdrError \/ ReaderHdrPartial \/ ReaderBadReply
       \/ ReaderWriteDone \/ ReaderReadBody
    /\ UNCHANGED <<secondary, phase, tx, peer, srv_queue, issued, wire, enq_log>>

(* The scheduler runs the writer callback when the socket is writable. *)
tdnbd_writer_cb ==
    /\ phase = "open"
    /\ "writer" \in registered
    /\ Writable
    /\ tdnbd_writer_cb_body
    /\ UNCHANGED <<phase>>

-----------------------------------------------------------------------------
(* tdnbd_close.  On a dead connection it only closes the socket.          *)
(* Otherwise it queues NBD_CMD_DISC with a zeroed request, switches the   *)
(* socket to blocking mode and runs the writer callback itself.           *)
CloseDead ==
    /\ closed = 3
    /\ phase' = "closed"
    /\ UNCHANGED <<engine, registered, ncompl, result, enq_log>>

CloseLive ==
    /\ closed # 3
    /\ tdnbd_queue_request("DISC", NoReq)
    /\ phase' = "closing"

tdnbd_close ==
    /\ phase = "open"
    /\ CloseWhenIdle => Outstanding = {}
    /\ CloseDead \/ CloseLive
    /\ UNCHANGED <<secondary, env, issued, answer, wire>>

(* The synchronous tdnbd_writer_cb of tdnbd_close on the blocking socket: *)
(* a send that cannot go on waits for the server to drain the buffer; the *)
(* close returns once the loop has run out of pending requests.           *)
CloseFlush ==
    /\ phase = "closing"
    /\ Writable \/ pending_reqs = <<>>
    /\ tdnbd_writer_cb_body
    /\ phase' = IF WriterLoop(WriterState).done THEN "closed" ELSE "closing"

-----------------------------------------------------------------------------
(* The NBD server.  It reads one unit at a time; a request is taken when  *)
(* its last unit is read.  After a DISC it closes the connection.         *)
LastUnit(u) ==
    \/ u.kind = "H" /\ u.i = HdrLen /\ u.type # "WRITE"
    \/ u.kind = "B" /\ u.i = BodyLen

ServerRecv ==
    LET u == Head(tx) IN
    /\ peer = "up"
    /\ tx # <<>>
    /\ IF LastUnit(u) /\ u.type = "DISC"
         THEN /\ peer' = "closed" /\ tx' = <<>> /\ srv_queue' = {}
         ELSE /\ tx' = Tail(tx)
              /\ srv_queue' = IF LastUnit(u)
                                THEN srv_queue \cup {[treq |-> u.req, type |-> u.type,
                                                      handle |-> u.handle]}
                                ELSE srv_queue
              /\ UNCHANGED peer
    /\ UNCHANGED <<rx>>

ServerReply ==
    /\ peer = "up"
    /\ \E d \in srv_queue :
         /\ srv_queue' = srv_queue \ {d}
         /\ rx' = rx \o ReplyFrame(d, 0)
    /\ UNCHANGED <<tx, peer>>

ServerErrorReply ==
    /\ peer = "up"
    /\ \E d \in srv_queue :
         /\ srv_queue' = srv_queue \ {d}
         /\ rx' = rx \o ReplyFrame(d, 1)
    /\ UNCHANGED <<tx, peer>>

(* The server shuts the connection; unread request bytes are lost. *)
ServerClose ==
    /\ peer = "up"
    /\ peer' = "closed" /\ tx' = <<>> /\ srv_queue' = {}
    /\ UNCHANGED rx

Server ==
    /\ ServerRecv \/ ServerReply \/ ServerErrorReply \/ ServerClose
    /\ UNCHANGED <<engine, registered, secondary, phase, upstream, wire, enq_log>>

-----------------------------------------------------------------------------
(* The state tdnbd_open leaves: every slot on free_reqs (list_add puts    *)
(* the last at the head), the reader registered, closed = 0.              *)
Init ==
    /\ requests = [s \in Slots |-> [treq |-> NoReq, type |-> "READ", handle |-> NoHandle,
                                    hdr |-> 0, body |-> 0, data |-> {}]]
    /\ free_reqs = [k \in 1..MaxReqs |-> MaxReqs + 1 - k]
    /\ pending_reqs = <<>>
    /\ sent_reqs = <<>>
    /\ nr_free_count = MaxReqs
    /\ writer_event_id = -1
    /\ registered = {"reader"}
    /\ cur_reply = <<>>
    /\ curr_reply_req = 0
    /\ closed = 0
    /\ secondary \in BOOLEAN
    /\ global_id \in IdInit
    /\ phase = "open"
    /\ tx = <<>> /\ rx = <<>> /\ peer = "up" /\ srv_queue = {}
    /\ issued = {}
    /\ ncompl = [r \in ReqIds |-> 0]
    /\ result = [r \in ReqIds |-> "none"]
    /\ answer = [r \in ReqIds |-> {}]
    /\ wire = <<>>
    /\ enq_log = <<>>

(* After tdnbd_close returns the driver is gone and nothing happens. *)
Terminated ==
    /\ phase = "closed"
    /\ UNCHANGED vars

Next ==
    \/ \E r \in Reqs : tdnbd_queue_read(r) \/ tdnbd_queue_write(r)
    \/ tdnbd_writer_cb
    \/ tdnbd_reader_cb
    \/ tdnbd_close
    \/ CloseFlush
    \/ Server
    \/ Terminated

Spec == Init /\ [][Next]_vars

-----------------------------------------------------------------------------
(* Fairness the code justifies: the scheduler runs a registered callback  *)
(* whose descriptor stays ready, the synchronous flush of tdnbd_close      *)
(* goes on while it can, and the server reads and answers what it got.    *)
(* The block layer, error replies and the server closing are not fair.    *)
Fairness ==
    /\ WF_vars(tdnbd_reader_cb)
    /\ WF_vars(tdnbd_writer_cb)
    /\ WF_vars(CloseFlush)
    /\ WF_vars(ServerRecv /\ UNCHANGED <<engine, registered, secondary, phase, upstream, wire, enq_log>>)
    /\ WF_vars(ServerReply /\ UNCHANGED <<engine, registered, secondary, phase, upstream, wire, enq_log>>)

FairSpec == Spec /\ Fairness

-----------------------------------------------------------------------------
(* Properties *)

InFlightSlots == ToSet(pending_reqs) \cup ToSet(sent_reqs)
InFlight == {requests[s].treq : s \in InFlightSlots}

Unit == [kind : {"H", "B", "RH", "RB"}, i : Nat, req : ReqIds, type : Types,
         handle : Int, err : {0, 1}]

TypeOK ==
    /\ requests \in [Slots -> [treq : ReqIds, type : Types, handle : Int,
                               hdr : 0..HdrLen, body : 0..BodyLen, data : SUBSET ReqIds]]
    /\ \A L \in {free_reqs, pending_reqs, sent_reqs} : L \in Seq(Slots)
    /\ nr_free_count \in 0..MaxReqs
    /\ writer_event_id \in {-1, 1}
    /\ registered \subseteq {"reader", "writer"}
    /\ cur_reply \in Seq(Unit) /\ Len(cur_reply) <= ReplyHdrLen
    /\ curr_reply_req \in Slots \cup {0}
    /\ closed \in {0, 2, 3}
    /\ global_id \in IntMin..IntMax
    /\ phase \in {"open", "closing", "closed"}
    /\ tx \in Seq(Unit) /\ Len(tx) <= TxCap
    /\ rx \in Seq(Unit)
    /\ peer \in {"up", "closed"}
    /\ issued \subseteq Reqs
    /\ ncompl \in [ReqIds -> Nat]
    /\ result \in [ReqIds -> Status]

(* Slot accounting (spec section 8): every slot is on exactly one of the *)
(* free, pending and sent lists, and nr_free_count counts the free list,  *)
(* through enqueue, the writer's DISC recycling, the reader's recycling   *)
(* and disable.                                                          *)
SlotAccounting ==
    LET all == free_reqs \o pending_reqs \o sent_reqs IN
    /\ Len(all) = MaxReqs
    /\ ToSet(all) = Slots
    /\ nr_free_count = Len(free_reqs)

(* The bytes tdnbd_writer_cb puts on the socket are the requests' frames  *)
(* whole and in the order tdnbd_queue_request queued them: a request that *)
(* was only partly sent is finished before any byte of the next.          *)
WireInOrder ==
    IsPrefix(wire, FlattenSeq([k \in DOMAIN enq_log |-> Frame(enq_log[k])]))

(* A request the reader completes with success was answered by the       *)
(* server's reply to that very request, header and data: replies matched *)
(* by handle in tdnbd_reader_cb reach the request that asked.            *)
CorrectCompletion ==
    \A r \in Reqs : result[r] = "OK" => answer[r] = {r}

(* Every request is completed at most once, and the zeroed request of    *)
(* the DISC that tdnbd_close queues is never completed.                  *)
CompletedAtMostOnce ==
    /\ \A r \in Reqs : ncompl[r] <= 1
    /\ ncompl[NoReq] = 0

(* Once tdnbd_disable has run, no event of the connection is registered  *)
(* and every request left on the sent and pending lists was completed    *)
(* exactly once, with EIO (spec section 8).                               *)
DisableCompletesAll ==
    closed = 3 =>
        /\ registered = {}
        /\ \A r \in InFlight : ncompl[r] = 1 /\ result[r] = "EIO"

(* While the connection is live and no callback runs, the writer is       *)
(* registered exactly when requests wait on pending_reqs (spec section 3). *)
WriterIffPending ==
    phase = "open" /\ closed = 0 =>
        ("writer" \in registered <=> pending_reqs # <<>>)

(* After tdnbd_close returns, no event of the connection is registered:  *)
(* the scheduler must not call back into the freed driver state.         *)
ClosedReleasesEvents ==
    phase = "closed" => registered = {}

(* A request the block layer handed over is either completed or held in  *)
(* a slot: tdnbd_queue_read and tdnbd_queue_write never drop one.        *)
NoRequestLost ==
    \A r \in issued : ncompl[r] > 0 \/ r \in InFlight

(* Every request accepted into a slot is eventually completed, by its    *)
(* reply or by tdnbd_disable.                                            *)
AcceptedEventuallyCompleted ==
    \A r \in Reqs : (r \in InFlight) ~> (ncompl[r] > 0)

(* The engine implements NbdConnection: the connection is dead once       *)
(* tdnbd_disable has run on an open driver; a request is outstanding      *)
(* while it sits uncompleted in a slot, busy when it was handed over,      *)
(* never completed and holds no slot.                                      *)
ConnState ==
    CASE phase = "open" /\ closed = 3 -> "dead"
      [] phase = "open"               -> "open"
      [] OTHER                        -> phase

Conn == INSTANCE NbdConnection WITH
            state       <- ConnState,
            outstanding <- {r \in issued : ncompl[r] = 0 /\ r \in InFlight},
            busy        <- {r \in issued : ncompl[r] = 0 /\ r \notin InFlight},
            result      <- [r \in Reqs |-> result[r]],
            ncompl      <- [r \in Reqs |-> ncompl[r]]

(* tdnbd_close returns: once the close has queued its DISC and entered   *)
(* the blocking tdnbd_writer_cb flush, the flush runs out of pending     *)
(* requests, whether the server goes on reading or closes the socket (a  *)
(* failed send counts as done).                                           *)
CloseReturns ==
    (phase = "closing") ~> (phase = "closed")

(* Seen from the block layer the engine is the connection of             *)
(* NbdConnection: requests complete once, all fail together with EIO     *)
(* when tdnbd_disable runs, a dead connection fails new ones with        *)
(* ETIMEDOUT, and tdnbd_close returns with nothing outstanding.          *)
RefinesConnection == Conn!Spec


=============================================================================
