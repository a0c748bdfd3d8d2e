# TLA+ models of blktap's NBD client driver (block-nbd) and tap-ctl destroy

This directory holds TLA+ specifications of the code under `src/`, the TLC
configurations that check them, and `PROJECT.json`, which records:

- every definition's source lines (`map`);
- the runs, mutants, findings and hazards.

## 1. The system

`src/drivers/tapdisk2.c` is a concatenation of two programs:

- **tapdisk2 `main`** (lines 1-118). Start-up glue that opens the control channel, the server and the event loop.
- **block-nbd** (lines 119-1158). The tapdisk disk driver that serves a virtual disk from an NBD server over a non-blocking socket.

`src/unnamed/part_000` is the `tap-ctl destroy` command. It runs close, then detach, then free, and stops at the first error.

block-nbd's parts, and how they interact:

| Part | Code | State | Operations |
|---|---|---|---|
| Request engine | 331-646 | `requests[MAX_NBD_REQS]`; lists `free_reqs`, `pending_reqs`, `sent_reqs`; `nr_free_count`; `closed` (0 open, 1 DISC queued, 2 DISC sent, 3 disabled); `writer_event_id`, `reader_event_id`; partial reply state `current_reply`, `current_reply_sofar`, `curr_reply_req`; counter `global_id` | `tdnbd_queue_request`, `tdnbd_writer_cb`, `tdnbd_reader_cb`, `tdnbd_disable`, `enable/disable_write_queue`, `__cancel_req` |
| Socket transport | 374-437 | socket, kernel buffers | `tdnbd_write_some`, `tdnbd_read_some`: partial progress, EAGAIN, EOF |
| Wire codec | 181-216, 523-538, 571-583 | request header (magic, type, handle, offset, length), reply header (magic, error, handle) | handle string `"td%05x"` of `global_id % 0xffff` |
| Handshake | 654-896 | socket | `tdnbd_wait_recv`, old- and new-style negotiation, export-name options |
| FD stash | 187-304 | `passed_fds[N_PASSED_FDS]` of (name, fd) | `tdnbd_stash_passed_fd` (fd-receiver callback), `tdnbd_retrieve_passed_fd` |
| Driver facade | 898-1158 | `prv`, `secondary`, `flags` | `tdnbd_open` (stash or connect, negotiate, register reader), `tdnbd_close` (DISC, blocking flush, park or close the socket), `tdnbd_queue_read/write`, parent ops |

The tapdisk scheduler is single-threaded. The reader and writer callbacks, the
block layer's `queue_read`/`queue_write` and `close` run one at a time, each
to completion. The concurrency that matters is therefore:

- the interleaving of these handlers;
- the NBD server, which runs independently: it reads at its own pace, replies
  in any order, replies with errors, and closes the connection at any time;
- the kernel send buffer, which fills up and makes sends partial.

## 2. Modules

### `NbdEngine.tla`: the request engine, transport and close path

**State.** The variables are those of `struct tdnbd_data`:

- `requests` (one record per slot: the block request, type, handle, bytes of header and body sent or received);
- `free_reqs`, `pending_reqs` and `sent_reqs`, as sequences, where position 1 is the list head;
- `nr_free_count`, `writer_event_id`, `registered` (the reader and writer events), `cur_reply`, `curr_reply_req`, `closed`, `secondary`, `global_id`.

**Environment.**

- `tx`: units in the kernel send buffer, at most `TxCap`.
- `rx`: units sent by the server and not yet read.
- `peer`: whether the server is open or closed.
- `srv_queue`: requests the server has read and not answered.
- The block layer's view: `issued`, `ncompl`, `result`, `answer`.
- History variables: `wire` (everything the server received) and `enq_log`.

**Data abstraction.** Bytes are abstracted to units. A header is `HdrLen`
units and a body `BodyLen` units, and each unit carries its request's
identity, so wire order and framing are visible. A reply header whose units
come from two frames decodes to `Junk`. Junk models the error or handle of a
misaligned read, and it leads to the reader's disable path.

**Actions.** There is one action per handler:

- `tdnbd_queue_read` (with the `secondary` forwarding disjunct) and `tdnbd_queue_write` call `tdnbd_queue_request`. Its outcomes are `QueueBusy` (EBUSY), `QueueDead` (ETIMEDOUT) and `Enqueue`. `Enqueue` allocates the handle from `global_id` and enables the writer.
- `tdnbd_writer_cb` runs the whole loop over `pending_reqs` as the RECURSIVE `WriterLoop`: header, then body, stopping at EAGAIN; DISC recycling; `disable_write_queue`; disable after DISC.
- `tdnbd_reader_cb` has one disjunct per path of the handler:
  - header error or EOF;
  - partial header;
  - bad reply, which covers an error, an unknown handle and Junk;
  - a write completed;
  - a read body in progress or completed.
- `tdnbd_close` is split in two:
  - `CloseDead` or `CloseLive` runs the code up to the blocking flush;
  - `CloseFlush` runs the flush itself: the blocking-mode writer calls, then disable, then the socket is closed.

  The split exists because the blocking flush waits on the server.
- The server actions are `ServerRecv`, `ServerReply`, `ServerErrorReply` and `ServerClose`.

**Abstract spec.** `NbdConnection.tla` states what the engine promises the
block layer, with no slots, lists or bytes:

- While open, the connection accepts a request or reports busy. Only an open connection reports busy.
- An accepted request completes once, by its reply, while the connection is open or closing.
- When the connection dies, every outstanding request fails with EIO in that same step.
- A dead connection fails new requests at once with ETIMEDOUT.
- Secondary-mode reads are forwarded whatever the state.
- Close goes from open through closing to closed, or from dead straight to closed, and nothing is outstanding once closed.

`NbdEngine` maps onto it through `ConnState`:

- the connection is dead once `closed = 3` on an open driver;
- a request is outstanding while it sits uncompleted in a slot;
- a request is busy when it was handed over, is not completed and holds no slot.

The refinement property is `RefinesConnection == Conn!Spec`. A dead connection that reports EBUSY, as in lost_request, does not implement it, because the code gives the block layer nothing back. engine_liveness has only two requests, so that state is out of its reach. What the run checks is the result each path delivers: EIO for the requests disable fails, ETIMEDOUT for a request that arrives after the connection died, and a reply's status otherwise. The mutant `QueueDeadEIO` fails a late request with EIO and is caught by this property alone.

### `FdStash.tla` and `FdStashSpec.tla`: the FD stash

**State.** `passed_fds` is the `[id, fd]` array. `fdopen` is the set of fd
numbers open in the process, and the kernel gives out the lowest free number,
so numbers are reused. `conn[f]` is the connection a number refers to: its
export name and whether it is fresh (the server will greet), in session
(negotiated), has had DISC sent, or was hung up by the server. `drv` holds,
for each VBD using the driver, whether it is open, `prv->name` and
`prv->socket`. Names stand for their first 39 bytes, which is all that
`strncmp` compares.

**Actions.**

- `FdPassed(n)`: the fd receiver's callback `tdnbd_stash_passed_fd`.
- `tdnbd_open(d, n)`: the stash branch of `tdnbd_open`. It retrieves the fd, then `tdnbd_nbd_negotiate` either succeeds, on a fresh connection only, or fails and closes the socket on any failure path.
- `CloseDead(d)` and `CloseLive(d)`: `tdnbd_close`. The first closes the socket. The second sends DISC and parks the socket back in the stash.
- `ServerHangup(f)`: the server ends a connection.

**Abstract spec.** `FdStashSpec` states the stash of spec section 4.5: a table
of at most `N_PASSED_FDS` names. A stash replaces the entry and closes its old
fd, or takes a free entry, or closes the passed fd when the table is full.
`FdStash` maps onto it with `held[k]` = the fd of the first slot with id `k`,
which is the slot retrieve takes. The refinement property is
`StashRefinement == Abs!Spec`.

### `NbdHandshake.tla`: the blocking handshake

**Stream model.** The greeting is modelled by byte counts:

- `sent`: bytes the peer has written.
- `got`: bytes the client has consumed.
- `srv_got`: bytes of the client's flags and option the peer has received.

**Client.** `pc` is the step of the negotiation the client is at. Each client
action is one `tdnbd_wait_recv` or `send` together with the checks the code
makes after it:

| Function | Actions |
|---|---|
| `tdnbd_nbd_negotiate` | `ReadMagic1`, `ReadMagic2` |
| `tdnbd_nbd_negotiate_old` | `OldSize`, `OldFlags`, `OldPad` |
| `tdnbd_nbd_negotiate_new` | `NewGflags`, `NewCflags` |
| `negotiate_client_newstyle_options` | `NewOpt`, `NewName`, `NewFinish` |

**wait_recv.** `tdnbd_wait_recv` returns:

- `min(available, len)` when bytes are there;
- 0 once the peer has closed;
- `-ETIMEDOUT` when the peer is silent.

A read that passes its short-read check is aligned on its field, so only the
magic checks depend on what the peer is.

**Peer.** The peer is an OLD or NEW server, a server with an unknown second
magic, or a non-NBD peer. It writes in segments of any size. A NEW server
answers the option only after the client's flags and option arrive. Any peer
may close or go silent at any time.

**Failure paths.** Each function's `errout` label has its own definition, so a
double close would show.

**Sends.** After the peer closes, a send may still succeed until the peer's
reset arrives. From the first failure on, every send fails with EPIPE: the
kernel shuts the send side for good. `send_err` records this. The cflags send
at line 837 is tested as `rc < sizeof(cflags)`, an int against a `size_t`, so
its -1 is taken for success. `FailedSendNeverSucceeds` checks that the failure
of the option sends that follow still stops the open, so the bug is masked.

**Fairness.** `FairSpec` adds weak fairness of the client only. The client is
the tapdisk thread blocked in the handshake. The peer owes nothing: a silent
peer is met by the 10 s select timeout. Both handshake runs that check termination use it:
handshake_safety checks that the pad spin is the only way the handshake can
fail to end, and handshake_pad_spin shows that the spin happens.

### `NbdDriver.tla`: open and close over the driver's resources

`NbdDriver` follows a driver slot through repeated `tdnbd_open`/`tdnbd_close` calls. It tracks the fds and heap blocks those calls take. It composes the FD stash through `S == INSTANCE FdStash`: retrieve, stash and the negotiation outcome are FdStash's operators over the shared `passed_fds`, `fdopen` and `conn`.

- State:
  - `prv[d]` holds `open`, `closed3` (`prv->closed == 3`), `socket`, and the pointers `remote`, `peer_ip` and `name`;
  - `heap[d][b]` counts the live blocks of kind `b` that d's opens allocated;
  - `opens[d]` counts opens, bounded by `MaxOpens`.
- `tdnbd_open` is the disjunction of its three branches. Each error return is a disjunct that leaves exactly what the code leaves:
  - `OpenSockPath`: the name is a UNIX socket (`SockPaths`). It covers `socket()` failing, connect failing, negotiation failing, and success.
  - `OpenHostPort` and `tdnbd_connect_import_session`: the name is host:port (`HostPorts`). The steps are `peer_ip` strdup, `socket()`, `malloc` of remote, `inet_pton` (0 for `BadHosts`), `connect`, and negotiate.
  - `OpenStash`: any other name (`StashNames`). It retrieves, strdups the name, and negotiates.
- The handshake itself is `NbdHandshake`. Here it is reduced to its outcome: failure closes the socket, and success is possible only on a fresh connection.
- `CloseLive` chooses whether the DISC is queued, because the engine is abstracted away here. When it is refused with EBUSY because every slot is in flight (line 1084), the code ignores the error, sends nothing and parks or closes the socket anyway. The session then stays live, and a named socket goes into the stash with it. close_busy shows the engine side of this.
- `EngineDisable` stands for the engine's `tdnbd_disable`, which sets `closed = 3`. `CloseDead` and `CloseLive` are the two paths of `tdnbd_close`. `FdPassed` and `ServerHangup` are the environment.

## 3. Runs

The engine runs use `MC_NbdEngine.tla`. It gives `IdInit` the sets `MC_IdInit = {65533}` and `MC_IdOverflow = {2147483647}`.

Bounds:

- `MaxReqs = 2` slots and `NReqs = 3` block requests, so the pool runs out (EBUSY) and a slot is recycled.
- `HdrLen = 2` and `BodyLen = 1` units, with a send buffer of `TxCap = 2` units, so a header is sent partly and then hits EAGAIN.
- `ReplyHdrLen = 2`, so a reply header is read in pieces.
- `IdInit = 65533` makes `global_id` cross the `% 0xffff` wrap inside the run (65533, 65534, 65535 → handles fffd, fffe, 00000).

| Run | Config | Expect | Checks |
|---|---|---|---|
| engine_safety | `MC_NbdEngine.cfg` | pass | `TypeOK`; `SlotAccounting` (every slot is on exactly one list and `nr_free_count` counts the free ones); `WireInOrder` (the server receives whole frames in enqueue order, never two requests interleaved); `CorrectCompletion` (every completion answers the request it completes, with the server's status); `CompletedAtMostOnce`; `DisableCompletesAll` (after disable nothing is in flight, no event is registered, every outstanding request has an answer); `WriterIffPending` (the writer event is registered exactly when requests are pending on an open connection) |
| engine_liveness | `MC_NbdEngineLive.cfg` | pass | `CloseWhenIdle = TRUE`, so the block layer closes only a quiesced driver. `ClosedReleasesEvents`: after close no event stays registered. `AcceptedEventuallyCompleted`: every request that got a slot is eventually completed. `RefinesConnection`: the engine implements `NbdConnection`. `CloseReturns`: once `close` has queued its DISC, the blocking flush ends, whether the server goes on reading or closes the socket (a send that fails is retired as done, since the loop only stops on `rc > 0`). With three requests and idle close, the lost request of lost_request leaves the block layer waiting forever (TLC reports a deadlock). So this run uses two requests, one per slot. |
| handle_overflow | `MC_HandleOverflow.cfg` | violation | `CorrectCompletion` with `global_id` starting at INT_MAX |
| lost_request | `MC_LostRequest.cfg` | violation | `NoRequestLost`: every request given to the driver is eventually answered; checked as a state invariant on the dropped request |
| close_busy | `MC_CloseBusy.cfg` | violation | `ClosedReleasesEvents` when close may come with every slot in flight |


The FdStash runs use `MC_FdStash.cfg`'s constants:

- `N_PASSED_FDS = 2` slots and three names, so the table fills up and a passed fd is refused.
- Three fd numbers, so numbers are reused after a close.
- Two drivers, so one parks while another opens.

| Run | Config | Expect | Checks |
|---|---|---|---|
| stash_safety | `MC_FdStash.cfg` | pass | `TypeOK`; `NoFdOwnedTwice` (an fd number is in at most one slot or one open driver); `OwnersHoldOpenFds` (no slot or driver keeps a number that was closed and may be reused); `SlotIdNamesConnection` (slot ids and `prv->name` name the export the fd is connected to); `NoFdLeak` (every open fd is in the stash or owned by an open driver) |
| stash_refines | `MC_StashRefines.cfg` | violation | `StashRefinement`: the stash implements `FdStashSpec` |


The handshake runs use the code's field sizes: 8-byte magics, size and flags, 124 pad bytes, 2-byte gflags, 4-byte cflags, a 16-byte option and a 10-byte export reply. Every split of the greeting into segments is explored. `NameLen`, the size of the export name, is defined outside this repository and only shifts when the NEW server may answer, so it is set to 1.

| Run | Config | Expect | Checks |
|---|---|---|---|
| handshake_safety | `MC_NbdHandshake.cfg` | pass | `TypeOK`; `FailClosesOnce` (every failed negotiation closes the socket exactly once, a successful one never); `SuccessOnlyFromNbdServer` (an unknown second magic or a non-NBD peer never yields success); `FailedSendNeverSucceeds` (a handshake in which any client send failed never succeeds); under `FairSpec`, `NegotiationEndsUnlessPadSpin` (every handshake ends, whatever the peer does, unless an OLD server closes during the pad bytes; a silent peer is cut off by the select timeout of `tdnbd_wait_recv`) |
| handshake_short_finish | `MC_ShortFinish.cfg` | violation | `SuccessAtGreetingEnd`: success means the whole greeting was consumed and the size came from it |
| handshake_pad_spin | `MC_PadSpin.cfg` | violation | `NegotiationTerminates` under `FairSpec` |

The NbdDriver runs use:

- two drivers;
- one stash slot and three fd numbers, so that fds run out and `socket()` fails;
- one name of each kind, plus a host:port name with a bad host;
- `MaxOpens = 2` per driver, so that a slot is reopened after a close and after a failed open.

These runs set `CHECK_DEADLOCK FALSE`. The system stops once every driver has used its opens, and the real daemon then idles, waiting for control requests.

| Run | Config | Expect | Checks |
|---|---|---|---|
| driver_safety | `MC_NbdDriver.cfg` | pass | `TypeOK`. It exercises every path of open and close, composed with the stash. The fd ownership across drivers and stash slots is checked by stash_safety's `NoFdOwnedTwice` and `OwnersHoldOpenFds`, whose module has drivers opening, closing and parking too. With the EBUSY close, a parked socket may carry a live session, so no invariant about sessions holds here |
| driver_leak | `MC_DriverLeak.cfg` | violation | `NoResourceLeak`: every open fd is stashed or an open driver's socket, and a driver holds at most one block of each kind while open and none when not open |

**Fairness.** `FairSpec` assumes weak fairness of:

- `tdnbd_reader_cb` and `tdnbd_writer_cb`: the scheduler polls a registered fd and calls its handler whenever the fd stays ready;
- `CloseFlush`: the blocking flush makes progress whenever the buffer has room;
- `ServerRecv` and `ServerReply`: a live NBD server reads and answers.

`ServerClose`, `ServerErrorReply` and the block layer's submissions and `close` are not fair: they may never happen.

## 4. What the runs show

- **handle_overflow.** The code forms a handle with `snprintf(handle, 8, "td%05x", id % 0xffff)` on a signed `int`.
  - Once `global_id++` wraps past INT_MAX, the remainder is negative. It prints as eight hex digits, and the snprintf keeps five of them.
  - Consecutive requests then get the same handle. The reader's scan of `sent_reqs` matches the newest one, so a reply completes the wrong request with the wrong data.
  - The spec also says the counter is taken modulo 2^20, while the code takes it modulo 0xffff.
- **lost_request.**
  - `tdnbd_disable` completes every in-flight request but leaves its slot on its list. After a disable with both slots in flight, `nr_free_count` stays 0 for good.
  - `tdnbd_queue_request` tests for EBUSY (line 509) before it tests for a dead connection (line 512).
  - `tdnbd_queue_read`/`write` ignore the -EBUSY, so the block request is never completed, where the spec says ETIMEDOUT.
- **close_busy.**
  - `tdnbd_close` queues its DISC and ignores -EBUSY (line 1084). With every slot in flight there is no DISC, no disable and no completion of the sent requests.
  - Close returns with the reader event still registered on the driver that is about to be freed.

- **stash_refines.** The sequence is: pass `a` (slot 1), pass `b` (slot 2), open `a` (slot 1 freed), pass `b` again.
  - The loop at line 263 takes the first slot that is free *or* matches, so the new fd for `b` goes to slot 1, while slot 2 still holds the old fd for `b`.
  - The spec closes the replaced fd. The code keeps it open, shadowed: a second open of `b` gets -1 from slot 1 while slot 2 holds a live connection.
  - Once the table holds duplicates, it can also refuse a name while it has room.
- **Park after DISC (not a run).** `FdStash` also defines `StashedUnused`: every stashed connection can still be negotiated. With it as the invariant under `MC_FdStash.cfg`'s constants, TLC finds a 4-state trace (pass a, open a, close a). It is not a run because the spec presents the park as intended re-use. After a successful open, `tdnbd_close` sends DISC and stashes the socket again (line 1100).
  - The spec calls this re-use. In fact the server never greets again on that connection, so every later open of the name fails its handshake.
  - The park also replaces, and closes, any fresh fd the receiver stashed under that name meanwhile.

- **handshake_short_finish.** A NEW server's 10-byte export reply arrives in two segments (1 byte, then 9).
  - `NewFinish` gets `rc = 1`. Line 703 checks only `rc < 0`, so open succeeds with a size built from uninitialised bytes.
  - The 9 remaining bytes wait in the socket. The engine will read them as the start of the first reply header.
  - A server that closes after the option (`rc = 0`) has the same effect.
- **handshake_pad_spin.** An OLD server closes after 123 of the 124 pad bytes.
  - From then on, `recv` returns 0 immediately and `padbytes -= 0`.
  - The loop at line 789 never ends, so tapdisk's only thread spins. TLC reports this as a behaviour that stutters before reaching `ok` or `fail`, although the client is always scheduled.

- **driver_leak.** The shortest trace is the fd leak.
  `connect()` to a UNIX socket path fails (line 1006).
  - `tdnbd_open` returns -1 with `prv->socket` still open.
  - A failed open is never followed by `tdnbd_close`, so the fd is held until tapdisk exits.
  With the heap conjunct alone as the invariant, TLC finds a 2-state trace: a host:port open whose connect fails. The code leaks heap blocks on these paths, and the heap conjunct covers each of them:
  - A host:port open whose connect fails returns (line 1028) without freeing `peer_ip`.
  - The stash branch returns after a failed negotiation without freeing `name`.
  - `tdnbd_close` never frees `prv->remote`.
  - With `closed == 3`, close returns before freeing `peer_ip` or `name`.
  - The next open's `memset` forgets all these pointers.

## 5. Not modelled, and why

- Request timeouts: there are none. `tdnbd_queue_request` sets `timeout_event = -1` ("Don't time the NBD requests out") and `NBD_TIMEOUT` is never used. A server that stays connected but stops answering holds every request forever. The liveness runs assume the server replies (weak fairness), which is the assumption the code makes.
- Failure to register the reader or writer event (lines 1048 and 485): the scheduler is outside this repository, so the model registers unconditionally. The code ignores the reader's failure.
- Names in the stash are compared on their first 39 bytes. The model treats each name as its key, so two exports whose names share a 39-byte prefix are not modelled. They are listed as a hazard.

- In `tdnbd_open`, these failures are not modelled: `strdup`/`malloc` failure, `setsockopt(TCP_NODELAY)` failure, and `inet_pton < 0` (which needs a bad address family). They take a broken host, and they leak exactly as the modelled paths beside them do.
- In the handshake, the `fcntl(O_NONBLOCK)` failure branches are left out: `F_SETFL` on a valid socket does not fail.
- `tapdisk2` `main` is sequential start-up over modules outside `src/`.
- The fd receiver itself (`td_fdreceiver_*`) is not in this repository.
- The byte encoding (big-endian fields, magic numbers) is abstracted to units. The reply magic is never checked by the code, and `Junk` stands for any misframed header.
- The block close hang: a server that stays connected but stops reading blocks `close` forever in blocking mode. It is outside the server fairness assumed here. `CloseReturns` checks the other two cases, a server that reads and a server that closes; this one is listed as a hazard.
- The reader's `default:` case (line 621) is unreachable: a DISC never reaches `sent_reqs`, because the writer recycles it at once.
