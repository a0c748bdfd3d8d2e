--------------------------- MODULE NbdConnection ---------------------------
(***************************************************************************)
(* What an NBD connection of block-nbd promises the block layer (spec    *)
(* sections 3, 4.4 and 4.6), with no slots, lists or bytes:              *)
(*   - while open it accepts requests or reports busy, and only while    *)
(*     open; in secondary mode reads are forwarded whatever the          *)
(*     connection's state;                                               *)
(*   - an accepted request completes once, by its reply while the        *)
(*     connection is open or closing;                                    *)
(*   - when the connection dies, every outstanding request fails with    *)
(*     EIO in that same step; a dead connection fails new requests at    *)
(*     once with ETIMEDOUT;                                              *)
(*   - close takes an open connection through closing to closed, a dead  *)
(*     one straight to closed, and nothing is outstanding once closed.   *)
(***************************************************************************)
EXTENDS Naturals

CONSTANTS Reqs

States == {"open", "closing", "dead", "closed"}

VARIABLES
    state,          \* the connection's life-cycle state
    outstanding,    \* accepted requests not yet completed
    busy,           \* requests refused with EBUSY, left with the caller
    result,         \* result[r]: how request r was completed
    ncompl          \* ncompl[r]: how many times r was completed

vars == <<state, outstanding, busy, result, ncompl>>

Fresh(r) == r \notin outstanding \cup busy /\ ncompl[r] = 0

Finish(S, st) ==
    /\ result' = [r \in Reqs |-> IF r \in S THEN st ELSE result[r]]
    /\ ncompl' = [r \in Reqs |-> IF r \in S THEN ncompl[r] + 1 ELSE ncompl[r]]

Accept(r) ==
    /\ state = "open" /\ Fresh(r)
    /\ outstanding' = outstanding \cup {r}
    /\ UNCHANGED <<state, busy, result, ncompl>>

Busy(r) ==
    /\ state = "open" /\ Fresh(r)
    /\ busy' = busy \cup {r}
    /\ UNCHANGED <<state, outstanding, result, ncompl>>

Forward(r) ==
    /\ state \in {"open", "dead"} /\ Fresh(r)
    /\ Finish({r}, "FWD")
    /\ UNCHANGED <<state, outstanding, busy>>

Reply(r) ==
    /\ state \in {"open", "closing"} /\ r \in outstanding
    /\ \E st \in {"OK", "EIO"} : Finish({r}, st)
    /\ outstanding' = outstanding \ {r}
    /\ UNCHANGED <<state, busy>>

Die ==
    /\ state \in {"open", "closing"}
    /\ state' \in IF state = "open" THEN {"dead"} ELSE {"closing", "closed"}
    /\ Finish(outstanding, "EIO")
    /\ outstanding' = {}
    /\ UNCHANGED busy

RejectDead(r) ==
    /\ state = "dead" /\ Fresh(r)
    /\ Finish({r}, "ETIMEDOUT")
    /\ UNCHANGED <<state, outstanding, busy>>

Close ==
    /\ \/ state = "open" /\ state' = "closing"
       \/ state = "dead" /\ state' = "closed"
       \/ state = "closing" /\ outstanding = {} /\ state' = "closed"
    /\ UNCHANGED <<outstanding, busy, result, ncompl>>

Init ==
    /\ state = "open"
    /\ outstanding = {} /\ busy = {}
    /\ result = [r \in Reqs |-> "none"]
    /\ ncompl = [r \in Reqs |-> 0]

Next ==
    \/ \E r \in Reqs : Accept(r) \/ Busy(r) \/ Forward(r) \/ Reply(r) \/ RejectDead(r)
    \/ Die
    \/ Close

Spec == Init /\ [][Next]_vars

=============================================================================
