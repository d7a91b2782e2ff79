------------------------------- MODULE Outbox -------------------------------
(***************************************************************************)
(* The agent's durable queue: class SqliteOutbox of                        *)
(* src/src/queue/sqlite-outbox.ts.  One row of outbox_events is the values *)
(* of the functions below at its id.  Every method is one SQLite           *)
(* transaction (or one synchronous stretch of a single-threaded process)   *)
(* and one action here.                                                    *)
(*                                                                         *)
(* Clocks are abstracted.  "next_attempt_at_utc <= now" is the Boolean     *)
(* due[i], which a back-off clears and BackoffExpires sets.  The cut-offs  *)
(* of recoverStaleInflight and cleanup select rows by age: the caller, or  *)
(* the quantifier in Next, says which rows are old enough.                 *)
(***************************************************************************)
EXTENDS Integers, FiniteSets

CONSTANTS Payloads,     \* the distinct (type, payload hash) pairs enqueued
          NoPayload,    \* the payload of an id that has no row
          MaxAttempts,  \* MAX_ATTEMPTS: attempts after which a row is FAILED
          LeaseLimit,   \* the limit the sender leases with (MAX_IN_FLIGHT)
          MaxId         \* bound on the ids handed out, for model checking

ASSUME MaxAttemptsAssumption == MaxAttempts \in Nat \ {0}
ASSUME LeaseLimitAssumption == LeaseLimit \in Nat \ {0}
ASSUME MaxIdAssumption == MaxId \in Nat
ASSUME PayloadAssumption == NoPayload \notin Payloads

VARIABLES status,       \* status[i]: the status column, "ABSENT" without a row
          attempts,     \* attempts[i]: the attempts column
          due,          \* due[i]: next_attempt_at_utc has passed
          locked,       \* locked[i]: lock_owner and locked_at_utc are not NULL
          payload,      \* payload[i]: type and payload_hash
          nextId,       \* the id AUTOINCREMENT gives to the next row
          leases        \* history: how often row i was leased to the sender

outboxVars == <<status, attempts, due, locked, payload, nextId, leases>>

Ids == 1..MaxId
Status == {"ABSENT", "PENDING", "IN_FLIGHT", "SENT", "FAILED"}
Live == {"PENDING", "IN_FLIGHT"}
Terminal == {"SENT", "FAILED"}

TypeOK ==
    /\ status \in [Ids -> Status]
    /\ attempts \in [Ids -> 0..MaxAttempts]
    /\ due \in [Ids -> BOOLEAN]
    /\ locked \in [Ids -> BOOLEAN]
    /\ payload \in [Ids -> Payloads \cup {NoPayload}]
    /\ nextId \in 1..(MaxId + 1)
    /\ leases \in [Ids -> Nat]

-----------------------------------------------------------------------------
(* Queries.                                                                *)

WithStatus(S) == {i \in Ids : status[i] \in S}

(* Mutant: the duplicate check overlooks rows in flight.                   *)
DuplicatesPendingOnly(p) == {i \in WithStatus({"PENDING"}) : payload[i] = p}

(* The live row that already carries payload p, if any (a duplicate).      *)
Duplicates(p) == {i \in WithStatus(Live) : payload[i] = p}

Ready == {i \in WithStatus({"PENDING"}) : attempts[i] < MaxAttempts /\ due[i]}

(* Mutant: the lease takes the newest rows first.                          *)
CandidatesNewest == {i \in Ready : Cardinality({j \in Ready : j > i}) < LeaseLimit}

(* SELECT ... ORDER BY id LIMIT LeaseLimit, then the UPDATE that skips     *)
(* rows whose lock_owner is set.                                           *)
Candidates == {i \in Ready : Cardinality({j \in Ready : j < i}) < LeaseLimit}
Leasable == {i \in Candidates : ~locked[i]}

-----------------------------------------------------------------------------
(* A fresh database, at the first start or after a quarantine.             *)

All(v) == [i \in Ids |-> v]

Init ==
    /\ status = All("ABSENT")
    /\ attempts = All(0)
    /\ due = All(FALSE)
    /\ locked = All(FALSE)
    /\ payload = All(NoPayload)
    /\ nextId = 1
    /\ leases = All(0)

(* enqueue, when no live row has this payload; with one it returns that    *)
(* row's id and changes nothing.                                           *)
Enqueue(p) ==
    /\ nextId \in Ids
    /\ Duplicates(p) = {}
    /\ status' = [status EXCEPT ![nextId] = "PENDING"]
    /\ attempts' = [attempts EXCEPT ![nextId] = 0]
    /\ due' = [due EXCEPT ![nextId] = TRUE]
    /\ payload' = [payload EXCEPT ![nextId] = p]
    /\ nextId' = nextId + 1
    /\ UNCHANGED <<locked, leases>>

LeaseReady ==
    /\ Leasable # {}
    /\ status' = [i \in Ids |-> IF i \in Leasable THEN "IN_FLIGHT" ELSE status[i]]
    /\ locked' = [i \in Ids |-> IF i \in Leasable THEN TRUE ELSE locked[i]]
    /\ leases' = [i \in Ids |-> IF i \in Leasable THEN leases[i] + 1 ELSE leases[i]]
    /\ UNCHANGED <<attempts, due, payload, nextId>>

(* Mutant: a mark does not look at the row's status.                       *)
FinishAny(i, outcome) ==
    /\ status' = [status EXCEPT ![i] = IF @ = "ABSENT" THEN @ ELSE outcome]
    /\ locked' = [locked EXCEPT ![i] = FALSE]
    /\ UNCHANGED <<attempts, due, payload, nextId, leases>>

(* markSent and markRejected: a live row becomes terminal and is unlocked; *)
(* any other id, a late or repeated ACK, changes nothing.                  *)
Finish(i, outcome) ==
    /\ status' = [status EXCEPT ![i] = IF @ \in Live THEN outcome ELSE @]
    /\ locked' = [locked EXCEPT ![i] = IF status[i] \in Live THEN FALSE ELSE @]
    /\ UNCHANGED <<attempts, due, payload, nextId, leases>>

MarkSent(i) == Finish(i, "SENT")
MarkRejected(i) == Finish(i, "FAILED")

(* Mutant: a row goes back to PENDING with its lock_owner still set.       *)
FailAttemptKeepsLock(S) ==
    LET exhausted(i) == attempts[i] + 1 >= MaxAttempts IN
    /\ attempts' = [i \in Ids |-> IF i \in S THEN attempts[i] + 1 ELSE attempts[i]]
    /\ status' = [i \in Ids |-> IF i \notin S THEN status[i]
                                ELSE IF exhausted(i) THEN "FAILED" ELSE "PENDING"]
    /\ due' = [i \in Ids |-> due[i] /\ (i \in S => exhausted(i))]
    /\ UNCHANGED <<locked, payload, nextId, leases>>

(* Mutant: the budget is compared with > instead of >=.                    *)
FailAttemptOneLate(S) ==
    LET exhausted(i) == attempts[i] + 1 > MaxAttempts IN
    /\ attempts' = [i \in Ids |-> IF i \in S THEN attempts[i] + 1 ELSE attempts[i]]
    /\ status' = [i \in Ids |-> IF i \notin S THEN status[i]
                                ELSE IF exhausted(i) THEN "FAILED" ELSE "PENDING"]
    /\ due' = [i \in Ids |-> due[i] /\ (i \in S => exhausted(i))]
    /\ locked' = [i \in Ids |-> locked[i] /\ i \notin S]
    /\ UNCHANGED <<payload, nextId, leases>>

(* One more failed attempt for each row of S: back off, or give up.        *)
FailAttempt(S) ==
    LET exhausted(i) == attempts[i] + 1 >= MaxAttempts IN
    /\ attempts' = [i \in Ids |-> IF i \in S THEN attempts[i] + 1 ELSE attempts[i]]
    /\ status' = [i \in Ids |-> IF i \notin S THEN status[i]
                                ELSE IF exhausted(i) THEN "FAILED" ELSE "PENDING"]
    /\ due' = [i \in Ids |-> due[i] /\ (i \in S => exhausted(i))]
    /\ locked' = [i \in Ids |-> locked[i] /\ i \notin S]
    /\ UNCHANGED <<payload, nextId, leases>>

MarkFailed(i) == FailAttempt({i} \cap WithStatus(Live))

(* recoverStaleInflight(ttl): S is the set of rows locked longer than ttl. *)
Locked == {i \in WithStatus({"IN_FLIGHT"}) : locked[i]}
(* Mutant: a recovered row does not pay with an attempt.                   *)
RecoverForFree(S) ==
    /\ status' = [i \in Ids |-> IF i \in S \cap Locked THEN "PENDING" ELSE status[i]]
    /\ locked' = [i \in Ids |-> locked[i] /\ i \notin S \cap Locked]
    /\ UNCHANGED <<attempts, due, payload, nextId, leases>>

RecoverStaleInflight(S) == FailAttempt(S \cap Locked)

(* cleanup: S is the set of terminal rows past the retention.              *)
Cleanup(S) ==
    LET kept(f, none) == [i \in Ids |-> IF i \in S \cap WithStatus(Terminal) THEN none ELSE f[i]] IN
    /\ status' = kept(status, "ABSENT")
    /\ attempts' = kept(attempts, 0)
    /\ due' = kept(due, FALSE)
    /\ payload' = kept(payload, NoPayload)
    /\ leases' = kept(leases, 0)
    /\ UNCHANGED <<locked, nextId>>

(* openWithSelfHealing: a corrupt file is renamed aside and an empty       *)
(* database takes its place; AUTOINCREMENT starts again at 1.              *)
Quarantine ==
    /\ status' = All("ABSENT")
    /\ attempts' = All(0)
    /\ due' = All(FALSE)
    /\ locked' = All(FALSE)
    /\ payload' = All(NoPayload)
    /\ nextId' = 1
    /\ leases' = All(0)

(* The clock passes next_attempt_at_utc of a row that backs off.           *)
BackoffExpires(i) ==
    /\ status[i] = "PENDING"
    /\ ~due[i]
    /\ due' = [due EXCEPT ![i] = TRUE]
    /\ UNCHANGED <<status, attempts, locked, payload, nextId, leases>>

(* Callers may mark any id, whatever its row's status: an ACK can be late, *)
(* repeated, or name a row that cleanup has deleted.                       *)
Next ==
    \/ \E p \in Payloads : Enqueue(p)
    \/ LeaseReady
    \/ \E i \in Ids : MarkSent(i)
    \/ \E i \in Ids : MarkRejected(i)
    \/ \E i \in Ids : MarkFailed(i)
    \/ \E S \in SUBSET Ids : RecoverStaleInflight(S)
    \/ \E S \in SUBSET Ids : Cleanup(S)
    \/ Quarantine
    \/ \E i \in Ids : BackoffExpires(i)

Spec == Init /\ [][Next]_outboxVars

-----------------------------------------------------------------------------
(* Properties.                                                             *)

(* Every row that still waits can be picked up by one of the queries that  *)
(* look for it: a PENDING row by leaseReady once it is due (budget left, no *)
(* lock_owner), an IN_FLIGHT row by recoverStaleInflight (locked).  A row  *)
(* outside both would never be sent, never fail and never be deleted, and  *)
(* enqueue would go on answering with its id.                              *)
NoStrandedRow ==
    \A i \in Ids :
        /\ status[i] = "PENDING" => attempts[i] < MaxAttempts /\ ~locked[i]
        /\ status[i] = "IN_FLIGHT" => attempts[i] < MaxAttempts /\ locked[i]

(* enqueue's duplicate check: no two live rows carry the same payload,     *)
(* whatever leases, failures and recoveries came in between.               *)
NoDuplicateLive ==
    \A i, j \in WithStatus(Live) : payload[i] = payload[j] => i = j

(* An event is handed to the sender at most MAX_ATTEMPTS times in its life,*)
(* however failures, late ACKs and stale recoveries interleave.            *)
BoundedLeases == \A i \in Ids : leases[i] <= MaxAttempts

(* leaseReady is FIFO: it never takes a row and leaves an older ready one. *)
LeaseInOrder ==
    [][ \A i \in Ids : \A j \in Ready :
            (j < i /\ leases'[i] > leases[i]) => leases'[j] > leases[j] ]_outboxVars

(* The queue keeps the promise of DurableQueue: no event is completed or   *)
(* given up twice, none revives, no id is used again, and none is handed   *)
(* out beyond its attempts.                                                *)
stageOf ==
    [i \in Ids |-> CASE status[i] \in Live   -> "waiting"
                     [] status[i] = "SENT"   -> "done"
                     [] status[i] = "FAILED" -> "dead"
                     [] OTHER -> IF i < nextId THEN "forgotten" ELSE "unknown"]

Abstract == INSTANCE DurableQueue
    WITH stage <- stageOf, handouts <- leases, MaxHandouts <- MaxAttempts

ImplementsDurableQueue == Abstract!Spec
=============================================================================
