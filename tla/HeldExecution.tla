---------------------------- MODULE HeldExecution ----------------------------
(***************************************************************************)
(* The execution gateway: ExecutionController (execution/controller.py),    *)
(* the pending holds behind it (execution/pending.py) and the ledger        *)
(* operations they share (ledger/sqlite_ledger.py, receipts.py, spend.py).  *)
(*                                                                         *)
(* Drivers are processes with their own connection to one ledger file.      *)
(* Every commit, every chain append and every guarded read is a step, so    *)
(* the calls of two drivers interleave wherever SQLite lets them, and a     *)
(* driver may die (or an append may raise) between any two of its steps.    *)
(*                                                                         *)
(* Abstractions.                                                           *)
(*  - A hold is its row id.  The consecutive reads with which approve and   *)
(*    retry re-validate a hold are one snapshot; the writes that follow     *)
(*    them stay conditional on the row, as in the code.                     *)
(*  - The decision columns of a row are its status; a TTL is lapsed or not. *)
(*  - The live state of the one target is a value of Targets, so it can     *)
(*    move away and come back.                                              *)
(*  - A key binds the policy it was authorized under, so nothing is         *)
(*    submitted under an existing key once the policy has rotated.          *)
(*  - Of the observation entries only the one made before an approval is    *)
(*    kept, the one that is read back.                                      *)
(***************************************************************************)
EXTENDS Spend, FiniteSets

CONSTANTS
    Drivers,      \* processes that drive the controller
    Holds,        \* row ids of pending_actions
    Keys,         \* authorizations, by spend key
    KeyOf,        \* the authorization each hold would spend
    AutoKeys,     \* authorizations the gate approves without routing them
    IdemKeys,     \* idempotency keys that submit may declare, None included
    Targets,      \* live states of the target
    MaxRotations, \* how often the selected policy may rotate, 0 or 1
    MaxCalls,     \* how many calls may be made, sweeps not counted
    MaxCrashes    \* how many calls may die half-way

ASSUME HeldAssumption ==
    /\ KeyOf \in [Holds -> Keys]
    /\ None \notin Holds \cup Keys \cup Nat
    /\ AutoKeys \subseteq Keys
    /\ None \in IdemKeys
    /\ MaxRotations \in {0, 1}
    /\ MaxCalls \in Nat
    /\ MaxCrashes \in Nat

VARIABLES
    status,   \* status column of each hold's row, "none" before the insert
    pin,      \* the target state each hold was captured on
    ttl,      \* whether the TTL of the hold, then of its approval, has lapsed
    claim,    \* holds whose execution_committed_at is set
    held,     \* holds with a pending.hold entry on the chain
    observed, \* holds with an observation entry made for their approval
    decided,  \* status in the latest chained decision of each hold
    mutex,    \* keys with a row in spent_authorizations
    spends,   \* the chain entries of each key
    rows,     \* the executions table
    runs,     \* how often the executor has run an action under each key
    target,   \* live state of the target
    rotated,  \* the deployment selects another policy than the holds are pinned to
    pc,       \* where each driver is
    verb,     \* the call it serves
    at,       \* the hold the call is about, or None
    key,      \* the authorization it would spend, or None
    idem,     \* the idempotency key it declared
    list,     \* lapsed or superseded holds its loop has still to visit
    cur,      \* the hold whose decision it has written and has to chain
    then,     \* where the call goes on after that
    got,      \* what its attempt came to
    own,      \* id of the execution row it wrote, 0 before
    calls,    \* calls so far
    crashes   \* crashes so far

holdVars  == <<status, pin, ttl, claim, held, observed, decided>>
spendVars == <<mutex, spends, rows, runs>>
envVars   == <<target, rotated, calls, crashes>>
callVars  == <<pc, verb, at, key, idem, list, cur, then, got, own>>
vars      == <<holdVars, spendVars, envVars, callVars>>

-----------------------------------------------------------------------------
(* Types.                                                                   *)

Decisions == {"approved", "rejected", "expired", "invalidated", "state_moved"}
Phases == {"idle", "create", "bind", "scan", "visit", "visited", "review", "lapse", "void",
           "compare", "resolve", "chain", "pinned", "recheck", "settle", "claim",
           "observe", "moved", "spend", "spent", "run", "row", "receipt", "release",
           "retract", "complete", "unclaim"}
Results == {"none", "ran", "refused", "moved", "unread", "turned_away"}

Row == [hold : Holds \cup {None}, key : Keys, executed : BOOLEAN, receipt : BOOLEAN]

SpendEntries ==
    [event : {"spend", "release", "outcome"}, idem : IdemKeys, row : Nat \cup {None}]

TypeOK ==
    /\ status \in [Holds -> Decisions \cup {"none", "pending"}]
    /\ pin \in [Holds -> Targets]
    /\ ttl \in [Holds -> {"fresh", "lapsed"}]
    /\ claim \subseteq Holds
    /\ held \subseteq Holds
    /\ observed \subseteq Holds
    /\ decided \in [Holds -> Decisions \cup {"none"}]
    /\ mutex \subseteq Keys
    /\ spends \in [Keys -> Seq(SpendEntries)]
    /\ rows \in Seq(Row)
    /\ runs \in [Keys -> Nat]
    /\ target \in Targets
    /\ rotated \in BOOLEAN
    /\ pc \in [Drivers -> Phases]
    /\ verb \in [Drivers -> {"none", "submit", "approve", "reject", "retry", "sweep", "rotate"}]
    /\ at \in [Drivers -> Holds \cup {None}]
    /\ key \in [Drivers -> Keys \cup {None}]
    /\ idem \in [Drivers -> IdemKeys]
    /\ list \in [Drivers -> SUBSET Holds]
    /\ cur \in [Drivers -> Holds \cup {None}]
    /\ then \in [Drivers -> Phases]
    /\ got \in [Drivers -> Results]
    /\ own \in [Drivers -> Nat]
    /\ calls \in 0..MaxCalls
    /\ crashes \in 0..MaxCrashes

Init ==
    /\ status = [h \in Holds |-> "none"]
    /\ target \in Targets
    /\ pin = [h \in Holds |-> target]
    /\ ttl = [h \in Holds |-> "fresh"]
    /\ claim = {}
    /\ held = {}
    /\ observed = {}
    /\ decided = [h \in Holds |-> "none"]
    /\ mutex = {}
    /\ spends = [k \in Keys |-> <<>>]
    /\ rows = <<>>
    /\ runs = [k \in Keys |-> 0]
    /\ rotated = FALSE
    /\ pc = [d \in Drivers |-> "idle"]
    /\ verb = [d \in Drivers |-> "none"]
    /\ at = [d \in Drivers |-> None]
    /\ key = [d \in Drivers |-> None]
    /\ idem = [d \in Drivers |-> None]
    /\ list = [d \in Drivers |-> {}]
    /\ cur = [d \in Drivers |-> None]
    /\ then = [d \in Drivers |-> "idle"]
    /\ got = [d \in Drivers |-> "none"]
    /\ own = [d \in Drivers |-> 0]
    /\ calls = 0
    /\ crashes = 0

-----------------------------------------------------------------------------
(* The ledger as its guarded readers see it.                                *)

\* verify_receipts: a hold row with no hold entry, or a row that differs from
\* its latest chained decision, reads as tampering.  It condemns every
\* authoritative read of the ledger (_authoritative_read).
Condemned ==
    \E h \in Holds :
        /\ status[h] # "none"
        /\ h \notin held \/ decided[h] \notin {"none", status[h]}

\* A decision or an execution the chain never saw condemns only the reads that
\* would hand the row back.
DecisionUnreceipted(h) == status[h] \in Decisions /\ decided[h] = "none"
SomeRowUnreceipted     == \E n \in DOMAIN rows : ~ rows[n].receipt
RowUnreceipted(h)      == \E n \in DOMAIN rows : rows[n].hold = h /\ ~ rows[n].receipt

\* pending_action(h), guarded.
Readable(h) == ~ Condemned /\ ~ DecisionUnreceipted(h)

\* The selected policy is not the one the holds are pinned to, so no authorization
\* is restored from them.
Superseded == rotated

ExecutedUnder(h) == \E n \in DOMAIN rows : rows[n].hold = h /\ rows[n].executed

-----------------------------------------------------------------------------
(* Observing the target.                                                    *)

\* ReObservation.observe: the state of the target, or None where the observer
\* fails, cannot read it or is not there.
Readings == {target, None}

\* Digests over the same aspects differ when the states do.
Differs(pinned, reading) == pinned # reading

\* compare.
Compared(pinned, reading) ==
    CASE reading = None -> "unavailable"
      [] reading # None /\ Differs(pinned, reading) -> "moved"
      [] OTHER -> "matched"

\* _capture_target_state: without a reading there is no hold.
Capture(h) == \E reading \in Readings \ {None} : pin' = [pin EXCEPT ![h] = reading]

\* The observation is chained, whatever it showed.
RecordObservation(h) == observed' = observed \cup {h}

\* pre_approval_entry: an execution restates what the approval was shown.
PreApprovalEntry(h) == h \in observed

\* refusal_retains_claim: only a target that moved keeps the claim of its hold.
RetainsClaim(result) == result = "moved"

-----------------------------------------------------------------------------
(* Control flow of a call.                                                  *)

Goto(d, phase) == pc' = [pc EXCEPT ![d] = phase]

localVars == <<verb, at, key, idem, list, cur, then, got, own>>

\* The call returns or raises: its locals are gone.
Return(d) ==
    /\ Goto(d, "idle")
    /\ verb' = [verb EXCEPT ![d] = "none"]
    /\ at' = [at EXCEPT ![d] = None]
    /\ key' = [key EXCEPT ![d] = None]
    /\ idem' = [idem EXCEPT ![d] = None]
    /\ list' = [list EXCEPT ![d] = {}]
    /\ cur' = [cur EXCEPT ![d] = None]
    /\ then' = [then EXCEPT ![d] = "idle"]
    /\ got' = [got EXCEPT ![d] = "none"]
    /\ own' = [own EXCEPT ![d] = 0]

\* A call begins.
Call(d, v, h, k, i, phase) ==
    /\ pc[d] = "idle"
    /\ Goto(d, phase)
    /\ verb' = [verb EXCEPT ![d] = v]
    /\ at' = [at EXCEPT ![d] = h]
    /\ key' = [key EXCEPT ![d] = k]
    /\ idem' = [idem EXCEPT ![d] = i]
    /\ UNCHANGED <<list, cur, then, own>>

Counted == calls < MaxCalls /\ calls' = calls + 1

\* UPDATE ... SET status, whose guard the caller has checked; the decision is
\* chained next, and the call goes on with phase cont.
Decide(d, h, st, cont) ==
    /\ status' = [status EXCEPT ![h] = st]
    /\ cur' = [cur EXCEPT ![d] = h]
    /\ then' = [then EXCEPT ![d] = cont]
    /\ Goto(d, "chain")

\* The attempt ends with an execution row.
Ends(d, result) ==
    /\ Goto(d, "row")
    /\ got' = [got EXCEPT ![d] = result]

-----------------------------------------------------------------------------
(* The calls.                                                               *)

\* submit of a routed action: the target is captured, then the hold is written.
SubmitRouted(d, h) ==
    /\ status[h] = "none"
    /\ \A e \in Drivers : at[e] # h
    /\ ~ rotated
    /\ Counted
    /\ Call(d, "submit", h, KeyOf[h], None, "create")
    /\ Capture(h)
    /\ UNCHANGED <<status, ttl, claim, held, observed, decided, spendVars, target, rotated, crashes, got>>

\* submit of an approved action goes straight to _execute.
SubmitApproved(d, k, i) ==
    /\ ~ rotated
    /\ Counted
    /\ Call(d, "submit", None, k, i, "settle")
    /\ UNCHANGED <<holdVars, spendVars, target, rotated, crashes, got>>

\* submit of a blocked or an unverifiable action only leaves a row.
SubmitBlocked(d, k) ==
    /\ Counted
    /\ Call(d, "submit", None, k, None, "row")
    /\ got' = [got EXCEPT ![d] = "turned_away"]
    /\ UNCHANGED <<holdVars, spendVars, target, rotated, crashes>>

Approve(d, h) ==
    /\ status[h] # "none"
    /\ Counted
    /\ Call(d, "approve", h, KeyOf[h], None, "scan")
    /\ UNCHANGED <<holdVars, spendVars, target, rotated, crashes, got>>

Reject(d, h) ==
    /\ status[h] # "none"
    /\ Counted
    /\ Call(d, "reject", h, KeyOf[h], None, "review")
    /\ UNCHANGED <<holdVars, spendVars, target, rotated, crashes, got>>

RetryExecution(d, h) ==
    /\ status[h] # "none"
    /\ Counted
    /\ Call(d, "retry", h, KeyOf[h], None, "recheck")
    /\ UNCHANGED <<holdVars, spendVars, target, rotated, crashes, got>>

\* sweep, list_pending, or the construction of a controller.
Sweep(d) ==
    /\ Call(d, "sweep", None, None, None, "scan")
    /\ UNCHANGED <<holdVars, spendVars, envVars, got>>

InvalidateSuperseded(d) ==
    /\ rotated
    /\ Call(d, "rotate", None, None, None, "scan")
    /\ UNCHANGED <<holdVars, spendVars, envVars, got>>

-----------------------------------------------------------------------------
(* Creating a hold.                                                         *)

\* record_pending_action commits the row ...
CreateHold(d) ==
    /\ pc[d] = "create"
    /\ status' = [status EXCEPT ![at[d]] = "pending"]
    /\ Goto(d, "bind")
    /\ UNCHANGED <<pin, ttl, claim, held, observed, decided, spendVars, envVars, localVars>>

\* The authorization record of the hold, as the payload of its pending.hold entry.
ChainRecord(h) == held' = held \cup {h}

\* ... and its pending.hold entry is appended to the chain afterwards.
BindHold(d) ==
    /\ pc[d] = "bind"
    /\ ChainRecord(at[d])
    /\ Return(d)
    /\ UNCHANGED <<status, pin, ttl, claim, observed, decided, spendVars, envVars>>

-----------------------------------------------------------------------------
(* sweep and invalidate_superseded.                                         *)

\* Mutant of Scan: an execution without its receipt condemns this read as well.
ScanEveryReceipt(d) ==
    /\ pc[d] = "scan"
    /\ IF Condemned \/ SomeRowUnreceipted
       THEN Return(d)
       ELSE /\ list' = [list EXCEPT ![d] =
                          {h \in Holds : /\ status[h] = "pending"
                                         /\ verb[d] # "rotate" => ttl[h] = "lapsed"}]
            /\ Goto(d, "visit")
            /\ UNCHANGED <<verb, at, key, idem, cur, then, got, own>>
    /\ UNCHANGED <<holdVars, spendVars, envVars>>

\* One guarded read of the pending rows.
Scan(d) ==
    /\ pc[d] = "scan"
    /\ IF Condemned
       THEN Return(d)
       ELSE /\ list' = [list EXCEPT ![d] =
                          {h \in Holds : /\ status[h] = "pending"
                                         /\ verb[d] # "rotate" => ttl[h] = "lapsed"}]
            /\ Goto(d, "visit")
            /\ UNCHANGED <<verb, at, key, idem, cur, then, got, own>>
    /\ UNCHANGED <<holdVars, spendVars, envVars>>

\* Mutant of Visit: a status that PendingStatus does not know.
VisitUnknownStatus(d, h) ==
    /\ pc[d] = "visit"
    /\ h \in list[d]
    /\ status[h] = "pending"
    /\ Decide(d, h, "superseded", "visited")
    /\ list' = [list EXCEPT ![d] = @ \ {h}]
    /\ UNCHANGED <<verb, at, key, idem, got, own>>
    /\ UNCHANGED <<pin, ttl, claim, held, observed, decided, spendVars, envVars>>

\* _expire raises StateError when another driver has decided the hold since the
\* read; invalidate_pending_action then leaves it alone.
Visit(d, h) ==
    /\ pc[d] = "visit"
    /\ h \in list[d]
    /\ IF status[h] = "pending"
       THEN /\ Decide(d, h, IF verb[d] = "rotate" THEN "invalidated" ELSE "expired", "visited")
            /\ list' = [list EXCEPT ![d] = @ \ {h}]
            /\ UNCHANGED <<verb, at, key, idem, got, own>>
       ELSE /\ UNCHANGED status
            /\ IF verb[d] = "rotate"
               THEN /\ list' = [list EXCEPT ![d] = @ \ {h}]
                    /\ cur' = [cur EXCEPT ![d] = h]
                    /\ Goto(d, "visited")
                    /\ UNCHANGED <<verb, at, key, idem, then, got, own>>
               ELSE Return(d)
    /\ UNCHANGED <<pin, ttl, claim, held, observed, decided, spendVars, envVars>>

\* The refreshed hold is read back, guarded.
Visited(d) ==
    /\ pc[d] = "visited"
    /\ IF Readable(cur[d])
       THEN /\ Goto(d, "visit")
            /\ cur' = [cur EXCEPT ![d] = None]
            /\ UNCHANGED <<verb, at, key, idem, list, then, got, own>>
       ELSE Return(d)
    /\ UNCHANGED <<holdVars, spendVars, envVars>>

EndScan(d) ==
    /\ pc[d] = "visit"
    /\ list[d] = {}
    /\ IF verb[d] = "approve"
       THEN Goto(d, "review") /\ UNCHANGED localVars
       ELSE Return(d)
    /\ UNCHANGED <<holdVars, spendVars, envVars>>

\* _chain_decision: the decision columns as stored now.
ChainDecision(d) ==
    /\ pc[d] = "chain"
    /\ decided' = [decided EXCEPT ![cur[d]] = status[cur[d]]]
    /\ IF then[d] = "idle"
       THEN Return(d)
       ELSE /\ Goto(d, then[d])
            /\ UNCHANGED localVars
    /\ UNCHANGED <<status, pin, ttl, claim, held, observed, spendVars, envVars>>

-----------------------------------------------------------------------------
(* Deciding a hold: approve and reject of the pending service.              *)

\* _require_pending, and for an approval _revalidate and the TTL check.
Review(d) ==
    /\ pc[d] = "review"
    /\ IF ~ Readable(at[d]) \/ status[at[d]] # "pending"
       THEN Return(d)
       ELSE /\ Goto(d, IF verb[d] = "reject" THEN "resolve"
                       ELSE IF Superseded THEN "void"
                       ELSE IF ttl[at[d]] = "lapsed" THEN "lapse"
                       ELSE "compare")
            /\ UNCHANGED localVars
    /\ UNCHANGED <<holdVars, spendVars, envVars>>

\* A superseded hold is voided and a lapsed one expired, if still pending, and
\* the approval is refused.
RefuseApproval(d) ==
    /\ pc[d] \in {"void", "lapse"}
    /\ IF status[at[d]] = "pending"
       THEN /\ Decide(d, at[d], IF pc[d] = "void" THEN "invalidated" ELSE "expired", "idle")
            /\ UNCHANGED <<verb, at, key, idem, list, got, own>>
       ELSE Return(d) /\ UNCHANGED status
    /\ UNCHANGED <<pin, ttl, claim, held, observed, decided, spendVars, envVars>>

\* The comparison before the approval; an unreadable target refuses as well.
CompareBeforeApproval(d) ==
    /\ pc[d] = "compare"
    /\ RecordObservation(at[d])
    /\ \E reading \in Readings :
          IF Compared(pin[at[d]], reading) = "matched"
          THEN Goto(d, "resolve") /\ UNCHANGED localVars
          ELSE Return(d)
    /\ UNCHANGED <<status, pin, ttl, claim, held, decided, spendVars, envVars>>

\* Mutant of Resolve: the UPDATE has lost its "AND status = pending".
ResolveUnconditional(d) ==
    /\ pc[d] = "resolve"
    /\ IF verb[d] = "approve"
       THEN /\ Decide(d, at[d], "approved", "pinned")
            /\ ttl' = [ttl EXCEPT ![at[d]] = "fresh"]
       ELSE /\ Decide(d, at[d], "rejected", "idle")
            /\ UNCHANGED ttl
    /\ UNCHANGED <<verb, at, key, idem, list, got, own>>
    /\ UNCHANGED <<pin, claim, held, observed, decided, spendVars, envVars>>

\* resolve_pending_action: only a row that is still pending is decided.
Resolve(d) ==
    /\ pc[d] = "resolve"
    /\ IF status[at[d]] = "pending"
       THEN /\ IF verb[d] = "approve"
               THEN /\ Decide(d, at[d], "approved", "pinned")
                    /\ ttl' = [ttl EXCEPT ![at[d]] = "fresh"]
               ELSE /\ Decide(d, at[d], "rejected", "idle")
                    /\ UNCHANGED ttl
            /\ UNCHANGED <<verb, at, key, idem, list, got, own>>
       ELSE Return(d) /\ UNCHANGED <<status, ttl>>
    /\ UNCHANGED <<pin, claim, held, observed, decided, spendVars, envVars>>

\* _pinned_record: the hold is read back, guarded.
Pinned(d) ==
    /\ pc[d] = "pinned"
    /\ IF Readable(at[d]) THEN Goto(d, "settle") /\ UNCHANGED localVars ELSE Return(d)
    /\ UNCHANGED <<holdVars, spendVars, envVars>>

\* Mutant of Recheck: the status of the hold is not looked at.
RecheckAnyStatus(d) ==
    /\ pc[d] = "recheck"
    /\ IF ~ Readable(at[d])
       THEN Return(d)
       ELSE IF Superseded \/ ttl[at[d]] = "lapsed" \/ SomeRowUnreceipted \/ ExecutedUnder(at[d])
       THEN /\ Ends(d, "turned_away")
            /\ UNCHANGED <<verb, at, key, idem, list, cur, then, own>>
       ELSE Goto(d, "pinned") /\ UNCHANGED localVars
    /\ UNCHANGED <<holdVars, spendVars, envVars>>

\* retry_decision: an approved hold whose approval is current and for which the
\* receipts show no execution; anything else leaves a refused row.
Recheck(d) ==
    /\ pc[d] = "recheck"
    /\ IF ~ Readable(at[d])
       THEN Return(d)
       ELSE IF \/ status[at[d]] # "approved" \/ Superseded \/ ttl[at[d]] = "lapsed"
               \/ SomeRowUnreceipted \/ ExecutedUnder(at[d])
       THEN /\ Ends(d, "turned_away")
            /\ UNCHANGED <<verb, at, key, idem, list, cur, then, own>>
       ELSE Goto(d, "pinned") /\ UNCHANGED localVars
    /\ UNCHANGED <<holdVars, spendVars, envVars>>

-----------------------------------------------------------------------------
(* _execute.                                                                *)

\* _settle_spend: only an authorization that nothing has used goes on; a prior
\* result is handed back, and every other state is refused.
Settle(d) ==
    /\ pc[d] = "settle"
    /\ \E expired \in BOOLEAN :
         IF /\ ~ Condemned
            /\ RetryVerdict(SpendState(spends[key[d]]), idem[d], expired) = "may_execute"
         THEN Goto(d, IF at[d] = None THEN "spend" ELSE "claim") /\ UNCHANGED localVars
         ELSE Return(d)
    /\ UNCHANGED <<holdVars, spendVars, envVars>>

\* claim_pending_execution: one conditional update; the loser leaves a row.
ClaimHold(d) ==
    /\ pc[d] = "claim"
    /\ IF at[d] \notin claim
       THEN /\ claim' = claim \cup {at[d]}
            /\ Goto(d, "observe")
            /\ UNCHANGED localVars
       ELSE /\ Ends(d, "turned_away")
            /\ UNCHANGED <<claim, verb, at, key, idem, list, cur, then, own>>
    /\ UNCHANGED <<status, pin, ttl, held, observed, decided, spendVars, envVars>>

\* The comparison before the execution.  A refused read, of the ledger or of
\* the target, is not a statement about the target.
Observe(d) ==
    /\ pc[d] = "observe"
    /\ IF Readable(at[d]) /\ ~ RowUnreceipted(at[d]) /\ PreApprovalEntry(at[d])
       THEN \E reading \in Readings :
               CASE Compared(pin[at[d]], reading) = "matched" -> Goto(d, "spend") /\ UNCHANGED got
                 [] Compared(pin[at[d]], reading) = "moved"   -> Goto(d, "moved") /\ UNCHANGED got
                 [] OTHER -> Ends(d, "unread")
       ELSE Ends(d, "unread")
    /\ UNCHANGED <<holdVars, spendVars, envVars, verb, at, key, idem, list, cur, then, own>>

\* mark_state_moved makes an approved hold terminal.
MarkStateMoved(d) ==
    /\ pc[d] = "moved"
    /\ got' = [got EXCEPT ![d] = "moved"]
    /\ IF status[at[d]] = "approved"
       THEN Decide(d, at[d], "state_moved", "row")
       ELSE Goto(d, "row") /\ UNCHANGED <<status, cur, then, own>>
    /\ UNCHANGED <<pin, ttl, claim, held, observed, decided, spendVars, envVars, verb, at, key, idem, list, own>>

\* claim_authorization: the primary key decides the race.  The loser raises and
\* leaves neither a row nor a release of its hold.
ClaimAuthorization(d) ==
    /\ pc[d] = "spend"
    /\ IF key[d] \notin mutex
       THEN /\ mutex' = mutex \cup {key[d]}
            /\ Goto(d, "spent")
            /\ UNCHANGED localVars
       ELSE Return(d) /\ UNCHANGED mutex
    /\ UNCHANGED <<holdVars, spends, rows, runs, envVars>>

AppendSpend(k, entry) == spends' = [spends EXCEPT ![k] = Append(@, entry)]

ChainSpend(d) ==
    /\ pc[d] = "spent"
    /\ AppendSpend(key[d], SpendEntry(idem[d]))
    /\ Goto(d, "run")
    /\ UNCHANGED <<holdVars, mutex, rows, runs, envVars, localVars>>

\* Executor.execute: the action runs in the sandbox, or is refused unrun.
Run(d) ==
    /\ pc[d] = "run"
    /\ \/ Ends(d, "ran") /\ runs' = [runs EXCEPT ![key[d]] = @ + 1]
       \/ Ends(d, "refused") /\ UNCHANGED runs
    /\ UNCHANGED <<holdVars, mutex, spends, rows, envVars, verb, at, key, idem, list, cur, then, own>>

\* record_execution commits the row ...
RecordRow(d) ==
    /\ pc[d] = "row"
    /\ rows' = Append(rows, [hold |-> at[d], key |-> key[d],
                             executed |-> got[d] = "ran", receipt |-> FALSE])
    /\ own' = [own EXCEPT ![d] = Len(rows) + 1]
    /\ Goto(d, "receipt")
    /\ UNCHANGED <<holdVars, mutex, spends, runs, envVars, verb, at, key, idem, list, cur, then, got>>

\* Mutant of ChainReceipt: an unreadable target keeps the claim of its hold.
ReceiptKeepsUnread(d) ==
    /\ pc[d] = "receipt"
    /\ rows' = [rows EXCEPT ![own[d]].receipt = TRUE]
    /\ IF got[d] \in {"ran", "refused"}
       THEN /\ Goto(d, IF got[d] = "ran" THEN "complete" ELSE "release")
            /\ UNCHANGED localVars
       ELSE Return(d)
    /\ UNCHANGED <<holdVars, mutex, spends, runs, envVars>>

\* Mutant of ChainReceipt: a run that failed is settled like a refusal.
ReceiptReleasesRun(d) ==
    /\ pc[d] = "receipt"
    /\ rows' = [rows EXCEPT ![own[d]].receipt = TRUE]
    /\ IF got[d] \in {"ran", "refused", "unread"}
       THEN /\ Goto(d, IF got[d] = "unread" THEN "unclaim" ELSE "release")
            /\ UNCHANGED localVars
       ELSE Return(d)
    /\ UNCHANGED <<holdVars, mutex, spends, runs, envVars>>

\* ... and its outcome receipt is chained next.  What follows depends on what
\* the attempt came to.
ChainReceipt(d) ==
    /\ pc[d] = "receipt"
    /\ rows' = [rows EXCEPT ![own[d]].receipt = TRUE]
    /\ IF got[d] # "turned_away" /\ ~ RetainsClaim(got[d])
       THEN /\ Goto(d, CASE got[d] = "ran"     -> "complete"
                         [] got[d] = "refused" -> "release"
                         [] got[d] = "unread"  -> "unclaim")
            /\ UNCHANGED localVars
       ELSE Return(d)
    /\ UNCHANGED <<holdVars, mutex, spends, runs, envVars>>

\* Mutant of Complete: the mutex row is cleaned up once the run is recorded.
CompleteFreesKey(d) ==
    /\ pc[d] = "complete"
    /\ AppendSpend(key[d], CompletedEntry(own[d]))
    /\ mutex' = mutex \ {key[d]}
    /\ Return(d)
    /\ UNCHANGED <<holdVars, rows, runs, envVars>>

\* complete_authorization names the row; the key stays spent for good.
Complete(d) ==
    /\ pc[d] = "complete"
    /\ AppendSpend(key[d], CompletedEntry(own[d]))
    /\ Return(d)
    /\ UNCHANGED <<holdVars, mutex, rows, runs, envVars>>

\* release_authorization deletes the row of the mutex ...
ReleaseAuthorization(d) ==
    /\ pc[d] = "release"
    /\ mutex' = mutex \ {key[d]}
    /\ Goto(d, "retract")
    /\ UNCHANGED <<holdVars, spends, rows, runs, envVars, localVars>>

\* ... and then appends the retraction.
ChainRelease(d) ==
    /\ pc[d] = "retract"
    /\ AppendSpend(key[d], ReleaseEntry)
    /\ IF at[d] = None THEN Return(d) ELSE Goto(d, "unclaim") /\ UNCHANGED localVars
    /\ UNCHANGED <<holdVars, mutex, rows, runs, envVars>>

\* release_pending_execution keeps the approved hold eligible for a retry.
ReleaseHold(d) ==
    /\ pc[d] = "unclaim"
    /\ claim' = claim \ {at[d]}
    /\ Return(d)
    /\ UNCHANGED <<status, pin, ttl, held, observed, decided, spendVars, envVars>>

-----------------------------------------------------------------------------
(* The environment.                                                         *)

\* A call dies, or one of its appends raises: what it has committed stays.
Crash(d) ==
    /\ pc[d] # "idle"
    /\ crashes < MaxCrashes
    /\ crashes' = crashes + 1
    /\ Return(d)
    /\ UNCHANGED <<holdVars, spendVars, target, rotated, calls>>

Lapse(h) ==
    /\ status[h] \in {"pending", "approved"}
    /\ ttl[h] = "fresh"
    /\ ttl' = [ttl EXCEPT ![h] = "lapsed"]
    /\ UNCHANGED <<status, pin, claim, held, observed, decided, spendVars, envVars, callVars>>

MoveTarget(t) ==
    /\ t # target
    /\ target' = t
    /\ UNCHANGED <<holdVars, spendVars, rotated, calls, crashes, callVars>>

RotatePolicy ==
    /\ ~ rotated
    /\ MaxRotations = 1
    /\ rotated' = TRUE
    /\ UNCHANGED <<holdVars, spendVars, target, calls, crashes, callVars>>

-----------------------------------------------------------------------------
Step(d) ==
    \/ CreateHold(d) \/ BindHold(d)
    \/ Scan(d) \/ (\E h \in Holds : Visit(d, h)) \/ Visited(d) \/ EndScan(d)
    \/ ChainDecision(d) \/ Review(d) \/ RefuseApproval(d) \/ CompareBeforeApproval(d)
    \/ Resolve(d) \/ Pinned(d) \/ Recheck(d) \/ Settle(d) \/ ClaimHold(d) \/ Observe(d)
    \/ MarkStateMoved(d) \/ ClaimAuthorization(d) \/ ChainSpend(d) \/ Run(d)
    \/ RecordRow(d) \/ ChainReceipt(d) \/ Complete(d) \/ ReleaseAuthorization(d)
    \/ ChainRelease(d) \/ ReleaseHold(d)

Next ==
    \/ \E d \in Drivers :
         \/ \E h \in Holds : \/ SubmitRouted(d, h) \/ Approve(d, h)
                             \/ Reject(d, h) \/ RetryExecution(d, h)
         \/ \E k \in Keys : SubmitBlocked(d, k)
         \/ \E k \in AutoKeys, i \in IdemKeys : SubmitApproved(d, k, i)
         \/ Sweep(d) \/ InvalidateSuperseded(d) \/ Step(d) \/ Crash(d)
    \/ \E h \in Holds : Lapse(h)
    \/ \E t \in Targets : MoveTarget(t)
    \/ RotatePolicy

Spec == Init /\ [][Next]_vars

-----------------------------------------------------------------------------
(* Properties.                                                              *)

\* An authorization is used at most once, whatever mixture of submits, approvals
\* and retries, of one or several holds, presents it, and whatever crashes
\* (claim_authorization; "of any number of concurrent drivers ... exactly one").
RunsAtMostOnce == \A k \in Keys : runs[k] <= 1

\* The fold of the chain is the authority, so it must be right about the world:
\* while it reads unused nothing has run, and when it reads completed one
\* execution has run and the row it names is the receipted row of that run.
SpendStateTruthful ==
    \A k \in Keys :
        LET s == SpendState(spends[k])
        IN  /\ s.status \in {"unspent", "released"} => runs[k] = 0
            /\ s.status = "completed" =>
                  /\ runs[k] = 1
                  /\ s.row \in DOMAIN rows
                  /\ rows[s.row].key = k /\ rows[s.row].executed /\ rows[s.row].receipt

\* Nothing executes for a hold without a human approval that is on the chain,
\* and nothing takes an executed hold out of that state.  A hold whose target
\* moved after the approval never runs, not even when the target moves back
\* while an older retry is on its way (retry_decision, CLAIM_RETAINED_BY).
RunsOnRecordedApproval ==
    \A h \in Holds :
        (ExecutedUnder(h) \/ \E d \in Drivers : at[d] = h /\ pc[d] = "run")
            => h \in held /\ status[h] = "approved" /\ decided[h] = "approved"

\* A decision is never overwritten: a hold leaves pending once, and only an
\* approval can later be found stale (resolve_pending_action, mark_state_moved).
DecisionsAreFinal ==
    [][\A h \in Holds :
          status'[h] # status[h] =>
             \/ status[h] = "none" /\ status'[h] = "pending"
             \/ status[h] = "pending" /\ status'[h] \in Decisions \ {"state_moved"}
             \/ status[h] = "approved" /\ status'[h] = "state_moved"]_vars

\* A call that has the claim of its hold h and has still to settle it.
Settling(d, h) ==
    /\ at[d] = h
    /\ \/ pc[d] \in {"observe", "moved", "spend", "spent", "run", "complete", "release",
                      "retract", "unclaim"}
       \/ pc[d] \in {"row", "receipt"} /\ got[d] # "turned_away"
       \/ pc[d] = "chain" /\ then[d] = "row"

\* Claims that nothing explains: no call is settling the hold, its target has not
\* moved, its authorization is not spent, and no other attempt with that
\* authorization is on record, to which its call could have lost it.
Stranded ==
    {h \in claim : /\ \A d \in Drivers : ~ Settling(d, h)
                   /\ status[h] # "state_moved"
                   /\ KeyOf[h] \notin mutex
                   /\ \A n \in DOMAIN rows : rows[n].key = KeyOf[h] => rows[n].hold = h}

\* A refusal without a side effect gives the claim of its hold back, so that the
\* approved hold "stays retry-eligible" (controller.py).  What keeps it is an
\* authorization that stays spent, a target that moved, a race for the
\* authorization that another hold or a submission won, or a call that died: one
\* claim for each of those, whatever the other drivers do.
ClaimMeansOutcome == Cardinality(Stranded) <= crashes

\* What spend.py says of its transition table: anything it does not permit "is
\* a history that cannot have happened".
SpendHistoryFolds == \A k \in Keys : SpendState(spends[k]).status # "malformed"

\* Scheduling: a call that has begun goes on, and every driver sweeps again and
\* again (list_pending, approve and every start of a controller do).
Fairness == \A d \in Drivers : WF_vars(Step(d)) /\ WF_vars(Sweep(d))

FairSpec == Spec /\ Fairness

\* A row that differs from the chain, with nobody left to append what is missing:
\* the call that wrote it died, or its append failed, between the two commits.  It
\* has no pending.hold entry, or the chain still has its approval for the last word.
Unchained(h) ==
    \/ /\ status[h] # "none" /\ h \notin held
       /\ \A d \in Drivers : ~ (at[d] = h /\ pc[d] = "bind")
    \/ /\ decided[h] \notin {"none", status[h]}
       /\ \A d \in Drivers : ~ (cur[d] = h /\ pc[d] = "chain")

\* A lapsed hold does not stay approvable for ever: some sweep expires it unless
\* somebody decides it first, whatever call dies on the way.  The one thing that
\* stops every sweep is a row of some hold that the chain does not bear out; that
\* hold pending.py expects the TTL to expire.
LapsedHoldsExpire ==
    \A h \in Holds :
        (status[h] = "pending" /\ ttl[h] = "lapsed")
            ~> (status[h] # "pending" \/ \E g \in Holds : Unchained(g))
=============================================================================
