--------------------------- MODULE MigrationRunner ---------------------------
(***************************************************************************)
(* The brokered migration runner of chokepoint/runner.py: the cross-process *)
(* execution guard, crash reconciliation, the single-use approval store,    *)
(* the audit intent and outcome, and the PostgreSQL transaction that        *)
(* commits the migration together with its receipt.                         *)
(*                                                                         *)
(* Abstractions.                                                           *)
(*  - One target.  Approvals are already signed for it and for their own    *)
(*    artifact, so an approval stands for its nonce and for its             *)
(*    execution_id (a hash of nonce, artifact and target).                  *)
(*  - Only the ledger events that reconciliation reads are kept: intents,   *)
(*    outcomes and unknowns.  The "refuse" entries are never read back.     *)
(*  - A ledger is a sequence, so an entry's index is its seq.               *)
(*  - The two clocks of an ExecutionDeadline are reduced to the validity of *)
(*    the approval; module ExecutionDeadline has the clocks themselves.     *)
(*  - Every failure (a crash, a lost reply, a failed append) spends one     *)
(*    unit of the budget MaxFaults.                                         *)
(***************************************************************************)
EXTENDS Naturals, Sequences

CONSTANTS
    Runners,      \* runner processes
    Approvals,    \* signed single-use approvals, by nonce
    HostOf,       \* the host each runner process lives on
    Assertions,   \* the values of assume_owner_dead that callers pass
    None,         \* "no approval": a reconcile_unfinished call
    Aging,        \* the approvals that may expire during a run
    MaxInode,     \* how often the approval store file may be replaced
    MaxFaults     \* how many failures may happen

ASSUME ConstantsAssumption ==
    /\ None \notin Approvals
    /\ Assertions \subseteq BOOLEAN
    /\ HostOf \in [Runners -> {HostOf[r] : r \in Runners}]
    /\ Aging \subseteq Approvals
    /\ MaxInode \in Nat
    /\ MaxFaults \in Nat

Hosts  == {HostOf[r] : r \in Runners}
Inodes == 0..MaxInode
Keys   == Approvals \X Inodes    \* one successful claim per store file and nonce

VARIABLES
    pc,        \* where each runner process is
    job,       \* the approval its call executes, or None
    force,     \* reconcile_unfinished(assume_owner_dead=True)
    late,      \* the stage in which the call's deadline passed, or "no"
    todo,      \* the unsettled intents its reconciliation has still to visit
    blocked,   \* an intent of the call's reconciliation stayed unresolved
    res,       \* receipt state or executor result at hand
    mine,      \* seq of the intent the call recorded, 0 before
    guard,     \* the runners that hold the flock of their store file
    store,     \* the store file (inode) each runner process opened
    inode,     \* the store file now at approval_store_path
    boot,      \* boot id of each host
    spent,     \* consumed nonces of each store file
    validity,  \* of each approval: current, inside the clock margin, expired
    ledger,    \* the audit chain, shared by all runners
    sess,      \* server side of each executor connection
    receipts,  \* committed rows of promethyn_internal.migration_receipts
    applied,   \* how often each approval's migration has committed
    faults     \* failures so far

callVars == <<pc, job, force, late, todo, blocked, res, mine>>
hostVars == <<guard, store, inode, boot, spent, validity>>
dbVars   == <<sess, receipts, applied>>
vars     == <<callVars, hostVars, dbVars, ledger, faults>>

-----------------------------------------------------------------------------
(* Types.                                                                   *)

\* The phases of a call that owns the execution guard, in the order of the code.
Reconciling == {"read", "recon", "settle", "admit1"}
Spent       == {"intent", "admit3", "connect", "dblock", "receipt", "sql",
                "commit", "ack", "record"}
Owning      == Reconciling \cup {"claim"} \cup Spent
Phases      == {"dead", "idle", "guard"} \cup Owning
\* From the durable intent on, a call is the owner the intent names.
Attending   == Spent \ {"intent"}

\* The stages of a call that its deadline can pass in, by the boundary it meets
\* next: F7 phase 1 before the nonce is claimed, phase 2 before the intent, phase 3
\* before the executor, 2a before the connection, 2b before the SQL, and none.
Stages == {"reconciling", "spending", "recording", "connecting", "locking", "running"}
Stage(phase) ==
    CASE phase \in {"guard"} \cup Reconciling -> "reconciling"
      [] phase \in {"claim", "intent"}       -> "spending"
      [] phase = "admit3"                    -> "recording"
      [] phase = "connect"                   -> "connecting"
      [] phase = "dblock"                    -> "locking"
      [] OTHER                               -> "running"

Terminal == {"committed", "not_committed"}
Outcomes == Terminal \cup {"not_attempted", "unknown"}
Receipts == {"committed", "not_found", "in_progress", "unavailable"}

Entry == [ev : {"intent", "outcome"}, appr : Approvals, of : Nat,
          st : Outcomes \cup {"none"}, bound : BOOLEAN,
          host : Hosts, boot : Nat, lock : Inodes]

\* A connection: asking for the session advisory lock of its execution_id,
\* holding it, inside the migration transaction, COMMIT sent, committed and
\* still open, and closed with or without having committed.
SessionStates == {"none", "waiting", "locked", "migrating", "committing",
                  "durable", "committed", "aborted"}
HoldsLock     == {"locked", "migrating", "committing", "durable"}
CanCommit     == {"migrating", "committing"}
DidCommit     == {"durable", "committed"}

TypeOK ==
    /\ pc \in [Runners -> Phases]
    /\ job \in [Runners -> Approvals \cup {None}]
    /\ force \in [Runners -> BOOLEAN]
    /\ late \in [Runners -> {"no"} \cup Stages]
    /\ todo \in [Runners -> SUBSET Nat]
    /\ blocked \in [Runners -> BOOLEAN]
    /\ res \in [Runners -> {"none"} \cup Outcomes \cup Receipts]
    /\ mine \in [Runners -> Nat]
    /\ guard \subseteq Runners
    /\ store \in [Runners -> Inodes]
    /\ inode \in Inodes
    /\ boot \in [Hosts -> Nat]
    /\ spent \in [Inodes -> SUBSET Approvals]
    /\ validity \in [Approvals -> {"current", "margin", "expired"}]
    /\ ledger \in Seq(Entry)
    /\ sess \in [Keys -> SessionStates]
    /\ receipts \subseteq Approvals
    /\ applied \in [Approvals -> Nat]
    /\ faults \in 0..MaxFaults

Init ==
    /\ pc = [r \in Runners |-> "idle"]
    /\ job = [r \in Runners |-> None]
    /\ force = [r \in Runners |-> FALSE]
    /\ late = [r \in Runners |-> "no"]
    /\ todo = [r \in Runners |-> {}]
    /\ blocked = [r \in Runners |-> FALSE]
    /\ res = [r \in Runners |-> "none"]
    /\ mine = [r \in Runners |-> 0]
    /\ guard = {}
    /\ store = [r \in Runners |-> 0]
    /\ inode = 0
    /\ boot = [h \in Hosts |-> 0]
    /\ spent = [i \in Inodes |-> {}]
    /\ validity = [p \in Approvals |-> "current"]
    /\ ledger = <<>>
    /\ sess = [k \in Keys |-> "none"]
    /\ receipts = {}
    /\ applied = [p \in Approvals |-> 0]
    /\ faults = 0

-----------------------------------------------------------------------------
(* Helpers.                                                                 *)

Key(r) == <<job[r], store[r]>>

\* One failure, out of the budget.
Fault == faults < MaxFaults /\ faults' = faults + 1

\* deadline.admit(): neither clock arm is reached and the margin is left.
Admitted(r) == late[r] = "no"

Goto(r, phase) == pc' = [pc EXCEPT ![r] = phase]

\* Mutant of Return: execution_guard's finally forgets to release the lock.
ReturnKeepsGuard(r) ==
    /\ Goto(r, "idle")
    /\ job' = [job EXCEPT ![r] = None]
    /\ force' = [force EXCEPT ![r] = FALSE]
    /\ late' = [late EXCEPT ![r] = "no"]
    /\ todo' = [todo EXCEPT ![r] = {}]
    /\ blocked' = [blocked EXCEPT ![r] = FALSE]
    /\ res' = [res EXCEPT ![r] = "none"]
    /\ mine' = [mine EXCEPT ![r] = 0]
    /\ guard' = guard

\* The call returns to its caller: execution_guard's finally releases the lock
\* and every local of the call is gone.
Return(r) ==
    /\ Goto(r, "idle")
    /\ job' = [job EXCEPT ![r] = None]
    /\ force' = [force EXCEPT ![r] = FALSE]
    /\ late' = [late EXCEPT ![r] = "no"]
    /\ todo' = [todo EXCEPT ![r] = {}]
    /\ blocked' = [blocked EXCEPT ![r] = FALSE]
    /\ res' = [res EXCEPT ![r] = "none"]
    /\ mine' = [mine EXCEPT ![r] = 0]
    /\ guard' = guard \ {r}

\* One synchronous audit append (_record).  It is reported recorded and is in
\* the chain; or it fails and is not; or the row commits and the anchor write
\* after it fails, which is reported as a failed append of a row that stays.
Record(entry, reported) ==
    \/ reported = TRUE /\ ledger' = Append(ledger, entry) /\ UNCHANGED faults
    \/ reported = FALSE /\ ledger' = ledger /\ Fault
    \/ reported = FALSE /\ ledger' = Append(ledger, entry) /\ Fault

IntentEntry(r) ==
    [ev |-> "intent", appr |-> job[r], of |-> 0, st |-> "none", bound |-> TRUE,
     host |-> HostOf[r], boot |-> boot[HostOf[r]], lock |-> store[r]]

OutcomeEntry(r, p, i, st, bound) ==
    [ev |-> "outcome", appr |-> p, of |-> i, st |-> st, bound |-> bound,
     host |-> HostOf[r], boot |-> boot[HostOf[r]], lock |-> store[r]]

\* Whether entry k of the chain resolves intent i, as _reconcile_owned reads it:
\* a proven outcome, later than the intent, that carries the target and the
\* artifact and names the intent by execution_id or by seq.
Settles(log, i, k) ==
    /\ log[k].ev = "outcome"
    /\ log[k].st \in Terminal
    /\ log[k].bound
    /\ k > i
    /\ log[k].appr = log[i].appr \/ log[k].of = i

Unsettled(log) ==
    {i \in DOMAIN log : /\ log[i].ev = "intent"
                        /\ \A k \in DOMAIN log : ~ Settles(log, i, k)}

\* Mutant of Established: the lock is taken as proof across hosts.
EstablishedAnywhere(r, i) ==
    ledger[i].boot = boot[HostOf[r]] => ledger[i].lock = store[r]

\* assess_owner: this runner's exclusive lock shows that the owner an intent
\* names is gone when the owner ran on this kernel and held this very lock, or
\* when this machine has rebooted since.
Established(r, i) ==
    /\ ledger[i].host = HostOf[r]
    /\ ledger[i].boot = boot[HostOf[r]] => ledger[i].lock = store[r]

IntentKey(i) == <<ledger[i].appr, ledger[i].lock>>

\* Some process is still inside the call that recorded the intent of key k.
Attended(k) == \E r \in Runners : pc[r] \in Attending /\ Key(r) = k

-----------------------------------------------------------------------------
(* Calls into the runner.                                                   *)

\* execute(): ApprovalAuthority.verify refuses an expired approval before
\* anything else happens; inside the clock margin it still verifies.
Execute(r, p) ==
    /\ pc[r] = "idle"
    /\ validity[p] # "expired"
    /\ Goto(r, "guard")
    /\ job' = [job EXCEPT ![r] = p]
    /\ late' = [late EXCEPT ![r] = IF validity[p] = "current" THEN "no" ELSE "reconciling"]
    /\ UNCHANGED <<force, todo, blocked, res, mine, hostVars, dbVars, ledger, faults>>

\* reconcile_unfinished(assume_owner_dead=f).
Reconcile(r, f) ==
    /\ pc[r] = "idle"
    /\ Goto(r, "guard")
    /\ force' = [force EXCEPT ![r] = f]
    /\ UNCHANGED <<job, late, todo, blocked, res, mine, hostVars, dbVars, ledger, faults>>

-----------------------------------------------------------------------------
(* Under the execution guard.                                               *)

\* execution_guard: the descriptor must still be the file at the path, and the
\* nonblocking flock is per host and inode.  Otherwise the call is refused with
\* the approval unspent.
Acquire(r) ==
    /\ pc[r] = "guard"
    /\ IF /\ store[r] = inode
          /\ \A q \in guard : HostOf[q] = HostOf[r] => store[q] # store[r]
       THEN /\ guard' = guard \cup {r}
            /\ Goto(r, "read")
            /\ UNCHANGED <<job, force, late, todo, blocked, res, mine>>
       ELSE Return(r)
    /\ UNCHANGED <<store, inode, boot, spent, validity, dbVars, ledger, faults>>

\* verify_chain and chained_events: one snapshot of the chain, or none.
ReadLedger(r) ==
    /\ pc[r] = "read"
    /\ Goto(r, "recon")
    /\ \/ /\ todo' = [todo EXCEPT ![r] = Unsettled(ledger)]
          /\ UNCHANGED <<blocked, faults>>
       \/ /\ blocked' = [blocked EXCEPT ![r] = TRUE]
          /\ Fault
          /\ UNCHANGED todo
    /\ UNCHANGED <<job, force, late, res, mine, hostVars, dbVars, ledger>>

Next_(r, i) == i \in todo[r] /\ \A j \in todo[r] : i <= j

\* An intent whose owner cannot be placed stays pending (owner_unverifiable).
SkipForeign(r) ==
    /\ pc[r] = "recon"
    /\ \E i \in todo[r] :
        /\ Next_(r, i)
        /\ ~ Established(r, i)
        /\ ~ force[r]
        /\ todo' = [todo EXCEPT ![r] = @ \ {i}]
    /\ blocked' = [blocked EXCEPT ![r] = TRUE]
    /\ UNCHANGED <<pc, job, force, late, res, mine, hostVars, dbVars, ledger, faults>>

\* Mutant of LookupReceipt: the lookup reads the receipt without the session
\* lock, so an orphaned transaction reads as absence.
LookupWithoutLock(r) ==
    /\ pc[r] = "recon"
    /\ \E i \in todo[r] :
        /\ Next_(r, i)
        /\ Established(r, i) \/ (force[r] /\ ~ Attended(IntentKey(i)))
        /\ res' = [res EXCEPT ![r] =
                     IF ledger[i].appr \in receipts THEN "committed" ELSE "not_found"]
    /\ Goto(r, "settle")
    /\ UNCHANGED <<job, force, late, todo, blocked, mine, hostVars, dbVars, ledger, faults>>

\* postgres_receipt_lookup: a held session lock of the execution_id is reported
\* as in_progress, never as absence.  The operator's assumption, where it is
\* what lets the lookup run, is true of the intent it is applied to.
LookupReceipt(r) ==
    /\ pc[r] = "recon"
    /\ \E i \in todo[r] :
        /\ Next_(r, i)
        /\ Established(r, i) \/ (force[r] /\ ~ Attended(IntentKey(i)))
        /\ LET p == ledger[i].appr
               held == \E n \in Inodes : sess[<<p, n>>] \in HoldsLock
           IN  \/ /\ res' = [res EXCEPT ![r] =
                               IF held THEN "in_progress"
                               ELSE IF p \in receipts THEN "committed"
                               ELSE "not_found"]
                  /\ UNCHANGED faults
               \/ /\ res' = [res EXCEPT ![r] = "unavailable"]
                  /\ Fault
    /\ Goto(r, "settle")
    /\ UNCHANGED <<job, force, late, todo, blocked, mine, hostVars, dbVars, ledger>>

\* Mutant of SettleIntent: the receipt state is recorded as it is read.
SettleVerbatim(r) ==
    /\ pc[r] = "settle"
    /\ Goto(r, "recon")
    /\ res' = [res EXCEPT ![r] = "none"]
    /\ \E i \in todo[r] :
        /\ Next_(r, i)
        /\ todo' = [todo EXCEPT ![r] = @ \ {i}]
        /\ Record(OutcomeEntry(r, ledger[i].appr, i, res[r], TRUE), TRUE)
    /\ UNCHANGED <<job, force, late, blocked, mine, hostVars, dbVars>>

\* Mutant of SettleIntent: an execution still in progress does not block.
SettleInProgress(r) ==
    /\ pc[r] = "settle"
    /\ Goto(r, "recon")
    /\ res' = [res EXCEPT ![r] = "none"]
    /\ \E i \in todo[r] :
        /\ Next_(r, i)
        /\ todo' = [todo EXCEPT ![r] = @ \ {i}]
        /\ IF res[r] \in {"committed", "not_found"}
           THEN LET st == IF res[r] = "committed" THEN "committed" ELSE "not_committed"
                IN  Record(OutcomeEntry(r, ledger[i].appr, i, st, TRUE), TRUE)
           ELSE UNCHANGED <<ledger, faults>>
    /\ UNCHANGED <<job, force, late, blocked, mine, hostVars, dbVars>>

\* A receipt, or its proven absence, is appended as the intent's outcome.
SettleIntent(r) ==
    /\ pc[r] = "settle"
    /\ Goto(r, "recon")
    /\ res' = [res EXCEPT ![r] = "none"]
    /\ \E i \in todo[r] :
        /\ Next_(r, i)
        /\ todo' = [todo EXCEPT ![r] = @ \ {i}]
        /\ IF res[r] \in {"committed", "not_found"}
           THEN LET st == IF res[r] = "committed" THEN "committed" ELSE "not_committed"
                IN  \E ok \in BOOLEAN :
                      /\ Record(OutcomeEntry(r, ledger[i].appr, i, st, TRUE), ok)
                      /\ blocked' = [blocked EXCEPT ![r] = @ \/ ~ ok]
           ELSE /\ blocked' = [blocked EXCEPT ![r] = TRUE]
                /\ UNCHANGED <<ledger, faults>>
    /\ UNCHANGED <<job, force, late, mine, hostVars, dbVars>>

\* Mutant of EndReconcile: execute goes on over an unresolved intent.
EndReconcileUnblocked(r) ==
    /\ pc[r] = "recon"
    /\ todo[r] = {}
    /\ IF job[r] = None
       THEN Return(r)
       ELSE Goto(r, "admit1") /\ UNCHANGED <<job, force, late, todo, blocked, res, mine, guard>>
    /\ UNCHANGED <<store, inode, boot, spent, validity, dbVars, ledger, faults>>

\* The loop is over: reconcile_unfinished returns its results, execute refuses
\* while anything is unresolved and goes on otherwise.
EndReconcile(r) ==
    /\ pc[r] = "recon"
    /\ todo[r] = {}
    /\ IF job[r] = None \/ blocked[r]
       THEN Return(r)
       ELSE Goto(r, "admit1") /\ UNCHANGED <<job, force, late, todo, blocked, res, mine, guard>>
    /\ UNCHANGED <<store, inode, boot, spent, validity, dbVars, ledger, faults>>

-----------------------------------------------------------------------------
(* Spending the approval and recording the intent.                          *)

\* F7 phase 1: an approval that lapsed during reconciliation is refused unspent.
AdmitSpend(r) ==
    /\ pc[r] = "admit1"
    /\ IF Admitted(r)
       THEN Goto(r, "claim") /\ UNCHANGED <<job, force, late, todo, blocked, res, mine, guard>>
       ELSE Return(r)
    /\ UNCHANGED <<store, inode, boot, spent, validity, dbVars, ledger, faults>>

\* ConsumedApprovals.claim, after a wait for the store that the approval may not
\* outlive: a primary key decides the race, a spent nonce is a replay, and a failing
\* store refuses whether or not its commit reached the disk.
Claim(r) ==
    /\ pc[r] = "claim"
    /\ \/ /\ job[r] \notin spent[store[r]]
          /\ spent' = [spent EXCEPT ![store[r]] = @ \cup {job[r]}]
          /\ Goto(r, "intent")
          /\ UNCHANGED <<job, force, late, todo, blocked, res, mine, guard, faults>>
       \/ /\ job[r] \in spent[store[r]]
          /\ Return(r)
          /\ UNCHANGED <<spent, faults>>
       \/ /\ \/ spent' = spent
             \/ spent' = [spent EXCEPT ![store[r]] = @ \cup {job[r]}]
          /\ Return(r)
          /\ Fault
    /\ UNCHANGED <<store, inode, boot, validity, dbVars, ledger>>

\* Mutant of RecordIntent: a failed append does not stop the execution.
RecordIntentBestEffort(r) ==
    /\ pc[r] = "intent"
    /\ IF Admitted(r)
       THEN /\ \E ok \in BOOLEAN : Record(IntentEntry(r), ok)
            /\ Goto(r, "admit3")
            /\ mine' = [mine EXCEPT ![r] = Len(ledger) + 1]
            /\ UNCHANGED <<job, force, late, todo, blocked, res, guard>>
       ELSE Return(r) /\ UNCHANGED <<ledger, faults>>
    /\ UNCHANGED <<store, inode, boot, spent, validity, dbVars>>

\* F7 phase 2, then the durable intent.  An approval that lapses between the two is
\* met by phase 3, like one that lapses after them.  A failed append refuses with the
\* nonce spent, although the row may be there.
RecordIntent(r) ==
    /\ pc[r] = "intent"
    /\ IF Admitted(r)
       THEN \E ok \in BOOLEAN :
              /\ Record(IntentEntry(r), ok)
              /\ IF ok THEN /\ Goto(r, "admit3")
                            /\ mine' = [mine EXCEPT ![r] = Len(ledger) + 1]
                            /\ UNCHANGED <<job, force, late, todo, blocked, res, guard>>
                       ELSE Return(r)
       ELSE Return(r) /\ UNCHANGED <<ledger, faults>>
    /\ UNCHANGED <<store, inode, boot, spent, validity, dbVars>>

\* F7 phase 3: an approval that lapsed while the intent was made durable gets a
\* linked outcome, which carries neither the target nor the artifact.
AdmitExecutor(r) ==
    /\ pc[r] = "admit3"
    /\ IF Admitted(r)
       THEN /\ Goto(r, "connect")
            /\ UNCHANGED <<job, force, late, todo, blocked, res, mine, guard, ledger, faults>>
       ELSE /\ \E ok \in BOOLEAN :
                 Record(OutcomeEntry(r, job[r], mine[r], "not_attempted", FALSE), ok)
            /\ Return(r)
    /\ UNCHANGED <<store, inode, boot, spent, validity, dbVars>>

-----------------------------------------------------------------------------
(* postgres_executor, its client side.                                      *)

Finish(r, state) ==
    /\ Goto(r, "record")
    /\ res' = [res EXCEPT ![r] = state]

SessionBecomes(k, state) == sess' = [sess EXCEPT ![k] = state]

\* Transaction control in the artifact never reaches the database (what an
\* artifact holds is left open: any execution may meet this refusal).  Boundary
\* 2a then refuses an expired approval before a connection exists.
Connect(r) ==
    /\ pc[r] = "connect"
    /\ \/ /\ Finish(r, "not_committed")
          /\ UNCHANGED <<sess, faults>>
       \/ /\ ~ Admitted(r)
          /\ Finish(r, "not_attempted")
          /\ UNCHANGED <<sess, faults>>
       \/ /\ Admitted(r)
          /\ SessionBecomes(Key(r), "waiting")
          /\ Goto(r, "dblock")
          /\ UNCHANGED <<res, faults>>
       \/ /\ Admitted(r)
          /\ Finish(r, "unknown")
          /\ Fault
          /\ UNCHANGED sess
    /\ UNCHANGED <<job, force, late, todo, blocked, mine, hostVars, receipts, applied, ledger>>

\* Mutant of Locked: no admission after the blocking locks (boundary 2b).
LockedUnchecked(r) ==
    /\ pc[r] = "dblock"
    /\ sess[Key(r)] = "locked"
    /\ Goto(r, "receipt")
    /\ UNCHANGED <<job, force, late, todo, blocked, res, mine, hostVars, dbVars,
                   ledger, faults>>

\* Boundary 2b, once both blocking locks are held.  Leaving the connection's
\* context closes the session, which releases its lock.
Locked(r) ==
    /\ pc[r] = "dblock"
    /\ sess[Key(r)] = "locked"
    /\ IF Admitted(r)
       THEN Goto(r, "receipt") /\ UNCHANGED <<sess, res>>
       ELSE SessionBecomes(Key(r), "aborted") /\ Finish(r, "not_attempted")
    /\ UNCHANGED <<job, force, late, todo, blocked, mine, hostVars, receipts, applied,
                   ledger, faults>>

\* The receipt check that makes a second execution of one execution_id a no-op.
CheckReceipt(r) ==
    /\ pc[r] = "receipt"
    /\ sess[Key(r)] = "locked"
    /\ IF job[r] \in receipts
       THEN SessionBecomes(Key(r), "aborted") /\ Finish(r, "committed")
       ELSE Goto(r, "sql") /\ UNCHANGED <<sess, res>>
    /\ UNCHANGED <<job, force, late, todo, blocked, mine, hostVars, receipts, applied,
                   ledger, faults>>

\* The artifact and the receipt insert, in one transaction.  An error or the
\* watchdog's cancel is not_committed only after an acknowledged rollback.
RunSql(r) ==
    /\ pc[r] = "sql"
    /\ sess[Key(r)] = "locked"
    /\ \/ /\ SessionBecomes(Key(r), "migrating")
          /\ Goto(r, "commit")
          /\ UNCHANGED <<res, faults>>
       \/ /\ SessionBecomes(Key(r), "aborted")
          /\ Finish(r, "not_committed")
          /\ UNCHANGED faults
       \/ /\ SessionBecomes(Key(r), "migrating")
          /\ Finish(r, "unknown")
          /\ Fault
    /\ UNCHANGED <<job, force, late, todo, blocked, mine, hostVars, receipts, applied, ledger>>

SendCommit(r) ==
    /\ pc[r] = "commit"
    /\ sess[Key(r)] = "migrating"
    /\ SessionBecomes(Key(r), "committing")
    /\ Goto(r, "ack")
    /\ UNCHANGED <<job, force, late, todo, blocked, res, mine, hostVars, receipts, applied,
                   ledger, faults>>

\* An acknowledged commit is terminal; an error from COMMIT proves nothing.
ReadCommit(r) ==
    /\ pc[r] = "ack"
    /\ \/ /\ sess[Key(r)] = "durable"
          /\ SessionBecomes(Key(r), "committed")
          /\ Finish(r, "committed")
       \/ /\ sess[Key(r)] = "aborted"
          /\ Finish(r, "unknown")
          /\ UNCHANGED sess
    /\ UNCHANGED <<job, force, late, todo, blocked, mine, hostVars, receipts, applied,
                   ledger, faults>>

\* Mutant of LoseConnection: a lost connection is taken for a rollback.
LoseConnectionRolledBack(r) ==
    /\ pc[r] \in {"dblock", "receipt", "sql", "commit", "ack"}
    /\ Finish(r, "not_committed")
    /\ Fault
    /\ UNCHANGED <<job, force, late, todo, blocked, mine, hostVars, dbVars, ledger>>

\* Any psycopg.Error between the connect and the acknowledgement: a lock
\* timeout, a broken connection, a lost reply.
LoseConnection(r) ==
    /\ pc[r] \in {"dblock", "receipt", "sql", "commit", "ack"}
    /\ Finish(r, "unknown")
    /\ Fault
    /\ UNCHANGED <<job, force, late, todo, blocked, mine, hostVars, dbVars, ledger>>

\* The outcome, or a nonterminal execute_unknown, linked to the intent.
RecordOutcome(r) ==
    /\ pc[r] = "record"
    /\ \E ok \in BOOLEAN :
         Record(OutcomeEntry(r, job[r], mine[r], res[r], TRUE), ok)
    /\ Return(r)
    /\ UNCHANGED <<store, inode, boot, spent, validity, dbVars>>

-----------------------------------------------------------------------------
(* The database server.                                                     *)

\* pg_advisory_lock(execution_id) is granted to one session at a time.
GrantLock(k) ==
    /\ sess[k] = "waiting"
    /\ \A n \in Inodes : sess[<<k[1], n>>] \notin HoldsLock
    /\ SessionBecomes(k, "locked")
    /\ UNCHANGED <<callVars, hostVars, receipts, applied, ledger, faults>>

\* Mutant of ServerCommit: the receipt is not part of the transaction.
ServerCommitWithoutReceipt(k) ==
    /\ sess[k] = "committing"
    /\ SessionBecomes(k, "durable")
    /\ applied' = [applied EXCEPT ![k[1]] = @ + 1]
    /\ UNCHANGED <<callVars, hostVars, receipts, ledger, faults>>

\* COMMIT makes the migration and its receipt durable together.
ServerCommit(k) ==
    /\ sess[k] = "committing"
    /\ SessionBecomes(k, "durable")
    /\ receipts' = receipts \cup {k[1]}
    /\ applied' = [applied EXCEPT ![k[1]] = @ + 1]
    /\ UNCHANGED <<callVars, hostVars, ledger, faults>>

\* The server fails the commit and closes the session.
ServerAbort(k) ==
    /\ sess[k] = "committing"
    /\ Fault
    /\ SessionBecomes(k, "aborted")
    /\ UNCHANGED <<callVars, hostVars, receipts, applied, ledger>>

\* A session whose client is gone ends: an open transaction rolls back.
ServerClose(k) ==
    /\ ~ \E r \in Runners : Key(r) = k /\ pc[r] \in {"dblock", "receipt", "sql", "commit", "ack"}
    /\ \/ sess[k] \in {"waiting", "locked", "migrating"} /\ SessionBecomes(k, "aborted")
       \/ sess[k] = "durable" /\ SessionBecomes(k, "committed")
    /\ UNCHANGED <<callVars, hostVars, receipts, applied, ledger, faults>>

-----------------------------------------------------------------------------
(* Time, processes and machines.                                            *)

\* An approval ages; the call in progress notes the stage it is in.
Age(p) ==
    /\ validity[p] # "expired"
    /\ validity' = [validity EXCEPT ![p] = IF @ = "current" THEN "margin" ELSE "expired"]
    /\ late' = [r \in Runners |->
                  IF job[r] = p /\ late[r] = "no" THEN Stage(pc[r]) ELSE late[r]]
    /\ UNCHANGED <<pc, job, force, todo, blocked, res, mine, guard, store, inode, boot,
                   spent, dbVars, ledger, faults>>

\* The locals of every runner of the set die with it; the kernel drops its flock.
Kill(dead) ==
    /\ pc' = [r \in Runners |-> IF r \in dead THEN "dead" ELSE pc[r]]
    /\ job' = [r \in Runners |-> IF r \in dead THEN None ELSE job[r]]
    /\ force' = [r \in Runners |-> IF r \in dead THEN FALSE ELSE force[r]]
    /\ late' = [r \in Runners |-> IF r \in dead THEN "no" ELSE late[r]]
    /\ todo' = [r \in Runners |-> IF r \in dead THEN {} ELSE todo[r]]
    /\ blocked' = [r \in Runners |-> IF r \in dead THEN FALSE ELSE blocked[r]]
    /\ res' = [r \in Runners |-> IF r \in dead THEN "none" ELSE res[r]]
    /\ mine' = [r \in Runners |-> IF r \in dead THEN 0 ELSE mine[r]]
    /\ guard' = guard \ dead

\* A process dies inside a call.
Crash(r) ==
    /\ pc[r] \notin {"dead", "idle"}
    /\ Kill({r})
    /\ Fault
    /\ UNCHANGED <<store, inode, boot, spent, validity, dbVars, ledger>>

Reboot(h) ==
    /\ Kill({r \in Runners : HostOf[r] = h})
    /\ boot' = [boot EXCEPT ![h] = @ + 1]
    /\ Fault
    /\ UNCHANGED <<store, inode, spent, validity, dbVars, ledger>>

\* A new process takes the place of a dead or an idle one and opens whatever
\* file is at the path.
Restart(r) ==
    /\ pc[r] \in {"dead", "idle"}
    /\ Goto(r, "idle")
    /\ store' = [store EXCEPT ![r] = inode]
    /\ UNCHANGED <<job, force, late, todo, blocked, res, mine, guard, inode, boot, spent,
                   validity, dbVars, ledger, faults>>

\* The store is copied to a new file under runners that keep the old one open.
ReplaceStore ==
    /\ inode < MaxInode
    /\ inode' = inode + 1
    /\ spent' = [spent EXCEPT ![inode + 1] = spent[inode]]
    /\ UNCHANGED <<callVars, guard, store, boot, validity, dbVars, ledger, faults>>

-----------------------------------------------------------------------------
Step(r) ==
    \/ Acquire(r) \/ ReadLedger(r) \/ SkipForeign(r) \/ LookupReceipt(r)
    \/ SettleIntent(r) \/ EndReconcile(r) \/ AdmitSpend(r) \/ Claim(r) \/ RecordIntent(r)
    \/ AdmitExecutor(r) \/ Connect(r) \/ Locked(r) \/ CheckReceipt(r)
    \/ RunSql(r) \/ SendCommit(r) \/ ReadCommit(r) \/ RecordOutcome(r)

Server(k) == GrantLock(k) \/ ServerCommit(k) \/ ServerAbort(k) \/ ServerClose(k)

Next ==
    \/ \E r \in Runners :
         \/ \E p \in Approvals : Execute(r, p)
         \/ \E f \in Assertions : Reconcile(r, f)
         \/ Step(r) \/ LoseConnection(r) \/ Crash(r) \/ Restart(r)
    \/ \E k \in Keys : Server(k)
    \/ \E p \in Aging : Age(p)
    \/ \E h \in Hosts : Reboot(h)
    \/ ReplaceStore

Spec == Init /\ [][Next]_vars

-----------------------------------------------------------------------------
(* Properties.                                                              *)

\* However often an approval is presented, to however many runners, hosts and
\* copies of the store, and whatever fails, its migration commits at most once
\* and its receipt says whether it did (postgres_executor).
AppliedAtMostOnce ==
    \A p \in Approvals : applied[p] = IF p \in receipts THEN 1 ELSE 0

\* The audit chain tells the truth about the database: a recorded committed
\* has a receipt, and a recorded not_committed or not_attempted belongs to an
\* intent whose transaction has not committed and can no longer do so.
OutcomesTruthful ==
    \A k \in DOMAIN ledger :
        ledger[k].ev = "outcome" =>
            /\ ledger[k].st = "committed" => ledger[k].appr \in receipts
            /\ ledger[k].st \in {"not_committed", "not_attempted"} =>
                  sess[IntentKey(ledger[k].of)] \notin CanCommit \cup DidCommit

\* As long as the store file is not replaced, not_committed is final for the
\* approval itself: no other runner can have applied it.
NotCommittedIsFinal ==
    inode = 0 => \A k \in DOMAIN ledger :
        (ledger[k].ev = "outcome" /\ ledger[k].st \in {"not_committed", "not_attempted"})
            => ledger[k].appr \notin receipts

\* A call that has spent its approval has settled every intent an earlier owner
\* of the same lock left behind (steps 2 and 3 of execute).
NothingAmbiguousBehindASpend ==
    \A r \in Runners : pc[r] \in Spent =>
        \A i \in Unsettled(ledger) :
            (ledger[i].host = HostOf[r] /\ ledger[i].lock = store[r]) => i = mine[r]

\* Of all executions that ever owned one lock, at most one has a transaction
\* that can still commit: a dead owner's orphaned transaction keeps its
\* successors out.  This holds as long as the store file is not replaced: an
\* approval that is claimed in two files has two intents of one execution_id,
\* and an outcome of the one then settles the other.
OneMigrationPerLock ==
    inode = 0 => \A i, j \in DOMAIN ledger :
        (/\ ledger[i].ev = "intent" /\ ledger[j].ev = "intent"
         /\ ledger[i].host = ledger[j].host /\ ledger[i].lock = ledger[j].lock
         /\ sess[IntentKey(i)] \in CanCommit /\ sess[IntentKey(j)] \in CanCommit)
            => i = j

\* No privileged contact without a durable trace: a connection exists only for
\* a spent approval with an intent in the chain (steps 3 and 4 before step 5).
ContactIsAccounted ==
    \A k \in Keys : sess[k] # "none" =>
        /\ k[1] \in spent[k[2]]
        /\ \E i \in DOMAIN ledger : ledger[i].ev = "intent" /\ IntentKey(i) = k

\* The F7 boundaries leave no gap: an approval that lapsed before one of them was
\* reached does not get what lies behind that boundary, however the phases of its call
\* interleave with the clock.  It is not spent when it lapsed before phase 1, gets
\* no intent when it lapsed while it was being spent, no connection when it lapsed
\* on the way to one, and no SQL when it lapsed while the call waited for the locks.
ExpiryIsRespected ==
    \A r \in Runners :
        /\ pc[r] \in {"claim"} \cup Spent => late[r] # "reconciling"
        /\ pc[r] \in Attending => late[r] # "spending"
        /\ pc[r] \in {"dblock", "receipt", "sql", "commit", "ack"} =>
              late[r] \notin {"recording", "connecting"}
        /\ pc[r] \in {"receipt", "sql", "commit", "ack"} => late[r] # "locking"

\* Scheduling: a process inside a call keeps running, a dead one is restarted,
\* reconcile_unfinished is called again and again, and the server ends what it
\* has begun.
Fairness ==
    /\ \A r \in Runners : /\ WF_vars(Step(r))
                           /\ WF_vars(Restart(r))
                           /\ WF_vars(Reconcile(r, FALSE))
    /\ \A k \in Keys : WF_vars(Server(k))

FairSpec == Spec /\ Fairness

\* Crash recovery terminates: on one host and one store file every recorded
\* intent is eventually resolved by a proven outcome.
EveryIntentSettles ==
    \A p \in Approvals :
        (\E i \in Unsettled(ledger) : ledger[i].appr = p)
            ~> (\A i \in Unsettled(ledger) : ledger[i].appr # p)
=============================================================================
