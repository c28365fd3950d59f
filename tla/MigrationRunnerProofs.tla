------------------------ MODULE MigrationRunnerProofs ------------------------
(***************************************************************************)
(* Proofs about the brokered migration runner, for any number of runners,   *)
(* hosts, approvals, store files and failures, and about its refinement of  *)
(* SingleUse.                                                               *)
(***************************************************************************)
EXTENDS MigrationRunner, TLAPS

\* What the phase of a call says about its locals.
CallShape ==
    \A r \in Runners :
        /\ pc[r] \in {"admit1", "claim"} \cup Spent => job[r] \in Approvals
        /\ pc[r] = "record" => res[r] \in Outcomes
        /\ todo[r] \subseteq DOMAIN ledger

TypeInv == TypeOK /\ CallShape

-----------------------------------------------------------------------------
\* The failure budget is never exceeded.
LEMMA FaultType ==
    ASSUME TypeOK, Fault
    PROVE  faults' \in 0..MaxFaults
BY ConstantsAssumption DEF TypeOK, Fault

\* What _record appends keeps the chain well formed and never shortens it.
LEMMA RecordType ==
    ASSUME TypeOK, NEW entry \in Entry, NEW ok \in BOOLEAN, Record(entry, ok)
    PROVE  /\ ledger' \in Seq(Entry)
           /\ DOMAIN ledger \subseteq DOMAIN ledger'
           /\ faults' \in 0..MaxFaults
<1>1. ledger \in Seq(Entry) /\ faults \in 0..MaxFaults /\ MaxFaults \in Nat
  BY ConstantsAssumption DEF TypeOK
<1>2. Append(ledger, entry) \in Seq(Entry) /\ DOMAIN ledger \subseteq DOMAIN Append(ledger, entry)
  BY <1>1
<1>3. faults' \in 0..MaxFaults
  BY <1>1, FaultType DEF Record
<1>4. ledger' = ledger \/ ledger' = Append(ledger, entry)
  BY DEF Record
<1> QED BY <1>1, <1>2, <1>3, <1>4

\* Every entry a runner builds is a ledger entry.
LEMMA EntryTypes ==
    ASSUME TypeOK, NEW r \in Runners
    PROVE  /\ job[r] \in Approvals => IntentEntry(r) \in Entry
           /\ \A p \in Approvals, i \in Nat, st \in Outcomes, b \in BOOLEAN :
                 OutcomeEntry(r, p, i, st, b) \in Entry
BY ConstantsAssumption DEF TypeOK, IntentEntry, OutcomeEntry, Entry, Hosts

\* A returning call and a killed one leave well-formed locals.
LEMMA ReturnType ==
    ASSUME TypeInv, NEW r \in Runners, Return(r), DOMAIN ledger \subseteq DOMAIN ledger'
    PROVE  /\ pc' \in [Runners -> Phases]
           /\ job' \in [Runners -> Approvals \cup {None}]
           /\ force' \in [Runners -> BOOLEAN]
           /\ late' \in [Runners -> {"no"} \cup Stages]
           /\ todo' \in [Runners -> SUBSET Nat]
           /\ blocked' \in [Runners -> BOOLEAN]
           /\ res' \in [Runners -> {"none"} \cup Outcomes \cup Receipts]
           /\ mine' \in [Runners -> Nat]
           /\ guard' \subseteq Runners
           /\ CallShape'
<1> USE DEF TypeInv, TypeOK, Return, Goto, Phases, Spent, Stages
<1>1. /\ pc' \in [Runners -> Phases]
      /\ job' \in [Runners -> Approvals \cup {None}]
      /\ force' \in [Runners -> BOOLEAN]
      /\ late' \in [Runners -> {"no"} \cup Stages]
      /\ todo' \in [Runners -> SUBSET Nat]
      /\ blocked' \in [Runners -> BOOLEAN]
      /\ res' \in [Runners -> {"none"} \cup Outcomes \cup Receipts]
      /\ mine' \in [Runners -> Nat]
      /\ guard' \subseteq Runners
  OBVIOUS
<1>2. CallShape'
  BY DEF CallShape
<1> QED BY <1>1, <1>2

\* A killed process leaves well-formed locals.
LEMMA KillType ==
    ASSUME TypeInv, NEW dead \in SUBSET Runners, Kill(dead), UNCHANGED ledger
    PROVE  /\ pc' \in [Runners -> Phases]
           /\ job' \in [Runners -> Approvals \cup {None}]
           /\ force' \in [Runners -> BOOLEAN]
           /\ late' \in [Runners -> {"no"} \cup Stages]
           /\ todo' \in [Runners -> SUBSET Nat]
           /\ blocked' \in [Runners -> BOOLEAN]
           /\ res' \in [Runners -> {"none"} \cup Outcomes \cup Receipts]
           /\ mine' \in [Runners -> Nat]
           /\ guard' \subseteq Runners
           /\ CallShape'
<1> USE DEF TypeInv, TypeOK, Kill, Phases, Spent, Stages
<1>1. /\ pc' \in [Runners -> Phases]
      /\ job' \in [Runners -> Approvals \cup {None}]
      /\ force' \in [Runners -> BOOLEAN]
      /\ late' \in [Runners -> {"no"} \cup Stages]
      /\ todo' \in [Runners -> SUBSET Nat]
      /\ blocked' \in [Runners -> BOOLEAN]
      /\ res' \in [Runners -> {"none"} \cup Outcomes \cup Receipts]
      /\ mine' \in [Runners -> Nat]
      /\ guard' \subseteq Runners
  OBVIOUS
<1>2. CallShape'
  BY DEF CallShape
<1> QED BY <1>1, <1>2

-----------------------------------------------------------------------------
\* Every step keeps the types and the shape of a call.
LEMMA TypeStep ==
    ASSUME TypeInv, [Next]_vars
    PROVE  TypeInv'
<1> USE DEF TypeInv
<1>1. ASSUME NEW r \in Runners, NEW p \in Approvals, Execute(r, p) PROVE TypeInv'
  BY <1>1 DEF TypeOK, CallShape, Execute, Goto, Phases, Owning, Reconciling, Spent,
              Stages, hostVars, dbVars
<1>2. ASSUME NEW r \in Runners, NEW f \in Assertions, Reconcile(r, f) PROVE TypeInv'
  <2>1. f \in BOOLEAN
    BY ConstantsAssumption
  <2> QED BY <1>2, <2>1 DEF TypeOK, CallShape, Reconcile, Goto, Phases, Owning,
                            Reconciling, Spent, hostVars, dbVars
<1>3. ASSUME NEW r \in Runners, Acquire(r) PROVE TypeInv'
  <2>1. CASE Return(r)
    BY <1>3, <2>1, ReturnType DEF Acquire, TypeOK, dbVars
  <2>2. CASE ~ Return(r)
    <3>1. /\ guard' = guard \cup {r}
          /\ Goto(r, "read")
          /\ UNCHANGED <<job, force, late, todo, blocked, res, mine, store, inode, boot,
                         spent, validity, sess, receipts, applied, ledger, faults>>
      BY <1>3, <2>2 DEF Acquire, dbVars
    <3> QED BY <3>1 DEF TypeOK, CallShape, Goto, Phases, Owning, Reconciling, Spent
  <2> QED BY <2>1, <2>2
<1>4. ASSUME NEW r \in Runners, ReadLedger(r) PROVE TypeInv'
  <2>1. Unsettled(ledger) \subseteq DOMAIN ledger /\ DOMAIN ledger \subseteq Nat
    BY DEF Unsettled, TypeOK
  <2>2. TypeOK'
    <3>1. faults' \in 0..MaxFaults
      BY <1>4, FaultType DEF ReadLedger, TypeOK
    <3>2. /\ todo' \in [Runners -> SUBSET Nat]
          /\ blocked' \in [Runners -> BOOLEAN]
          /\ pc' \in [Runners -> Phases]
      BY <1>4, <2>1 DEF TypeOK, ReadLedger, Goto, Phases, Owning, Reconciling
    <3> QED BY <1>4, <3>1, <3>2 DEF TypeOK, ReadLedger, hostVars, dbVars
  <2>3. CallShape'
    BY <1>4, <2>1 DEF TypeOK, CallShape, ReadLedger, Goto, Spent, hostVars, dbVars
  <2> QED BY <2>2, <2>3
<1>5. ASSUME NEW r \in Runners, SkipForeign(r) PROVE TypeInv'
  BY <1>5 DEF TypeOK, CallShape, SkipForeign, hostVars, dbVars
<1>6. ASSUME NEW r \in Runners, LookupReceipt(r) PROVE TypeInv'
  <2>1. /\ Goto(r, "settle")
        /\ \E st \in Receipts : res' = [res EXCEPT ![r] = st]
        /\ UNCHANGED faults \/ Fault
        /\ UNCHANGED <<job, force, late, todo, blocked, mine, hostVars, dbVars, ledger>>
    BY <1>6 DEF LookupReceipt, Receipts
  <2>2. faults' \in 0..MaxFaults
    BY <2>1, FaultType DEF TypeOK
  <2> QED BY <2>1, <2>2 DEF TypeOK, CallShape, Goto, Phases, Owning, Reconciling, Spent,
                            hostVars, dbVars
<1>7. ASSUME NEW r \in Runners, SettleIntent(r) PROVE TypeInv'
  <2>1. PICK i \in todo[r] :
          /\ todo' = [todo EXCEPT ![r] = @ \ {i}]
          /\ IF res[r] \in {"committed", "not_found"}
             THEN LET st == IF res[r] = "committed" THEN "committed" ELSE "not_committed"
                  IN  \E ok \in BOOLEAN :
                        /\ Record(OutcomeEntry(r, ledger[i].appr, i, st, TRUE), ok)
                        /\ blocked' = [blocked EXCEPT ![r] = @ \/ ~ ok]
             ELSE /\ blocked' = [blocked EXCEPT ![r] = TRUE]
                  /\ UNCHANGED <<ledger, faults>>
    BY <1>7 DEF SettleIntent
  <2>2. i \in Nat /\ ledger[i] \in Entry /\ ledger[i].appr \in Approvals
    <3>1. i \in DOMAIN ledger
      BY <2>1 DEF CallShape
    <3>2. i \in Nat /\ ledger[i] \in Entry
      BY <3>1 DEF TypeOK
    <3> QED BY <3>2 DEF Entry
  <2>3. /\ ledger' \in Seq(Entry)
        /\ DOMAIN ledger \subseteq DOMAIN ledger'
        /\ faults' \in 0..MaxFaults
        /\ blocked' \in [Runners -> BOOLEAN]
    <3>1. CASE res[r] \in {"committed", "not_found"}
      <4>1. PICK st \in Outcomes, ok \in BOOLEAN :
              /\ Record(OutcomeEntry(r, ledger[i].appr, i, st, TRUE), ok)
              /\ blocked' = [blocked EXCEPT ![r] = @ \/ ~ ok]
        BY <2>1, <3>1 DEF Outcomes, Terminal
      <4>2. OutcomeEntry(r, ledger[i].appr, i, st, TRUE) \in Entry
        BY <2>2, EntryTypes
      <4>3. /\ ledger' \in Seq(Entry)
            /\ DOMAIN ledger \subseteq DOMAIN ledger'
            /\ faults' \in 0..MaxFaults
        BY <4>1, <4>2, RecordType
      <4>4. blocked' \in [Runners -> BOOLEAN]
        BY <4>1, Zenon DEF TypeOK
      <4> QED BY <4>3, <4>4
    <3>2. CASE res[r] \notin {"committed", "not_found"}
      BY <2>1, <3>2 DEF TypeOK
    <3> QED BY <3>1, <3>2
  <2>4. TypeOK'
    BY <1>7, <2>1, <2>3 DEF TypeOK, SettleIntent, Goto, Phases, Owning, Reconciling,
                            hostVars, dbVars
  <2>5. CallShape'
    BY <1>7, <2>1, <2>3 DEF TypeOK, CallShape, SettleIntent, Goto, Spent
  <2> QED BY <2>4, <2>5
<1>8. ASSUME NEW r \in Runners, EndReconcile(r) PROVE TypeInv'
  <2>1. CASE Return(r)
    BY <1>8, <2>1, ReturnType DEF EndReconcile, TypeOK, dbVars
  <2>2. CASE ~ Return(r)
    BY <1>8, <2>2 DEF TypeOK, CallShape, EndReconcile, Goto, Phases, Owning, Reconciling,
                      Spent, dbVars
  <2> QED BY <2>1, <2>2
<1>8a. ASSUME NEW r \in Runners, AdmitSpend(r) PROVE TypeInv'
  <2>1. CASE Return(r)
    BY <1>8a, <2>1, ReturnType DEF AdmitSpend, TypeOK, dbVars
  <2>2. CASE ~ Return(r)
    BY <1>8a, <2>2 DEF TypeOK, CallShape, AdmitSpend, Goto, Phases, Owning, Spent, dbVars
  <2> QED BY <2>1, <2>2
<1>9. ASSUME NEW r \in Runners, Claim(r) PROVE TypeInv'
  <2>1. job[r] \in Approvals
    BY <1>9 DEF CallShape, Claim
  <2>2. /\ spent' \in [Inodes -> SUBSET Approvals]
        /\ faults' \in 0..MaxFaults
    <3>1. \/ spent' = spent
          \/ spent' = [spent EXCEPT ![store[r]] = @ \cup {job[r]}]
      BY <1>9 DEF Claim
    <3>2. UNCHANGED faults \/ Fault
      BY <1>9 DEF Claim
    <3>3. faults' \in 0..MaxFaults
      BY <3>2, FaultType DEF TypeOK
    <3>4. store[r] \in Inodes /\ spent \in [Inodes -> SUBSET Approvals]
      BY DEF TypeOK
    <3>5. spent' \in [Inodes -> SUBSET Approvals]
      BY <2>1, <3>1, <3>4
    <3> QED BY <3>3, <3>5
  <2>3. CASE Return(r)
    BY <1>9, <2>2, <2>3, ReturnType DEF Claim, TypeOK, dbVars
  <2>4. CASE ~ Return(r)
    BY <1>9, <2>1, <2>2, <2>4 DEF TypeOK, CallShape, Claim, Goto, Phases, Owning, Spent,
                                  dbVars
  <2> QED BY <2>3, <2>4
<1>10. ASSUME NEW r \in Runners, RecordIntent(r) PROVE TypeInv'
  <2>1. job[r] \in Approvals /\ IntentEntry(r) \in Entry
    BY <1>10, EntryTypes DEF CallShape, RecordIntent, Spent
  <2>2. /\ ledger' \in Seq(Entry)
        /\ DOMAIN ledger \subseteq DOMAIN ledger'
        /\ faults' \in 0..MaxFaults
    <3>1. CASE \E ok \in BOOLEAN : Record(IntentEntry(r), ok)
      BY <2>1, <3>1, RecordType
    <3>2. CASE UNCHANGED <<ledger, faults>>
      BY <3>2 DEF TypeOK
    <3> QED BY <1>10, <3>1, <3>2 DEF RecordIntent
  <2>3. CASE Return(r)
    BY <1>10, <2>2, <2>3, ReturnType DEF RecordIntent, TypeOK, dbVars
  <2>4. CASE ~ Return(r)
    <3>1. Len(ledger) \in Nat
      BY DEF TypeOK
    <3>2. /\ Goto(r, "admit3")
          /\ mine' = [mine EXCEPT ![r] = Len(ledger) + 1]
          /\ UNCHANGED <<job, force, late, todo, blocked, res, guard>>
          /\ UNCHANGED <<store, inode, boot, spent, validity, dbVars>>
      BY <1>10, <2>4 DEF RecordIntent
    <3>3. TypeOK'
      BY <2>2, <3>1, <3>2 DEF TypeOK, Goto, Phases, Owning, Spent, dbVars
    <3>4. CallShape'
      BY <2>1, <2>2, <3>2 DEF TypeOK, CallShape, Goto, Spent
    <3> QED BY <3>3, <3>4
  <2> QED BY <2>3, <2>4
<1>11. ASSUME NEW r \in Runners, AdmitExecutor(r) PROVE TypeInv'
  <2>1. job[r] \in Approvals
    BY <1>11 DEF CallShape, AdmitExecutor, Spent
  <2>2. OutcomeEntry(r, job[r], mine[r], "not_attempted", FALSE) \in Entry
    BY <2>1, EntryTypes DEF TypeOK, Outcomes
  <2>3. /\ ledger' \in Seq(Entry)
        /\ DOMAIN ledger \subseteq DOMAIN ledger'
        /\ faults' \in 0..MaxFaults
    <3>1. CASE \E ok \in BOOLEAN :
                 Record(OutcomeEntry(r, job[r], mine[r], "not_attempted", FALSE), ok)
      BY <2>2, <3>1, RecordType
    <3>2. CASE UNCHANGED <<ledger, faults>>
      BY <3>2 DEF TypeOK
    <3> QED BY <1>11, <3>1, <3>2 DEF AdmitExecutor
  <2>4. CASE Return(r)
    BY <1>11, <2>3, <2>4, ReturnType DEF AdmitExecutor, TypeOK, dbVars
  <2>5. CASE ~ Return(r)
    BY <1>11, <2>1, <2>3, <2>5 DEF TypeOK, CallShape, AdmitExecutor, Goto, Phases, Owning,
                                   Spent, dbVars
  <2> QED BY <2>4, <2>5
<1>12. ASSUME NEW r \in Runners,
              \/ Connect(r) \/ Locked(r) \/ CheckReceipt(r) \/ RunSql(r)
              \/ SendCommit(r) \/ ReadCommit(r) \/ LoseConnection(r)
       PROVE  TypeInv'
  <2>1. pc[r] \in Spent /\ job[r] \in Approvals /\ Key(r) \in Keys
    BY <1>12 DEF TypeOK, CallShape, Spent, Key, Keys, Connect, Locked, CheckReceipt, RunSql,
                 SendCommit, ReadCommit, LoseConnection
  <2>2. /\ UNCHANGED <<job, force, late, todo, blocked, mine, hostVars, receipts, applied,
                       ledger>>
        /\ \/ sess' = sess
           \/ \E st \in SessionStates : SessionBecomes(Key(r), st)
        /\ \/ UNCHANGED faults
           \/ Fault
        /\ \/ \E st \in Outcomes : Finish(r, st)
           \/ UNCHANGED res /\ \E ph \in Spent \ {"record"} : Goto(r, ph)
    BY <1>12 DEF Connect, Locked, CheckReceipt, RunSql, SendCommit, ReadCommit,
                 LoseConnection, Outcomes, Terminal, SessionStates, Spent, dbVars
  <2>3. sess' \in [Keys -> SessionStates] /\ faults' \in 0..MaxFaults
    <3>1. sess' \in [Keys -> SessionStates]
      BY <2>1, <2>2 DEF TypeOK, SessionBecomes
    <3>2. faults' \in 0..MaxFaults
      BY <2>2, FaultType DEF TypeOK
    <3> QED BY <3>1, <3>2
  <2>4. /\ pc' \in [Runners -> Phases]
        /\ res' \in [Runners -> {"none"} \cup Outcomes \cup Receipts]
    <3>1. /\ \E ph \in Spent : Goto(r, ph)
          /\ UNCHANGED res \/ \E st \in Outcomes : res' = [res EXCEPT ![r] = st]
      BY <2>2 DEF Finish, Spent
    <3>2. Spent \subseteq Phases
      BY DEF Phases, Owning
    <3>3. pc' \in [Runners -> Phases]
      BY <3>1, <3>2 DEF TypeOK, Goto
    <3>4. res' \in [Runners -> {"none"} \cup Outcomes \cup Receipts]
      BY <3>1 DEF TypeOK
    <3> QED BY <3>3, <3>4
  <2>5. TypeOK'
    BY <2>2, <2>3, <2>4 DEF TypeOK, hostVars
  <2>6. CallShape'
    <3>1. \A q \in Runners : q # r => pc'[q] = pc[q] /\ res'[q] = res[q]
      BY <2>2 DEF TypeOK, Finish, Goto
    <3>2. pc'[r] = "record" => res'[r] \in Outcomes
      BY <2>2 DEF TypeOK, Finish, Goto
    <3> QED BY <2>1, <2>2, <3>1, <3>2 DEF CallShape
  <2> QED BY <2>5, <2>6
<1>13. ASSUME NEW r \in Runners, RecordOutcome(r) PROVE TypeInv'
  <2>1. job[r] \in Approvals /\ res[r] \in Outcomes /\ mine[r] \in Nat
    BY <1>13 DEF CallShape, RecordOutcome, Spent, TypeOK
  <2>2. OutcomeEntry(r, job[r], mine[r], res[r], TRUE) \in Entry
    BY <2>1, EntryTypes
  <2>3. /\ ledger' \in Seq(Entry)
        /\ DOMAIN ledger \subseteq DOMAIN ledger'
        /\ faults' \in 0..MaxFaults
    BY <1>13, <2>2, RecordType DEF RecordOutcome
  <2> QED BY <1>13, <2>3, ReturnType DEF RecordOutcome, TypeOK, dbVars
<1>14. ASSUME NEW k \in Keys, Server(k) PROVE TypeInv'
  <2>1. k[1] \in Approvals
    BY DEF Keys
  <2>2. /\ UNCHANGED <<callVars, hostVars, ledger>>
        /\ \E st \in SessionStates : SessionBecomes(k, st)
        /\ \/ UNCHANGED faults
           \/ Fault
        /\ receipts' \subseteq Approvals
        /\ applied' \in [Approvals -> Nat]
    <3>1. CASE GrantLock(k)
      BY <3>1 DEF GrantLock, TypeOK, SessionStates
    <3>2. CASE ServerCommit(k)
      BY <2>1, <3>2 DEF ServerCommit, TypeOK, SessionStates
    <3>3. CASE ServerAbort(k)
      BY <3>3 DEF ServerAbort, TypeOK, SessionStates
    <3>4. CASE ServerClose(k)
      BY <3>4 DEF ServerClose, TypeOK, SessionStates
    <3> QED BY <1>14, <3>1, <3>2, <3>3, <3>4 DEF Server
  <2>3. faults' \in 0..MaxFaults
    BY <2>2, FaultType DEF TypeOK
  <2> QED BY <2>2, <2>3 DEF TypeOK, CallShape, SessionBecomes, callVars, hostVars
<1>15. ASSUME NEW p \in Approvals, Age(p) PROVE TypeInv'
  <2>1. \A ph : Stage(ph) \in Stages
    BY DEF Stage, Stages
  <2> QED BY <1>15, <2>1 DEF TypeOK, CallShape, Age, dbVars
<1>16. ASSUME NEW r \in Runners, Crash(r) PROVE TypeInv'
  <2>1. {r} \in SUBSET Runners /\ Kill({r}) /\ UNCHANGED ledger /\ faults' \in 0..MaxFaults
    BY <1>16, FaultType DEF Crash
  <2> QED BY <1>16, <2>1, KillType DEF Crash, TypeOK, dbVars
<1>17. ASSUME NEW h \in Hosts, Reboot(h) PROVE TypeInv'
  <2> DEFINE dead == {r \in Runners : HostOf[r] = h}
  <2>1. dead \in SUBSET Runners /\ Kill(dead) /\ UNCHANGED ledger /\ faults' \in 0..MaxFaults
    BY <1>17, FaultType DEF Reboot
  <2>2. boot' \in [Hosts -> Nat]
    BY <1>17 DEF Reboot, TypeOK
  <2> HIDE DEF dead
  <2> QED BY <1>17, <2>1, <2>2, KillType DEF Reboot, TypeOK, dbVars
<1>18. ASSUME NEW r \in Runners, Restart(r) PROVE TypeInv'
  BY <1>18 DEF TypeOK, CallShape, Restart, Goto, Phases, Spent, dbVars
<1>19. ASSUME ReplaceStore PROVE TypeInv'
  <2>1. inode + 1 \in Inodes
    BY <1>19, ConstantsAssumption DEF ReplaceStore, Inodes, TypeOK
  <2> QED BY <1>19, <2>1 DEF TypeOK, CallShape, ReplaceStore, callVars, dbVars
<1>20. ASSUME UNCHANGED vars PROVE TypeInv'
  BY <1>20 DEF TypeOK, CallShape, vars, callVars, hostVars, dbVars
<1> QED
  BY <1>1, <1>2, <1>3, <1>4, <1>5, <1>6, <1>7, <1>8, <1>8a, <1>9, <1>10, <1>11, <1>12, <1>13,
     <1>14, <1>15, <1>16, <1>17, <1>18, <1>19, <1>20, ConstantsAssumption DEF Next, Step

\* The types of the runner's state and the shape of its calls, as named in
\* TypeOK, hold in every reachable state.
THEOREM TypeCorrect == Spec => []TypeOK
<1>1. Init => TypeInv
  BY ConstantsAssumption DEF Init, TypeInv, TypeOK, CallShape, Phases, Spent, Inodes,
                             SessionStates, Keys
<1>2. TypeInv /\ [Next]_vars => TypeInv'
  BY TypeStep
<1>3. TypeInv => TypeOK
  BY DEF TypeInv
<1> QED BY <1>1, <1>2, <1>3, PTL DEF Spec

-----------------------------------------------------------------------------
(* A migration commits at most once.                                        *)
(*                                                                         *)
(* Neither the single-use store nor the receipt alone gives this: the store *)
(* can be replaced under a runner, and a receipt read before the migration  *)
(* can be stale when it commits.  What makes the two work together is that  *)
(* a store file hands each approval to one call (OneOwner), that the        *)
(* database hands the session lock of an approval to one connection         *)
(* (OneHolder), and that the receipt is read under that lock (Fresh).       *)

ClientPhases == {"receipt", "sql", "commit", "ack"}

\* A call past the claim has its approval spent in the file it opened.
StoreShape ==
    \A r \in Runners :
        /\ store[r] <= inode
        /\ pc[r] \in Spent => job[r] \in spent[store[r]]

\* A store file gives an approval to one call.
OneOwner ==
    \A r, q \in Runners :
        (pc[r] \in Spent /\ pc[q] \in Spent /\ Key(r) = Key(q)) => r = q

\* A call past its lock request is not waiting for the lock again.
LockGranted ==
    \A r \in Runners : pc[r] \in ClientPhases => sess[Key(r)] # "waiting"

\* One connection holds the session lock of an approval's execution_id.
OneHolder ==
    \A k, l \in Keys :
        (k[1] = l[1] /\ sess[k] \in HoldsLock /\ sess[l] \in HoldsLock) => k = l

\* As long as the lock is held, a receipt that was absent stays absent.
Fresh ==
    /\ \A k \in Keys : sess[k] \in CanCommit => k[1] \notin receipts
    /\ \A r \in Runners :
          (pc[r] = "sql" /\ sess[Key(r)] = "locked") => job[r] \notin receipts

OnceInv ==
    /\ TypeInv
    /\ StoreShape
    /\ OneOwner
    /\ LockGranted
    /\ OneHolder
    /\ Fresh
    /\ AppliedAtMostOnce

\* A step that touches neither the database nor the spent set, and in which no
\* call gets past the claim or the database lock.
Quiet ==
    /\ UNCHANGED <<sess, receipts, applied, inode, spent>>
    /\ \A q \in Runners :
          /\ store'[q] \in {store[q], inode}
          /\ pc'[q] \in Spent =>
                pc[q] \in Spent /\ job'[q] = job[q] /\ store'[q] = store[q]
          /\ pc'[q] \in ClientPhases => pc'[q] = pc[q]

\* A quiet step keeps OnceInv: what it says of a call survives as long as the
\* call stays where it is.
LEMMA QuietStep ==
    ASSUME OnceInv, TypeInv', Quiet
    PROVE  OnceInv'
<1>1. \A q \in Runners : pc'[q] \in Spent => pc[q] \in Spent /\ Key(q)' = Key(q)
  BY DEF Quiet, Key
<1>2. ClientPhases \subseteq Spent /\ "sql" \in ClientPhases
  BY DEF ClientPhases, Spent
<1>3. StoreShape'
  <2>1. inode \in Nat /\ inode' = inode /\ spent' = spent
    BY DEF OnceInv, TypeInv, TypeOK, Quiet, Inodes
  <2>2. ASSUME NEW q \in Runners PROVE store'[q] <= inode
    <3>1. store'[q] = store[q] \/ store'[q] = inode
      BY DEF Quiet
    <3>2. store[q] <= inode /\ inode <= inode
      BY <2>1 DEF OnceInv, StoreShape
    <3> QED BY <3>1, <3>2
  <2>3. ASSUME NEW q \in Runners, pc'[q] \in Spent PROVE job'[q] \in spent[store'[q]]
    BY <2>3 DEF OnceInv, StoreShape, Quiet
  <2> QED BY <2>1, <2>2, <2>3 DEF StoreShape
<1>4. OneOwner'
  BY <1>1 DEF OnceInv, OneOwner
<1>5. LockGranted'
  BY <1>1, <1>2 DEF OnceInv, LockGranted, Quiet
<1>6. OneHolder' /\ AppliedAtMostOnce'
  BY DEF OnceInv, OneHolder, AppliedAtMostOnce, Quiet
<1>7. Fresh'
  BY <1>1, <1>2 DEF OnceInv, Fresh, Quiet
<1> QED BY <1>3, <1>4, <1>5, <1>6, <1>7 DEF OnceInv

\* Every step outside the database, the claim and a store replacement is quiet.
LEMMA QuietActions ==
    ASSUME TypeInv,
           \/ \E r \in Runners :
                \/ \E p \in Approvals : Execute(r, p)
                \/ \E f \in Assertions : Reconcile(r, f)
                \/ Acquire(r) \/ ReadLedger(r) \/ SkipForeign(r) \/ LookupReceipt(r)
                \/ SettleIntent(r) \/ EndReconcile(r) \/ AdmitSpend(r) \/ RecordIntent(r)
                \/ AdmitExecutor(r) \/ LoseConnection(r) \/ RecordOutcome(r)
                \/ Crash(r) \/ Restart(r)
           \/ \E p \in Approvals : Age(p)
           \/ \E h \in Hosts : Reboot(h)
           \/ UNCHANGED vars
    PROVE  Quiet
<1> USE DEF Quiet, TypeInv, TypeOK, Spent, ClientPhases
<1>1. ASSUME NEW r \in Runners, NEW p \in Approvals, Execute(r, p) PROVE Quiet
  BY <1>1 DEF Execute, Goto, hostVars, dbVars
<1>2. ASSUME NEW r \in Runners, NEW f \in Assertions, Reconcile(r, f) PROVE Quiet
  BY <1>2 DEF Reconcile, Goto, hostVars, dbVars
<1>3. ASSUME NEW r \in Runners,
             ReadLedger(r) \/ SkipForeign(r) \/ LookupReceipt(r) \/ SettleIntent(r)
      PROVE  Quiet
  <2>1. /\ \/ UNCHANGED pc
           \/ Goto(r, "recon")
           \/ Goto(r, "settle")
        /\ UNCHANGED <<job, hostVars, dbVars>>
    BY <1>3 DEF ReadLedger, SkipForeign, LookupReceipt, SettleIntent
  <2> QED BY <2>1 DEF Goto, hostVars, dbVars
<1>4. ASSUME NEW r \in Runners,
             \/ Acquire(r) \/ EndReconcile(r) \/ AdmitSpend(r) \/ RecordIntent(r)
             \/ AdmitExecutor(r) \/ RecordOutcome(r)
      PROVE  Quiet
  <2>1. /\ UNCHANGED <<store, inode, spent, dbVars>>
        /\ \/ Return(r)
           \/ /\ UNCHANGED job
              /\ \/ Goto(r, "read")
                 \/ Goto(r, "admit1")
                 \/ Goto(r, "claim")
                 \/ pc[r] = "intent" /\ Goto(r, "admit3")
                 \/ pc[r] = "admit3" /\ Goto(r, "connect")
    BY <1>4 DEF Acquire, EndReconcile, AdmitSpend, RecordIntent, AdmitExecutor, RecordOutcome
  <2> QED BY <2>1 DEF Return, Goto, dbVars
<1>5. ASSUME NEW r \in Runners, LoseConnection(r) PROVE Quiet
  BY <1>5 DEF LoseConnection, Finish, Goto, hostVars, dbVars
<1>6. ASSUME NEW r \in Runners, Crash(r) PROVE Quiet
  BY <1>6 DEF Crash, Kill, dbVars
<1>7. ASSUME NEW r \in Runners, Restart(r) PROVE Quiet
  BY <1>7 DEF Restart, Goto, dbVars
<1>8. ASSUME NEW p \in Approvals, Age(p) PROVE Quiet
  BY <1>8 DEF Age, dbVars
<1>9. ASSUME NEW h \in Hosts, Reboot(h) PROVE Quiet
  BY <1>9 DEF Reboot, Kill, dbVars
<1>10. ASSUME UNCHANGED vars PROVE Quiet
  BY <1>10 DEF vars, callVars, hostVars, dbVars
<1> QED BY <1>1, <1>2, <1>3, <1>4, <1>5, <1>6, <1>7, <1>8, <1>9, <1>10

\* The two steps that spend: the claim, and the copy of a store file.
LEMMA SpendStep ==
    ASSUME OnceInv, TypeInv', (\E r \in Runners : Claim(r)) \/ ReplaceStore
    PROVE  OnceInv'
<1> USE DEF OnceInv
<1>1. ASSUME NEW r \in Runners, Claim(r) PROVE OnceInv'
  <2>1. CASE Return(r)
    <3>1. /\ UNCHANGED <<store, inode, sess, receipts, applied>>
          /\ \A i \in Inodes : spent[i] \subseteq spent'[i]
      BY <1>1, <2>1 DEF Claim, dbVars, TypeInv, TypeOK
    <3>2. /\ \A q \in Runners : pc'[q] \in Spent =>
                pc[q] \in Spent /\ pc'[q] = pc[q] /\ job'[q] = job[q] /\ Key(q)' = Key(q)
      BY <2>1, <3>1 DEF Return, Goto, Key, TypeInv, TypeOK, Spent
    <3>3. StoreShape'
      BY <3>1, <3>2 DEF StoreShape, TypeInv, TypeOK
    <3>4. OneOwner' /\ LockGranted' /\ Fresh'
      BY <3>1, <3>2 DEF OneOwner, LockGranted, Fresh, ClientPhases, Spent
    <3>5. OneHolder' /\ AppliedAtMostOnce'
      BY <3>1 DEF OneHolder, AppliedAtMostOnce
    <3> QED BY <3>3, <3>4, <3>5
  <2>2. CASE ~ Return(r)
    <3>1. /\ job[r] \notin spent[store[r]]
          /\ spent' = [spent EXCEPT ![store[r]] = @ \cup {job[r]}]
          /\ pc' = [pc EXCEPT ![r] = "intent"]
          /\ UNCHANGED <<job, store, inode, sess, receipts, applied>>
      BY <1>1, <2>2 DEF Claim, Goto, dbVars
    <3>2. \A q \in Runners : Key(q)' = Key(q)
      BY <3>1 DEF Key
    <3>3. \A q \in Runners : q # r => pc'[q] = pc[q]
      BY <3>1 DEF TypeInv, TypeOK
    <3>4. pc'[r] = "intent"
      BY <3>1 DEF TypeInv, TypeOK
    <3>5. StoreShape'
      BY <3>1, <3>3, <3>4 DEF StoreShape, TypeInv, TypeOK
    <3>6. OneOwner'
      <4>1. \A q \in Runners : q # r /\ pc[q] \in Spent => Key(q) # Key(r)
        BY <3>1 DEF StoreShape, Key
      <4> QED BY <3>2, <3>3, <4>1 DEF OneOwner
    <3>7. LockGranted' /\ Fresh'
      BY <3>1, <3>2, <3>3, <3>4 DEF LockGranted, Fresh, ClientPhases
    <3>8. OneHolder' /\ AppliedAtMostOnce'
      BY <3>1 DEF OneHolder, AppliedAtMostOnce
    <3> QED BY <3>5, <3>6, <3>7, <3>8
  <2> QED BY <2>1, <2>2
<1>2. ASSUME ReplaceStore PROVE OnceInv'
  <2>1. /\ inode' = inode + 1
        /\ spent' = [spent EXCEPT ![inode + 1] = spent[inode]]
        /\ UNCHANGED <<pc, job, store, sess, receipts, applied>>
    BY <1>2 DEF ReplaceStore, callVars, dbVars
  <2>2. \A r \in Runners : store[r] # inode + 1 /\ store[r] <= inode + 1
    BY DEF StoreShape, TypeInv, TypeOK, Inodes
  <2>3. StoreShape'
    BY <2>1, <2>2 DEF StoreShape, TypeInv, TypeOK
  <2>4. OneOwner' /\ LockGranted' /\ Fresh' /\ OneHolder' /\ AppliedAtMostOnce'
    BY <2>1 DEF OneOwner, LockGranted, Fresh, OneHolder, AppliedAtMostOnce, Key
  <2> QED BY <2>3, <2>4
<1> QED BY <1>1, <1>2

\* The executor's own steps on its connection.
LEMMA ClientStep ==
    ASSUME OnceInv, TypeInv', NEW r \in Runners,
           \/ Connect(r) \/ Locked(r) \/ CheckReceipt(r) \/ RunSql(r)
           \/ SendCommit(r) \/ ReadCommit(r)
    PROVE  OnceInv'
<1> USE DEF OnceInv
<1>1. /\ UNCHANGED <<job, store, inode, spent, receipts, applied>>
      /\ pc[r] \in Spent
      /\ \E ph \in Spent : Goto(r, ph)
      /\ sess' = sess \/ \E st \in SessionStates : SessionBecomes(Key(r), st)
  BY DEF Connect, Locked, CheckReceipt, RunSql, SendCommit, ReadCommit, Finish, Spent,
         SessionStates, hostVars
<1>2. /\ Key(r) \in Keys
      /\ Key(r)[1] = job[r]
      /\ \A q \in Runners : Key(q)' = Key(q)
  BY <1>1 DEF TypeInv, TypeOK, CallShape, Key, Keys
<1>3. /\ \A q \in Runners : q # r => pc'[q] = pc[q]
      /\ pc'[r] \in Spent
      /\ \A k \in Keys : k # Key(r) => sess'[k] = sess[k]
  BY <1>1, <1>2 DEF Goto, SessionBecomes, TypeInv, TypeOK
<1>4. \A q \in Runners : q # r /\ pc[q] \in Spent => Key(q) # Key(r) /\ Key(q) \in Keys
  BY <1>1 DEF OneOwner, TypeInv, TypeOK, CallShape, Key, Keys
<1>5. StoreShape' /\ OneOwner' /\ AppliedAtMostOnce'
  BY <1>1, <1>2, <1>3 DEF StoreShape, OneOwner, AppliedAtMostOnce
\* What the step does to this call and its connection.
<1>6. /\ sess'[Key(r)] \in HoldsLock => sess[Key(r)] \in HoldsLock
      /\ sess'[Key(r)] \in CanCommit =>
            \/ sess[Key(r)] \in CanCommit
            \/ pc[r] = "sql" /\ sess[Key(r)] = "locked"
      /\ pc'[r] \in ClientPhases => sess'[Key(r)] # "waiting"
      /\ (pc'[r] = "sql" /\ sess'[Key(r)] = "locked") => job[r] \notin receipts
  <2> USE <1>2 DEF TypeInv, TypeOK, HoldsLock, CanCommit, ClientPhases, Goto, Finish,
                   SessionBecomes
  <2>1. CASE Connect(r)
    BY <2>1 DEF Connect
  <2>2. CASE Locked(r)
    BY <2>2 DEF Locked
  <2>3. CASE CheckReceipt(r)
    BY <2>3 DEF CheckReceipt
  <2>4. CASE RunSql(r)
    BY <2>4 DEF RunSql
  <2>5. CASE SendCommit(r)
    BY <2>5 DEF SendCommit
  <2>6. CASE ReadCommit(r)
    BY <2>6 DEF ReadCommit
  <2> QED BY <2>1, <2>2, <2>3, <2>4, <2>5, <2>6
<1>7. LockGranted'
  BY <1>2, <1>3, <1>4, <1>6 DEF LockGranted, ClientPhases, Spent
<1>8. OneHolder'
  BY <1>2, <1>3, <1>6 DEF OneHolder
<1>9. Fresh'
  <2>1. \A k \in Keys : sess'[k] \in CanCommit => k[1] \notin receipts
    BY <1>2, <1>3, <1>6 DEF Fresh
  <2>2. \A q \in Runners : (pc'[q] = "sql" /\ sess'[Key(q)] = "locked") => job[q] \notin receipts
    BY <1>3, <1>4, <1>6 DEF Fresh, Spent
  <2> QED BY <1>1, <1>2, <2>1, <2>2 DEF Fresh
<1> QED BY <1>5, <1>7, <1>8, <1>9

\* The steps of the database server.
LEMMA ServerStep ==
    ASSUME OnceInv, TypeInv', NEW k \in Keys, Server(k)
    PROVE  OnceInv'
<1> USE DEF OnceInv
<1>1. UNCHANGED <<pc, job, store, inode, spent>> /\ \A q \in Runners : Key(q)' = Key(q)
  BY DEF Server, GrantLock, ServerCommit, ServerAbort, ServerClose, callVars, hostVars, Key
<1>2. StoreShape' /\ OneOwner'
  BY <1>1 DEF StoreShape, OneOwner
<1>3. k[1] \in Approvals /\ \A l \in Keys : l = <<l[1], l[2]>> /\ l[2] \in Inodes
  BY DEF Keys
<1>4. \A q \in Runners : pc[q] \in Spent => Key(q) \in Keys /\ Key(q)[1] = job[q]
  BY DEF TypeInv, TypeOK, CallShape, Key, Keys
<1>5. \A l \in Keys : l # k => sess'[l] = sess[l]
  BY DEF Server, GrantLock, ServerCommit, ServerAbort, ServerClose, SessionBecomes, TypeInv,
         TypeOK
<1>6. CASE GrantLock(k)
  <2>1. /\ sess[k] = "waiting"
        /\ sess'[k] = "locked"
        /\ UNCHANGED <<receipts, applied>>
        /\ \A n \in Inodes : sess[<<k[1], n>>] \notin HoldsLock
    BY <1>6 DEF GrantLock, SessionBecomes, TypeInv, TypeOK
  <2>2. OneHolder'
    BY <1>3, <1>5, <2>1 DEF OneHolder
  <2>3. LockGranted'
    BY <1>1, <1>4, <1>5, <2>1 DEF LockGranted, ClientPhases, Spent
  <2>4. \A q \in Runners : pc[q] = "sql" => Key(q) # k
    BY <2>1 DEF LockGranted, ClientPhases
  <2>5. Fresh'
    BY <1>1, <1>4, <1>5, <2>1, <2>4 DEF Fresh, CanCommit, Spent
  <2> QED BY <1>2, <2>1, <2>2, <2>3, <2>5 DEF AppliedAtMostOnce
<1>7. CASE ServerCommit(k)
  <2>1. /\ sess[k] = "committing"
        /\ sess'[k] = "durable"
        /\ receipts' = receipts \cup {k[1]}
        /\ applied' = [applied EXCEPT ![k[1]] = @ + 1]
    BY <1>7 DEF ServerCommit, SessionBecomes, TypeInv, TypeOK
  <2>2. \A l \in Keys : l # k /\ l[1] = k[1] => sess[l] \notin HoldsLock
    BY <2>1 DEF OneHolder, HoldsLock
  <2>3. OneHolder' /\ LockGranted'
    BY <1>1, <1>4, <1>5, <2>1, <2>2 DEF OneHolder, HoldsLock, LockGranted, ClientPhases, Spent
  <2>4. Fresh'
    <3>1. \A l \in Keys : sess'[l] \in CanCommit => l[1] \notin receipts'
      BY <1>5, <2>1, <2>2 DEF Fresh, CanCommit, HoldsLock
    <3>2. \A q \in Runners :
            (pc[q] = "sql" /\ sess'[Key(q)] = "locked") => job[q] \notin receipts'
      BY <1>4, <1>5, <2>1, <2>2 DEF Fresh, HoldsLock, Spent
    <3> QED BY <1>1, <3>1, <3>2 DEF Fresh
  <2>5. AppliedAtMostOnce'
    <3>1. k[1] \notin receipts /\ applied[k[1]] = 0
      BY <1>3, <2>1 DEF Fresh, CanCommit, AppliedAtMostOnce
    <3> QED BY <1>3, <2>1, <3>1 DEF AppliedAtMostOnce, TypeInv, TypeOK
  <2> QED BY <1>2, <2>3, <2>4, <2>5
<1>8. CASE ServerAbort(k) \/ ServerClose(k)
  <2>1. sess'[k] \in {"aborted", "committed"} /\ UNCHANGED <<receipts, applied>>
    BY <1>8 DEF ServerAbort, ServerClose, SessionBecomes, TypeInv, TypeOK
  <2>2. OneHolder' /\ LockGranted' /\ Fresh'
    BY <1>1, <1>4, <1>5, <2>1 DEF OneHolder, HoldsLock, LockGranted, Fresh, CanCommit,
                                  ClientPhases, Spent
  <2> QED BY <1>2, <2>1, <2>2 DEF AppliedAtMostOnce
<1> QED BY <1>6, <1>7, <1>8 DEF Server

\* The invariant holds before the first call.
LEMMA OnceInit == Init => OnceInv
<1>1. Init => TypeInv
  BY ConstantsAssumption DEF Init, TypeInv, TypeOK, CallShape, Phases, Spent, Inodes,
                             SessionStates, Keys
<1>2. Init => /\ StoreShape /\ OneOwner /\ LockGranted /\ OneHolder /\ Fresh
              /\ AppliedAtMostOnce
  BY DEF Init, StoreShape, OneOwner, LockGranted, OneHolder, Fresh, AppliedAtMostOnce,
         Spent, ClientPhases, HoldsLock, CanCommit
<1> QED BY <1>1, <1>2 DEF OnceInv

\* Every step keeps the invariant.
LEMMA OnceStep ==
    ASSUME OnceInv, [Next]_vars
    PROVE  OnceInv'
<1>1. TypeInv'
  BY TypeStep DEF OnceInv
<1>2. CASE Quiet
  BY <1>1, <1>2, QuietStep
<1>3. CASE (\E r \in Runners : Claim(r)) \/ ReplaceStore
  BY <1>1, <1>3, SpendStep
<1>4. CASE \E r \in Runners : \/ Connect(r) \/ Locked(r) \/ CheckReceipt(r) \/ RunSql(r)
                              \/ SendCommit(r) \/ ReadCommit(r)
  BY <1>1, <1>4, ClientStep
<1>5. CASE \E k \in Keys : Server(k)
  BY <1>1, <1>5, ServerStep
<1> QED BY <1>2, <1>3, <1>4, <1>5, QuietActions, ConstantsAssumption DEF OnceInv, Next, Step

\* However often an approval is presented, to however many runners, hosts and
\* copies of the store, and whatever fails, its migration commits at most once
\* and its receipt says whether it did.
THEOREM CommitsAtMostOnce == Spec => []AppliedAtMostOnce
<1>1. Init => OnceInv
  BY OnceInit
<1>2. OnceInv /\ [Next]_vars => OnceInv'
  BY OnceStep
<1>3. OnceInv => AppliedAtMostOnce
  BY DEF OnceInv
<1> QED BY <1>1, <1>2, <1>3, PTL DEF Spec

-----------------------------------------------------------------------------
(* What the audit chain says about executions is true: the ledger, its      *)
(* recovery and the deadline.                                               *)

Intents == {i \in DOMAIN ledger : ledger[i].ev = "intent"}

\* A call may still work on the connection of key k.
Live(k) == \E r \in Runners : pc[r] \in Spent \ {"record"} /\ Key(r) = k

\* The transaction of key k has not committed and never will.
Final(k) ==
    /\ sess[k] \notin CanCommit \cup DidCommit
    /\ ~ Live(k)
    /\ k[1] \in spent[k[2]]
    /\ k[2] <= inode

\* The flock is held by the calls in progress, one for each host and file.
GuardShape ==
    /\ guard = {r \in Runners : pc[r] \in Owning}
    /\ \A r, q \in guard : (HostOf[r] = HostOf[q] /\ store[r] = store[q]) => r = q

\* A call past its intent is the owner the intent names.
MineNamed ==
    \A r \in Runners : pc[r] \in Attending =>
        /\ mine[r] \in Intents
        /\ IntentKey(mine[r]) = Key(r)
        /\ ledger[mine[r]].host = HostOf[r]
        /\ ledger[mine[r]].boot = boot[HostOf[r]]

\* An intent is recorded after its approval was spent.
IntentsSpent ==
    \A i \in Intents :
        /\ ledger[i].appr \in spent[ledger[i].lock]
        /\ ledger[i].lock <= inode

\* A claim is followed by one intent at most.
OneIntent ==
    /\ \A i, j \in Intents : IntentKey(i) = IntentKey(j) => i = j
    /\ \A r \in Runners : pc[r] = "intent" => \A i \in Intents : IntentKey(i) # Key(r)

\* A connection belongs to an intent, and does not exist before the connect.
Contact ==
    /\ \A k \in Keys : sess[k] # "none" => \E i \in Intents : IntentKey(i) = k
    /\ \A r \in Runners : pc[r] \in {"intent", "admit3", "connect"} => sess[Key(r)] = "none"

\* A receipt is what a committed transaction left.
ReceiptShown ==
    \A p \in Approvals : p \in receipts <=> \E n \in Inodes : sess[<<p, n>>] \in DidCommit

\* The executor's result is true of the database.
ResultTrue ==
    \A r \in Runners : pc[r] = "record" =>
        /\ res[r] = "committed" => job[r] \in receipts
        /\ res[r] \in {"not_committed", "not_attempted"} =>
              sess[Key(r)] \notin CanCommit \cup DidCommit

\* What a reconciliation has looked up is true, and stays true.
LookupTrue ==
    /\ \A r \in Runners : todo[r] \subseteq Intents
    /\ \A r \in Runners : pc[r] = "settle" => \A i \in todo[r] : Next_(r, i) =>
          /\ res[r] = "committed" => ledger[i].appr \in receipts
          /\ res[r] = "not_found" => Final(IntentKey(i))

\* What the chain says is true, and stays true.
ChainTrue ==
    \A k \in DOMAIN ledger : ledger[k].ev = "outcome" =>
        /\ ledger[k].of \in Intents
        /\ ledger[ledger[k].of].appr = ledger[k].appr
        /\ ledger[k].st = "committed" => ledger[k].appr \in receipts
        /\ ledger[k].st \in {"not_committed", "not_attempted"} =>
              Final(IntentKey(ledger[k].of))

TruthInv ==
    /\ GuardShape /\ MineNamed /\ IntentsSpent /\ OneIntent /\ Contact
    /\ ReceiptShown /\ ResultTrue /\ LookupTrue /\ ChainTrue

\* Intent i was recorded under the lock that runner r uses.
Here(r, i) == ledger[i].host = HostOf[r] /\ ledger[i].lock = store[r]

\* The owner of a lock has visited every unsettled intent it left behind.
Visited ==
    \A r \in Runners : \A i \in Unsettled(ledger) : Here(r, i) =>
        /\ pc[r] \in {"recon", "settle"} => i \in todo[r] \/ blocked[r]
        /\ pc[r] \notin {"admit1", "claim"}
        /\ pc[r] \in Spent => pc[r] \in Attending /\ i = mine[r]

-----------------------------------------------------------------------------
(* What a step can do, seen from one call, one store file, one connection   *)
(* and the chain.  Everything below rests on these effects, never on the     *)
(* actions themselves.                                                       *)

\* A call gets past the claim by spending its approval, and past the intent by
\* recording it; a call that has finished its execution stays finished.
SpendEffect(q) ==
    /\ pc'[q] \in Spent =>
          /\ job'[q] = job[q]
          /\ store'[q] = store[q]
          /\ \/ pc[q] \in Spent
             \/ /\ pc[q] = "claim" /\ pc'[q] = "intent"
                /\ job[q] \notin spent[store[q]]
                /\ ledger' = ledger /\ sess' = sess
    /\ pc'[q] \in Spent \ {"record"} => pc[q] # "record"
    /\ pc'[q] \in {"intent", "admit3", "connect"} =>
          pc[q] \in {"claim", "intent", "admit3", "connect"}
    /\ pc'[q] = "intent" => pc[q] \in {"claim", "intent"}
    /\ pc'[q] \in Attending =>
          \/ /\ pc[q] \in Attending
             /\ mine'[q] = mine[q]
             /\ boot'[HostOf[q]] = boot[HostOf[q]]
          \/ /\ pc[q] = "intent"
             /\ mine'[q] = Len(ledger) + 1
             /\ ledger' = Append(ledger, IntentEntry(q))
             /\ boot' = boot

\* The store only grows, and so do the receipts.
StoreEffect ==
    /\ inode <= inode'
    /\ \A n \in Inodes : n <= inode => spent[n] \subseteq spent'[n]
    /\ receipts \subseteq receipts'

\* A transaction begins, and a connection is opened, only by the call whose
\* key it is; a commit is for good and leaves its receipt.
SessionEffect(k) ==
    /\ sess[k] \in DidCommit => sess'[k] \in DidCommit
    /\ sess'[k] \in CanCommit \cup DidCommit =>
          \/ sess[k] \in CanCommit \cup DidCommit
          \/ \E r \in Runners : pc[r] = "sql" /\ Key(r) = k
    /\ sess'[k] # "none" =>
          \/ sess[k] # "none"
          \/ \E r \in Runners :
                /\ pc[r] = "connect" /\ Key(r) = k
                /\ pc' = [pc EXCEPT ![r] = "dblock"]
    /\ sess'[k] \in DidCommit => sess[k] \in DidCommit \/ k[1] \in receipts'

\* A new receipt is that of a transaction that commits in this step.
ReceiptEffect ==
    \A p \in receipts' \ receipts : \E n \in Inodes : sess'[<<p, n>>] \in DidCommit

\* The result of an executor that ends in this step.
ResultEffect(q) ==
    pc'[q] = "record" =>
        \/ pc[q] = "record" /\ res'[q] = res[q]
        \/ /\ pc[q] \in Spent
           /\ receipts' = receipts
           /\ res'[q] = "committed" => job[q] \in receipts \/ sess[Key(q)] \in DidCommit
           /\ res'[q] \in {"not_committed", "not_attempted"} =>
                 \/ sess'[Key(q)] = "aborted"
                 \/ pc[q] = "connect" /\ sess' = sess

\* The entry a step appends: an intent by the call that spent the approval, an
\* outcome by a reconciliation, by a call that lapsed, or by an executor's end.
IntentBy(r, i) ==
    /\ pc[r] = "intent"
    /\ ledger'[i] = IntentEntry(r)
    /\ \/ pc' = [pc EXCEPT ![r] = "admit3"] /\ mine'[r] = i
       \/ pc' = [pc EXCEPT ![r] = "idle"]
SettledBy(r, i) ==
    /\ pc[r] = "settle"
    /\ \E j \in todo[r] :
          /\ Next_(r, j)
          /\ \/ /\ res[r] = "committed"
                /\ ledger'[i] = OutcomeEntry(r, ledger[j].appr, j, "committed", TRUE)
             \/ /\ res[r] = "not_found"
                /\ ledger'[i] = OutcomeEntry(r, ledger[j].appr, j, "not_committed", TRUE)
LapsedBy(r, i) ==
    /\ pc[r] = "admit3"
    /\ pc' = [pc EXCEPT ![r] = "idle"]
    /\ ledger'[i] = OutcomeEntry(r, job[r], mine[r], "not_attempted", FALSE)
EndedBy(r, i) ==
    /\ pc[r] = "record"
    /\ ledger'[i] = OutcomeEntry(r, job[r], mine[r], res[r], TRUE)

\* The chain keeps its entries and grows by one entry at most.
LedgerEffect ==
    /\ DOMAIN ledger \subseteq DOMAIN ledger'
    /\ \A i \in DOMAIN ledger : ledger'[i] = ledger[i]
    /\ \A i \in DOMAIN ledger' \ DOMAIN ledger :
          /\ i = Len(ledger) + 1
          /\ UNCHANGED <<store, inode, boot, spent, sess, receipts>>
          /\ \E r \in Runners :
                IntentBy(r, i) \/ SettledBy(r, i) \/ LapsedBy(r, i) \/ EndedBy(r, i)

\* A reconciliation visits what it read, and drops an intent from its list only
\* when it is settled or when the call is blocked.
VisitEffect(q) ==
    /\ todo'[q] \subseteq todo[q] \cup Unsettled(ledger)
    /\ pc'[q] = "settle" =>
          \/ pc[q] = "settle" /\ res'[q] = res[q] /\ todo'[q] = todo[q]
          \/ LookupReceipt(q)
    /\ pc'[q] \in {"recon", "settle"} =>
          \/ /\ pc[q] = "read"
             /\ Unsettled(ledger) \subseteq todo'[q] \/ blocked'[q]
          \/ /\ pc[q] \in {"recon", "settle"}
             /\ blocked[q] => blocked'[q]
             /\ \A i \in todo[q] : i \in todo'[q] \/ blocked'[q] \/ i \notin Unsettled(ledger')
    /\ pc'[q] \in {"admit1", "claim"} =>
          \/ pc[q] \in {"admit1", "claim"}
          \/ pc[q] = "recon" /\ todo[q] = {} /\ ~ blocked[q]
    /\ pc'[q] \in {"recon", "settle", "admit1", "claim"} => store'[q] = store[q]

\* Every step has the effect on a call that SpendEffect describes.
LEMMA SpendEffects ==
    ASSUME OnceInv, [Next]_vars, NEW q \in Runners
    PROVE  SpendEffect(q)
<1> USE DEF OnceInv, TypeInv, TypeOK, Spent, Attending, SpendEffect
<1>1. ASSUME NEW r \in Runners, NEW p \in Approvals, Execute(r, p) PROVE SpendEffect(q)
  BY <1>1 DEF Execute, Goto, hostVars, dbVars
<1>2. ASSUME NEW r \in Runners, NEW f \in Assertions, Reconcile(r, f) PROVE SpendEffect(q)
  BY <1>2 DEF Reconcile, Goto, hostVars, dbVars
<1>3. ASSUME NEW r \in Runners,
             ReadLedger(r) \/ SkipForeign(r) \/ LookupReceipt(r) \/ SettleIntent(r)
      PROVE  SpendEffect(q)
  <2>1. /\ \/ UNCHANGED pc
           \/ Goto(r, "recon")
           \/ Goto(r, "settle")
        /\ UNCHANGED <<job, mine, hostVars, dbVars>>
    BY <1>3 DEF ReadLedger, SkipForeign, LookupReceipt, SettleIntent
  <2> QED BY <2>1 DEF Goto, hostVars, dbVars
<1>4. ASSUME NEW r \in Runners, Return(r), UNCHANGED <<store, boot>> PROVE SpendEffect(q)
  BY <1>4 DEF Return, Goto
<1>5. ASSUME NEW r \in Runners,
             Acquire(r) \/ EndReconcile(r) \/ AdmitSpend(r) \/ RecordOutcome(r)
      PROVE  SpendEffect(q)
  <2>1. /\ UNCHANGED <<store, boot>>
        /\ \/ Return(r)
           \/ /\ UNCHANGED <<job, mine>>
              /\ Goto(r, "read") \/ Goto(r, "admit1") \/ Goto(r, "claim")
    BY <1>5 DEF Acquire, EndReconcile, AdmitSpend, RecordOutcome
  <2> QED BY <1>4, <2>1 DEF Goto
<1>6. ASSUME NEW r \in Runners, Claim(r) PROVE SpendEffect(q)
  <2>1. CASE Return(r)
    BY <1>4, <1>6, <2>1 DEF Claim
  <2>2. CASE ~ Return(r)
    BY <1>6, <2>2 DEF Claim, Goto, dbVars
  <2> QED BY <2>1, <2>2
<1>7. ASSUME NEW r \in Runners, RecordIntent(r) PROVE SpendEffect(q)
  <2>1. CASE Return(r)
    BY <1>4, <1>7, <2>1 DEF RecordIntent
  <2>2. CASE ~ Return(r)
    <3>1. /\ pc[r] = "intent"
          /\ Goto(r, "admit3")
          /\ mine' = [mine EXCEPT ![r] = Len(ledger) + 1]
          /\ UNCHANGED <<job, store, boot>>
          /\ ledger' = Append(ledger, IntentEntry(r))
      BY <1>7, <2>2 DEF RecordIntent, Record
    <3> QED BY <3>1 DEF Goto
  <2> QED BY <2>1, <2>2
<1>8. ASSUME NEW r \in Runners, AdmitExecutor(r) PROVE SpendEffect(q)
  <2>1. CASE Return(r)
    BY <1>4, <1>8, <2>1 DEF AdmitExecutor
  <2>2. CASE ~ Return(r)
    <3>1. pc[r] = "admit3" /\ Goto(r, "connect") /\ UNCHANGED <<job, mine, store, boot>>
      BY <1>8, <2>2 DEF AdmitExecutor
    <3> QED BY <3>1 DEF Goto
  <2> QED BY <2>1, <2>2
<1>9. ASSUME NEW r \in Runners,
             \/ Connect(r) \/ Locked(r) \/ CheckReceipt(r) \/ RunSql(r)
             \/ SendCommit(r) \/ ReadCommit(r) \/ LoseConnection(r)
      PROVE  SpendEffect(q)
  <2>1. /\ UNCHANGED <<job, mine, store, boot>>
        /\ pc[r] \in Attending \ {"admit3", "record"}
        /\ \E ph \in Attending \ {"admit3", "connect"} : Goto(r, ph)
    BY <1>9 DEF Connect, Locked, CheckReceipt, RunSql, SendCommit, ReadCommit,
                LoseConnection, Finish, hostVars
  <2> QED BY <2>1 DEF Goto
<1>10. ASSUME NEW r \in Runners, Crash(r) PROVE SpendEffect(q)
  BY <1>10 DEF Crash, Kill
<1>11. ASSUME NEW r \in Runners, Restart(r) PROVE SpendEffect(q)
  BY <1>11 DEF Restart, Goto
<1>12. ASSUME NEW k \in Keys, Server(k) PROVE SpendEffect(q)
  <2>1. UNCHANGED <<pc, job, mine, store, boot>>
    BY <1>12 DEF Server, GrantLock, ServerCommit, ServerAbort, ServerClose, callVars, hostVars
  <2> QED BY <2>1
<1>13. ASSUME NEW p \in Approvals, Age(p) PROVE SpendEffect(q)
  BY <1>13 DEF Age
<1>14. ASSUME NEW h \in Hosts, Reboot(h) PROVE SpendEffect(q)
  BY <1>14 DEF Reboot, Kill, Hosts
<1>15. ASSUME ReplaceStore \/ UNCHANGED vars PROVE SpendEffect(q)
  BY <1>15 DEF ReplaceStore, vars, callVars, hostVars
<1> HIDE DEF OnceInv, TypeInv, TypeOK, Spent, Attending, SpendEffect
<1> QED
  BY <1>1, <1>2, <1>3, <1>5, <1>6, <1>7, <1>8, <1>9, <1>10, <1>11, <1>12, <1>13, <1>14,
     <1>15, ConstantsAssumption DEF Next, Step

\* Every step has these effects on the store files and on the database.
LEMMA DatabaseEffects ==
    ASSUME OnceInv, Contact, [Next]_vars
    PROVE  StoreEffect /\ ReceiptEffect /\ \A k \in Keys : SessionEffect(k)
<1> DEFINE Goal == StoreEffect /\ ReceiptEffect /\ \A k \in Keys : SessionEffect(k)
<1>1. TypeInv /\ inode \in Nat
  BY ConstantsAssumption DEF OnceInv, TypeInv, TypeOK, Inodes
<1>2. CASE UNCHANGED <<sess, receipts, inode>> /\ \A n \in Inodes : spent[n] \subseteq spent'[n]
  BY <1>1, <1>2 DEF StoreEffect, ReceiptEffect, SessionEffect
<1>3. CASE Quiet
  BY <1>2, <1>3 DEF Quiet
<1>4. ASSUME NEW r \in Runners, Claim(r) PROVE Goal
  <2>1. /\ UNCHANGED <<sess, receipts, inode>>
        /\ spent' = spent \/ spent' = [spent EXCEPT ![store[r]] = @ \cup {job[r]}]
    BY <1>4 DEF Claim, dbVars
  <2>2. \A n \in Inodes : spent[n] \subseteq spent'[n]
    BY <1>1, <2>1 DEF TypeInv, TypeOK
  <2> QED BY <1>2, <2>1, <2>2
<1>5. ASSUME ReplaceStore PROVE Goal
  BY <1>1, <1>5 DEF ReplaceStore, dbVars, StoreEffect, ReceiptEffect, SessionEffect, TypeInv,
                    TypeOK, Inodes
<1>6. ASSUME NEW r \in Runners,
             \/ Connect(r) \/ Locked(r) \/ CheckReceipt(r) \/ RunSql(r)
             \/ SendCommit(r) \/ ReadCommit(r)
      PROVE  Goal
  <2>1. /\ UNCHANGED <<inode, spent, receipts>>
        /\ Key(r) \in Keys /\ Key(r)[1] = job[r]
    <3>1. pc[r] \in Spent /\ UNCHANGED <<inode, spent, receipts>>
      BY <1>6 DEF Connect, Locked, CheckReceipt, RunSql, SendCommit, ReadCommit, Finish, Spent,
                  hostVars
    <3> QED BY <1>1, <3>1 DEF TypeInv, TypeOK, CallShape, Key, Keys
  <2>2. StoreEffect /\ ReceiptEffect
    BY <1>1, <2>1 DEF StoreEffect, ReceiptEffect
  <2>3. ASSUME NEW k \in Keys, k # Key(r) PROVE SessionEffect(k)
    <3>1. sess' = sess \/ \E st \in SessionStates : SessionBecomes(Key(r), st)
      BY <1>6 DEF Connect, Locked, CheckReceipt, RunSql, SendCommit, ReadCommit, Finish,
                  SessionStates
    <3>2. sess'[k] = sess[k]
      BY <1>1, <2>3, <3>1 DEF SessionBecomes, TypeInv, TypeOK
    <3> QED BY <3>2 DEF SessionEffect
  <2>4. SessionEffect(Key(r))
    <3> USE <1>1, <2>1 DEF SessionEffect, SessionBecomes, Goto, Finish, CanCommit, DidCommit,
                           TypeInv, TypeOK
    <3>1. CASE Connect(r)
      <4>1. sess[Key(r)] = "none"
        BY <3>1 DEF Connect, Contact
      <4> QED BY <3>1, <4>1 DEF Connect
    <3>2. CASE Locked(r)
      BY <3>2 DEF Locked
    <3>3. CASE CheckReceipt(r)
      BY <3>3 DEF CheckReceipt
    <3>4. CASE RunSql(r)
      BY <3>4 DEF RunSql
    <3>5. CASE SendCommit(r)
      BY <3>5 DEF SendCommit
    <3>6. CASE ReadCommit(r)
      BY <3>6 DEF ReadCommit
    <3> QED BY <1>6, <3>1, <3>2, <3>3, <3>4, <3>5, <3>6
  <2> QED BY <2>2, <2>3, <2>4
<1>7. ASSUME NEW k \in Keys, Server(k) PROVE Goal
  <2>1. UNCHANGED <<inode, spent>>
    BY <1>7 DEF Server, GrantLock, ServerCommit, ServerAbort, ServerClose, hostVars
  <2>2. /\ \A l \in Keys : l # k => sess'[l] = sess[l]
        /\ sess[k] # "none"
        /\ sess[k] \in DidCommit => sess'[k] \in DidCommit
        /\ sess'[k] \in CanCommit \cup DidCommit => sess[k] \in CanCommit \cup DidCommit
        /\ \/ receipts' = receipts /\ (sess'[k] \in DidCommit => sess[k] \in DidCommit)
           \/ receipts' = receipts \cup {k[1]} /\ sess'[k] \in DidCommit
    BY <1>1, <1>7 DEF Server, GrantLock, ServerCommit, ServerAbort, ServerClose,
                      SessionBecomes, CanCommit, DidCommit, TypeInv, TypeOK
  <2>3. StoreEffect
    BY <1>1, <2>1, <2>2 DEF StoreEffect
  <2>4. ReceiptEffect
    BY <2>2 DEF ReceiptEffect, Keys
  <2>5. \A l \in Keys : SessionEffect(l)
    BY <2>2 DEF SessionEffect
  <2> QED BY <2>3, <2>4, <2>5
<1> HIDE DEF Goal
<1>8. Goal
  BY <1>1, <1>3, <1>4, <1>5, <1>6, <1>7, QuietActions, ConstantsAssumption DEF Next, Step, Goal
<1> QED BY <1>8 DEF Goal

\* Every step has the effect on an executor's result that ResultEffect states.
LEMMA ResultEffects ==
    ASSUME OnceInv, [Next]_vars, NEW q \in Runners
    PROVE  ResultEffect(q)
<1> USE DEF ResultEffect
<1>1. TypeInv
  BY DEF OnceInv
<1>2. CASE pc'[q] # "record" \/ (pc'[q] = pc[q] /\ res'[q] = res[q])
  BY <1>2
<1>3. ASSUME NEW r \in Runners,
             \/ Connect(r) \/ Locked(r) \/ CheckReceipt(r) \/ RunSql(r)
             \/ SendCommit(r) \/ ReadCommit(r) \/ LoseConnection(r)
      PROVE  ResultEffect(q)
  <2>1. CASE q # r
    <3>1. pc'[q] = pc[q] /\ res'[q] = res[q]
      BY <1>1, <1>3, <2>1 DEF Connect, Locked, CheckReceipt, RunSql, SendCommit, ReadCommit,
             LoseConnection, Finish, Goto, TypeInv, TypeOK
    <3> QED BY <1>2, <3>1
  <2>2. CASE q = r
    <3>1. pc[r] \in Spent /\ receipts' = receipts
      BY <1>3 DEF Connect, Locked, CheckReceipt, RunSql, SendCommit, ReadCommit,
                  LoseConnection, Spent, dbVars
    <3>2. Key(r) \in Keys
      BY <1>1, <3>1 DEF TypeInv, TypeOK, CallShape, Key, Keys
    <3> USE <1>1, <2>2, <3>1, <3>2 DEF TypeInv, TypeOK, Goto, Finish, SessionBecomes, DidCommit
    <3>3. CASE Connect(r)
      BY <3>3 DEF Connect
    <3>4. CASE Locked(r)
      BY <3>4 DEF Locked
    <3>5. CASE CheckReceipt(r)
      BY <3>5 DEF CheckReceipt
    <3>6. CASE RunSql(r)
      BY <3>6 DEF RunSql
    <3>7. CASE SendCommit(r)
      BY <3>7 DEF SendCommit
    <3>8. CASE ReadCommit(r)
      BY <3>8 DEF ReadCommit
    <3>9. CASE LoseConnection(r)
      BY <3>9 DEF LoseConnection
    <3> QED BY <1>3, <3>3, <3>4, <3>5, <3>6, <3>7, <3>8, <3>9
  <2> QED BY <2>1, <2>2
<1>4. ASSUME NEW r \in Runners,
             \/ \E p \in Approvals : Execute(r, p)
             \/ \E f \in Assertions : Reconcile(r, f)
             \/ ReadLedger(r) \/ SkipForeign(r) \/ LookupReceipt(r) \/ SettleIntent(r)
      PROVE  ResultEffect(q)
  <2>1. /\ UNCHANGED pc \/ \E ph \in {"guard", "recon", "settle"} : Goto(r, ph)
        /\ pc[r] # "record"
        /\ UNCHANGED res \/ \E st \in {"none"} \cup Receipts : res' = [res EXCEPT ![r] = st]
    BY <1>4 DEF Execute, Reconcile, ReadLedger, SkipForeign, LookupReceipt, SettleIntent, Goto,
                Receipts
  <2> QED BY <1>1, <1>2, <2>1 DEF Goto, TypeInv, TypeOK
<1>5. ASSUME NEW r \in Runners,
             \/ Acquire(r) \/ EndReconcile(r) \/ AdmitSpend(r) \/ Claim(r) \/ RecordIntent(r)
             \/ AdmitExecutor(r) \/ RecordOutcome(r) \/ Restart(r)
      PROVE  ResultEffect(q)
  <2>1. \/ Return(r)
        \/ /\ UNCHANGED res
           /\ \E ph \in {"read", "admit1", "claim", "intent", "admit3", "connect", "idle"} :
                 Goto(r, ph)
    BY <1>5 DEF Acquire, EndReconcile, AdmitSpend, Claim, RecordIntent, AdmitExecutor,
                RecordOutcome, Restart
  <2> QED BY <1>1, <1>2, <2>1 DEF Return, Goto, TypeInv, TypeOK
<1>6. ASSUME NEW dead \in SUBSET Runners, Kill(dead) PROVE ResultEffect(q)
  BY <1>6 DEF Kill
<1>7. ASSUME (\E k \in Keys : Server(k)) \/ (\E p \in Aging : Age(p)) \/ ReplaceStore \/ UNCHANGED vars
      PROVE  ResultEffect(q)
  <2>1. UNCHANGED <<pc, res>>
    BY <1>7 DEF Server, GrantLock, ServerCommit, ServerAbort, ServerClose, Age, ReplaceStore,
                vars, callVars
  <2> QED BY <1>2, <2>1
<1> HIDE DEF ResultEffect
<1>8. (\E r \in Runners : Crash(r)) \/ (\E h \in Hosts : Reboot(h)) => ResultEffect(q)
  BY <1>6 DEF Crash, Reboot
<1> QED BY <1>3, <1>4, <1>5, <1>7, <1>8 DEF Next, Step

\* One append of _record keeps every entry and adds at most one.
LEMMA RecordKeeps ==
    ASSUME ledger \in Seq(Entry), NEW e, NEW ok, Record(e, ok)
    PROVE  /\ DOMAIN ledger \subseteq DOMAIN ledger'
           /\ \A i \in DOMAIN ledger : ledger'[i] = ledger[i]
           /\ \A i \in DOMAIN ledger' \ DOMAIN ledger : i = Len(ledger) + 1 /\ ledger'[i] = e
<1>1. CASE ledger' = ledger
  BY <1>1
<1>2. CASE ledger' = Append(ledger, e)
  BY <1>2
<1> QED BY <1>1, <1>2 DEF Record

\* Every step has the effect on the chain that LedgerEffect describes.
LEMMA LedgerEffects ==
    ASSUME OnceInv, [Next]_vars
    PROVE  LedgerEffect
<1>1. TypeInv /\ ledger \in Seq(Entry)
  BY DEF OnceInv, TypeInv, TypeOK
<1>2. CASE ledger' = ledger
  BY <1>1, <1>2 DEF LedgerEffect
<1>3. ASSUME NEW r \in Runners, RecordIntent(r), ledger' # ledger PROVE LedgerEffect
  <2>1. PICK ok \in BOOLEAN :
          /\ Record(IntentEntry(r), ok)
          /\ IF ok THEN Goto(r, "admit3") /\ mine' = [mine EXCEPT ![r] = Len(ledger) + 1]
             ELSE Goto(r, "idle")
    BY <1>3 DEF RecordIntent, Return
  <2>2. pc[r] = "intent" /\ UNCHANGED <<store, inode, boot, spent, sess, receipts>>
    BY <1>3 DEF RecordIntent, dbVars
  <2>3. /\ DOMAIN ledger \subseteq DOMAIN ledger'
        /\ \A i \in DOMAIN ledger : ledger'[i] = ledger[i]
        /\ \A i \in DOMAIN ledger' \ DOMAIN ledger :
              i = Len(ledger) + 1 /\ ledger'[i] = IntentEntry(r)
    BY <1>1, <2>1, RecordKeeps
  <2>4. \A i \in DOMAIN ledger' \ DOMAIN ledger : IntentBy(r, i)
    BY <1>1, <2>1, <2>2, <2>3 DEF IntentBy, Goto, TypeInv, TypeOK
  <2> QED BY <2>2, <2>3, <2>4 DEF LedgerEffect
<1>4. ASSUME NEW r \in Runners, SettleIntent(r), ledger' # ledger PROVE LedgerEffect
  <2>1. /\ pc[r] = "settle"
        /\ UNCHANGED <<store, inode, boot, spent, sess, receipts>>
    BY <1>4 DEF SettleIntent, hostVars, dbVars
  <2>2. PICK j \in todo[r] :
          /\ Next_(r, j)
          /\ \/ /\ res[r] = "committed"
                /\ \E ok \in BOOLEAN :
                      Record(OutcomeEntry(r, ledger[j].appr, j, "committed", TRUE), ok)
             \/ /\ res[r] = "not_found"
                /\ \E ok \in BOOLEAN :
                      Record(OutcomeEntry(r, ledger[j].appr, j, "not_committed", TRUE), ok)
    BY <1>4 DEF SettleIntent
  <2>3. /\ DOMAIN ledger \subseteq DOMAIN ledger'
        /\ \A i \in DOMAIN ledger : ledger'[i] = ledger[i]
        /\ \A i \in DOMAIN ledger' \ DOMAIN ledger : i = Len(ledger) + 1
    BY <1>1, <2>2, RecordKeeps
  <2>4. \A i \in DOMAIN ledger' \ DOMAIN ledger : SettledBy(r, i)
    BY <1>1, <2>1, <2>2, RecordKeeps DEF SettledBy
  <2> QED BY <2>1, <2>3, <2>4 DEF LedgerEffect
<1>5. ASSUME NEW r \in Runners, AdmitExecutor(r), ledger' # ledger PROVE LedgerEffect
  <2>1. PICK ok \in BOOLEAN :
          Record(OutcomeEntry(r, job[r], mine[r], "not_attempted", FALSE), ok)
    BY <1>5 DEF AdmitExecutor
  <2>2. /\ pc[r] = "admit3" /\ pc' = [pc EXCEPT ![r] = "idle"]
        /\ UNCHANGED <<store, inode, boot, spent, sess, receipts>>
    BY <1>5 DEF AdmitExecutor, Return, Goto, dbVars
  <2> QED BY <1>1, <2>1, <2>2, RecordKeeps DEF LedgerEffect, LapsedBy
<1>6. ASSUME NEW r \in Runners, RecordOutcome(r), ledger' # ledger PROVE LedgerEffect
  <2>1. PICK ok \in BOOLEAN : Record(OutcomeEntry(r, job[r], mine[r], res[r], TRUE), ok)
    BY <1>6 DEF RecordOutcome
  <2>2. pc[r] = "record" /\ UNCHANGED <<store, inode, boot, spent, sess, receipts>>
    BY <1>6 DEF RecordOutcome, dbVars
  <2> QED BY <1>1, <2>1, <2>2, RecordKeeps DEF LedgerEffect, EndedBy
<1>7. ASSUME NEW r \in Runners,
             \/ \E p \in Approvals : Execute(r, p)
             \/ \E f \in Assertions : Reconcile(r, f)
             \/ Acquire(r) \/ ReadLedger(r) \/ SkipForeign(r) \/ LookupReceipt(r)
             \/ EndReconcile(r) \/ AdmitSpend(r) \/ Claim(r) \/ LoseConnection(r) \/ Crash(r)
             \/ Restart(r)
      PROVE  ledger' = ledger
  BY <1>7 DEF Execute, Reconcile, Acquire, ReadLedger, SkipForeign, LookupReceipt,
              EndReconcile, AdmitSpend, Claim, LoseConnection, Crash, Restart
<1>8. ASSUME NEW r \in Runners,
             \/ Connect(r) \/ Locked(r) \/ CheckReceipt(r) \/ RunSql(r)
             \/ SendCommit(r) \/ ReadCommit(r)
      PROVE  ledger' = ledger
  BY <1>8 DEF Connect, Locked, CheckReceipt, RunSql, SendCommit, ReadCommit
<1>9. ASSUME \/ \E k \in Keys : Server(k)
             \/ \E p \in Aging : Age(p)
             \/ \E h \in Hosts : Reboot(h)
             \/ ReplaceStore
             \/ UNCHANGED vars
      PROVE  ledger' = ledger
  BY <1>9 DEF Server, GrantLock, ServerCommit, ServerAbort, ServerClose, Age, Reboot,
              ReplaceStore, vars
<1> QED BY <1>2, <1>3, <1>4, <1>5, <1>6, <1>7, <1>8, <1>9 DEF Next, Step

\* Every step has the effect on a reconciliation that VisitEffect describes.
LEMMA VisitEffects ==
    ASSUME OnceInv, [Next]_vars, NEW q \in Runners
    PROVE  VisitEffect(q)
<1>1. TypeInv /\ ledger \in Seq(Entry) /\ blocked[q] \in BOOLEAN
  BY DEF OnceInv, TypeInv, TypeOK
<1>2. CASE /\ todo'[q] \subseteq todo[q]
           /\ pc'[q] \notin {"recon", "settle", "admit1", "claim"}
  BY <1>2 DEF VisitEffect
<1>3. CASE /\ pc'[q] = pc[q] /\ res'[q] = res[q] /\ todo'[q] = todo[q]
           /\ blocked'[q] = blocked[q] /\ store'[q] = store[q]
  BY <1>3 DEF VisitEffect
<1> USE DEF TypeInv, TypeOK, Goto
<1>4. ASSUME NEW r \in Runners,
             \/ \E p \in Approvals : Execute(r, p)
             \/ \E f \in Assertions : Reconcile(r, f)
             \/ Restart(r)
      PROVE  VisitEffect(q)
  <2>1. /\ UNCHANGED <<res, todo, blocked>>
        /\ Goto(r, "guard") \/ Goto(r, "idle")
        /\ \E n \in Inodes : store' = [store EXCEPT ![r] = n]
    BY <1>1, <1>4 DEF Execute, Reconcile, Restart, hostVars
  <2> QED BY <1>1, <1>2, <1>3, <2>1
<1>5. ASSUME NEW r \in Runners, Return(r), UNCHANGED store PROVE VisitEffect(q)
  BY <1>1, <1>2, <1>3, <1>5 DEF Return
<1>6. ASSUME NEW r \in Runners,
             \/ Acquire(r) \/ Claim(r) \/ RecordIntent(r) \/ AdmitExecutor(r)
             \/ RecordOutcome(r)
      PROVE  VisitEffect(q)
  <2>1. /\ UNCHANGED store
        /\ \/ Return(r)
           \/ /\ UNCHANGED <<res, todo, blocked>>
              /\ \E ph \in {"read", "intent", "admit3", "connect"} : Goto(r, ph)
    BY <1>6 DEF Acquire, Claim, RecordIntent, AdmitExecutor, RecordOutcome
  <2> QED BY <1>1, <1>2, <1>3, <1>5, <2>1
<1>7. ASSUME NEW r \in Runners,
             \/ Connect(r) \/ Locked(r) \/ CheckReceipt(r) \/ RunSql(r)
             \/ SendCommit(r) \/ ReadCommit(r) \/ LoseConnection(r)
      PROVE  VisitEffect(q)
  <2>1. /\ UNCHANGED <<todo, blocked, store>>
        /\ \E ph \in Spent : Goto(r, ph)
        /\ UNCHANGED res \/ \E st \in Outcomes : res' = [res EXCEPT ![r] = st]
    BY <1>7 DEF Connect, Locked, CheckReceipt, RunSql, SendCommit, ReadCommit,
                LoseConnection, Finish, Spent, Outcomes, Terminal, hostVars
  <2> QED BY <1>1, <1>2, <1>3, <2>1 DEF Spent
<1>8. ASSUME NEW r \in Runners, ReadLedger(r) PROVE VisitEffect(q)
  <2>1. CASE q # r
    BY <1>1, <1>3, <1>8, <2>1 DEF ReadLedger, hostVars
  <2>2. CASE q = r
    BY <1>1, <1>8, <2>2 DEF ReadLedger, hostVars, VisitEffect
  <2> QED BY <2>1, <2>2
<1>9. ASSUME NEW r \in Runners, SkipForeign(r) PROVE VisitEffect(q)
  <2>1. CASE q # r
    BY <1>1, <1>3, <1>9, <2>1 DEF SkipForeign, hostVars
  <2>2. CASE q = r
    BY <1>1, <1>9, <2>2 DEF SkipForeign, hostVars, VisitEffect
  <2> QED BY <2>1, <2>2
<1>10. ASSUME NEW r \in Runners, LookupReceipt(r) PROVE VisitEffect(q)
  <2>1. /\ pc[r] = "recon"
        /\ Goto(r, "settle")
        /\ \E st \in Receipts : res' = [res EXCEPT ![r] = st]
        /\ UNCHANGED <<todo, blocked, store>>
    BY <1>10 DEF LookupReceipt, Receipts, hostVars
  <2>2. CASE q # r
    BY <1>1, <1>3, <2>1, <2>2
  <2>3. CASE q = r
    BY <1>1, <1>10, <2>1, <2>3 DEF VisitEffect
  <2> QED BY <2>2, <2>3
<1>11. ASSUME NEW r \in Runners, SettleIntent(r) PROVE VisitEffect(q)
  <2>1. /\ pc[r] = "settle"
        /\ Goto(r, "recon")
        /\ res' = [res EXCEPT ![r] = "none"]
        /\ UNCHANGED store
    BY <1>11 DEF SettleIntent, hostVars
  <2>2. PICK i \in todo[r] :
          /\ todo' = [todo EXCEPT ![r] = @ \ {i}]
          /\ \/ blocked' = [blocked EXCEPT ![r] = TRUE]
             \/ /\ blocked' = [blocked EXCEPT ![r] = @]
                /\ \E st \in Terminal :
                      Record(OutcomeEntry(r, ledger[i].appr, i, st, TRUE), TRUE)
    <3>1. PICK i \in todo[r] :
            /\ todo' = [todo EXCEPT ![r] = @ \ {i}]
            /\ \/ blocked' = [blocked EXCEPT ![r] = TRUE]
               \/ \E st \in Terminal, ok \in BOOLEAN :
                     /\ Record(OutcomeEntry(r, ledger[i].appr, i, st, TRUE), ok)
                     /\ blocked' = [blocked EXCEPT ![r] = @ \/ ~ ok]
      BY <1>11 DEF SettleIntent, Terminal
    <3>2. CASE blocked' = [blocked EXCEPT ![r] = TRUE]
      BY <3>1, <3>2
    <3>3. ASSUME NEW st \in Terminal, NEW ok \in BOOLEAN,
                 Record(OutcomeEntry(r, ledger[i].appr, i, st, TRUE), ok),
                 blocked' = [blocked EXCEPT ![r] = @ \/ ~ ok]
          PROVE  \/ blocked' = [blocked EXCEPT ![r] = TRUE]
                 \/ /\ blocked' = [blocked EXCEPT ![r] = @]
                    /\ Record(OutcomeEntry(r, ledger[i].appr, i, st, TRUE), TRUE)
      <4>1. blocked[r] \in BOOLEAN /\ blocked \in [Runners -> BOOLEAN]
        BY <1>1
      <4>2. CASE ok = TRUE
        <5>1. (blocked[r] \/ ~ ok) = blocked[r]
          BY <4>1, <4>2
        <5>2. blocked' = [blocked EXCEPT ![r] = @]
          BY <3>3, <5>1
        <5> QED BY <3>3, <4>2, <5>2
      <4>3. CASE ok = FALSE
        <5>1. (blocked[r] \/ ~ ok) = TRUE
          BY <4>3, Zenon
        <5> QED BY <3>3, <5>1
      <4> QED BY <4>2, <4>3
    <3> QED BY <3>1, <3>2, <3>3
  <2>3. CASE q # r
    BY <1>1, <1>3, <2>1, <2>2, <2>3
  <2>4. CASE q = r
    <3>1. i \in DOMAIN ledger
      BY <1>1, <2>2 DEF CallShape
    <3>2. CASE blocked' = [blocked EXCEPT ![r] = TRUE]
      BY <1>1, <2>1, <2>2, <2>4, <3>2 DEF VisitEffect
    <3>3. CASE /\ blocked' = [blocked EXCEPT ![r] = @]
               /\ \E st \in Terminal :
                     Record(OutcomeEntry(r, ledger[i].appr, i, st, TRUE), TRUE)
      <4>1. i \notin Unsettled(ledger')
        <5>1. PICK st \in Terminal : Record(OutcomeEntry(r, ledger[i].appr, i, st, TRUE), TRUE)
          BY <3>3
        <5>2. /\ ledger'[i] = ledger[i]
              /\ Len(ledger) + 1 \in DOMAIN ledger'
              /\ ledger'[Len(ledger) + 1] = OutcomeEntry(r, ledger[i].appr, i, st, TRUE)
              /\ Len(ledger) + 1 > i
          <6> DEFINE e == OutcomeEntry(r, ledger[i].appr, i, st, TRUE)
          <6>1. ledger' = Append(ledger, e)
            BY <5>1 DEF Record
          <6> HIDE DEF e
          <6>2. /\ ledger'[i] = ledger[i]
                /\ Len(ledger) + 1 \in DOMAIN ledger'
                /\ ledger'[Len(ledger) + 1] = e
                /\ Len(ledger) + 1 > i
            BY <1>1, <3>1, <6>1
          <6> QED BY <6>2 DEF e
        <5>3. Settles(ledger', i, Len(ledger) + 1)
          BY <5>2 DEF Settles, OutcomeEntry
        <5> QED BY <5>2, <5>3 DEF Unsettled
      <4>2. /\ todo'[q] = todo[q] \ {i} /\ pc'[q] = "recon" /\ pc[q] = "settle"
            /\ blocked'[q] = blocked[q] /\ store'[q] = store[q]
        BY <1>1, <2>1, <2>2, <2>4, <3>3
      <4> QED BY <4>1, <4>2 DEF VisitEffect
    <3> QED BY <2>2, <3>2, <3>3
  <2> QED BY <2>3, <2>4
<1>12. ASSUME NEW r \in Runners, EndReconcile(r) PROVE VisitEffect(q)
  <2>1. CASE Return(r)
    BY <1>5, <1>12, <2>1 DEF EndReconcile
  <2>2. CASE ~ Return(r)
    <3>1. /\ pc[r] = "recon" /\ todo[r] = {} /\ ~ blocked[r]
          /\ Goto(r, "admit1") /\ UNCHANGED <<todo, blocked, res, store>>
      BY <1>12, <2>2 DEF EndReconcile
    <3>2. CASE q # r
      BY <1>1, <1>3, <3>1, <3>2
    <3>3. CASE q = r
      BY <1>1, <3>1, <3>3 DEF VisitEffect
    <3> QED BY <3>2, <3>3
  <2> QED BY <2>1, <2>2
<1>12a. ASSUME NEW r \in Runners, AdmitSpend(r) PROVE VisitEffect(q)
  <2>1. CASE Return(r)
    BY <1>5, <1>12a, <2>1 DEF AdmitSpend
  <2>2. CASE ~ Return(r)
    <3>1. pc[r] = "admit1" /\ Goto(r, "claim") /\ UNCHANGED <<todo, blocked, res, store>>
      BY <1>12a, <2>2 DEF AdmitSpend
    <3>2. CASE q # r
      BY <1>1, <1>3, <3>1, <3>2
    <3>3. CASE q = r
      BY <1>1, <3>1, <3>3 DEF VisitEffect
    <3> QED BY <3>2, <3>3
  <2> QED BY <2>1, <2>2
<1>13. ASSUME NEW dead \in SUBSET Runners, Kill(dead), UNCHANGED store PROVE VisitEffect(q)
  BY <1>2, <1>3, <1>13 DEF Kill
<1>14. ASSUME \/ \E k \in Keys : Server(k)
              \/ \E p \in Aging : Age(p)
              \/ ReplaceStore
              \/ UNCHANGED vars
      PROVE  VisitEffect(q)
  <2>1. UNCHANGED <<pc, res, todo, blocked, store>>
    BY <1>14 DEF Server, GrantLock, ServerCommit, ServerAbort, ServerClose, Age,
                 ReplaceStore, vars, callVars, hostVars
  <2> QED BY <1>3, <2>1
<1> HIDE DEF TypeInv, TypeOK, Goto
<1>15. (\E r \in Runners : Crash(r)) \/ (\E h \in Hosts : Reboot(h)) => VisitEffect(q)
  BY <1>13 DEF Crash, Reboot
<1> QED
  BY <1>4, <1>6, <1>7, <1>8, <1>9, <1>10, <1>11, <1>12, <1>12a, <1>14, <1>15
     DEF Next, Step

-----------------------------------------------------------------------------
(* The invariant, part by part.                                             *)

\* The flock is held by the calls in progress, one for each host and file.
LEMMA GuardStep ==
    ASSUME OnceInv, GuardShape, [Next]_vars
    PROVE  GuardShape'
<1>1. TypeInv
  BY DEF OnceInv
<1>2. CASE /\ UNCHANGED <<guard, store>>
           /\ \A q \in Runners : pc'[q] \in Owning <=> pc[q] \in Owning
  BY <1>2 DEF GuardShape
<1>3. ASSUME NEW gone \in SUBSET Runners, guard' = guard \ gone, store' = store,
             \A q \in Runners : IF q \in gone THEN pc'[q] \notin Owning ELSE pc'[q] = pc[q]
      PROVE  GuardShape'
  BY <1>3 DEF GuardShape
<1> USE DEF Owning, Reconciling, Spent
<1>4. ASSUME NEW r \in Runners, Return(r), UNCHANGED store PROVE GuardShape'
  <2>1. /\ guard' = guard \ {r}
        /\ \A q \in Runners : IF q \in {r} THEN pc'[q] \notin Owning ELSE pc'[q] = pc[q]
    BY <1>1, <1>4 DEF Return, Goto, TypeInv, TypeOK
  <2> HIDE DEF Owning
  <2> QED BY <1>3, <1>4, <2>1
<1>5. ASSUME NEW dead \in SUBSET Runners, Kill(dead), UNCHANGED store PROVE GuardShape'
  <2>1. /\ guard' = guard \ dead
        /\ \A q \in Runners : IF q \in dead THEN pc'[q] \notin Owning ELSE pc'[q] = pc[q]
    BY <1>1, <1>5 DEF Kill
  <2> HIDE DEF Owning
  <2> QED BY <1>3, <1>5, <2>1
<1>6. ASSUME NEW r \in Runners, Acquire(r) PROVE GuardShape'
  <2>1. CASE Return(r)
    BY <1>4, <1>6, <2>1 DEF Acquire
  <2>2. CASE ~ Return(r)
    <3>1. /\ \A q \in guard : HostOf[q] = HostOf[r] => store[q] # store[r]
          /\ guard' = guard \cup {r}
          /\ pc' = [pc EXCEPT ![r] = "read"]
          /\ UNCHANGED store
      BY <1>6, <2>2 DEF Acquire, Goto
    <3>2. \A q \in Runners : pc'[q] = IF q = r THEN "read" ELSE pc[q]
      BY <1>1, <3>1 DEF TypeInv, TypeOK
    <3>3. guard' = {q \in Runners : pc'[q] \in Owning}
      BY <3>1, <3>2 DEF GuardShape
    <3>4. \A q, o \in guard' : (HostOf[q] = HostOf[o] /\ store[q] = store[o]) => q = o
      BY <3>1 DEF GuardShape
    <3> QED BY <3>1, <3>3, <3>4 DEF GuardShape
  <2> QED BY <2>1, <2>2
<1>7. ASSUME NEW r \in Runners, NEW ph \in Owning, Goto(r, ph), pc[r] \in Owning,
             UNCHANGED <<guard, store>>
      PROVE  GuardShape'
  BY <1>1, <1>2, <1>7 DEF Goto, TypeInv, TypeOK
<1>8. ASSUME NEW r \in Runners,
             \/ EndReconcile(r) \/ AdmitSpend(r) \/ Claim(r) \/ RecordIntent(r)
             \/ AdmitExecutor(r) \/ RecordOutcome(r)
      PROVE  GuardShape'
  <2>1. /\ UNCHANGED store
        /\ pc[r] \in Owning
        /\ Return(r) \/ (guard' = guard /\ \E ph \in Owning : Goto(r, ph))
    BY <1>8 DEF EndReconcile, AdmitSpend, Claim, RecordIntent, AdmitExecutor, RecordOutcome
  <2> QED BY <1>4, <1>7, <2>1
<1>9. ASSUME NEW r \in Runners,
             \/ ReadLedger(r) \/ SkipForeign(r) \/ LookupReceipt(r) \/ SettleIntent(r)
             \/ Connect(r) \/ Locked(r) \/ CheckReceipt(r) \/ RunSql(r)
             \/ SendCommit(r) \/ ReadCommit(r) \/ LoseConnection(r)
      PROVE  GuardShape'
  <2>1. /\ UNCHANGED <<guard, store>>
        /\ pc[r] \in Owning
        /\ UNCHANGED pc \/ \E ph \in Owning : Goto(r, ph)
    BY <1>9 DEF ReadLedger, SkipForeign, LookupReceipt, SettleIntent, Connect, Locked,
                CheckReceipt, RunSql, SendCommit, ReadCommit, LoseConnection, Finish, hostVars
  <2> QED BY <1>2, <1>7, <2>1
<1>10. ASSUME NEW r \in Runners,
              \/ \E p \in Approvals : Execute(r, p)
              \/ \E f \in Assertions : Reconcile(r, f)
       PROVE  GuardShape'
  <2>1. pc[r] = "idle" /\ Goto(r, "guard") /\ UNCHANGED <<guard, store>>
    BY <1>10 DEF Execute, Reconcile, hostVars
  <2>2. \A q \in Runners : pc'[q] \in Owning <=> pc[q] \in Owning
    BY <1>1, <2>1 DEF Goto, TypeInv, TypeOK
  <2> QED BY <1>2, <2>1, <2>2
<1>11. ASSUME NEW r \in Runners, Restart(r) PROVE GuardShape'
  <2>1. /\ pc[r] \notin Owning /\ guard' = guard
        /\ \A q \in Runners : IF q = r THEN pc'[q] \notin Owning
                               ELSE pc'[q] = pc[q] /\ store'[q] = store[q]
    BY <1>1, <1>11 DEF Restart, Goto, TypeInv, TypeOK
  <2> HIDE DEF Owning
  <2> QED BY <2>1 DEF GuardShape
<1>12. ASSUME \/ \E k \in Keys : Server(k)
              \/ \E p \in Aging : Age(p)
              \/ ReplaceStore
              \/ UNCHANGED vars
       PROVE  GuardShape'
  <2>1. UNCHANGED <<pc, guard, store>>
    BY <1>12 DEF Server, GrantLock, ServerCommit, ServerAbort, ServerClose, Age,
                 ReplaceStore, vars, callVars, hostVars
  <2> QED BY <1>2, <2>1
<1> HIDE DEF Owning, Reconciling, Spent
<1>13. (\E r \in Runners : Crash(r)) \/ (\E h \in Hosts : Reboot(h)) => GuardShape'
  BY <1>5 DEF Crash, Reboot
<1> QED BY <1>6, <1>8, <1>9, <1>10, <1>11, <1>12, <1>13 DEF Next, Step

\* What an intent says, and its key, never change.
LEMMA IntentsKept ==
    ASSUME OnceInv, LedgerEffect
    PROVE  /\ Intents \subseteq Intents'
           /\ \A i \in Intents : ledger'[i] = ledger[i] /\ IntentKey(i)' = IntentKey(i)
           /\ \A i \in Intents : IntentKey(i) \in Keys
           /\ \A i \in Intents' : i \notin Intents =>
                 /\ i = Len(ledger) + 1
                 /\ UNCHANGED <<store, inode, boot, spent, sess, receipts>>
                 /\ \E r \in Runners : IntentBy(r, i)
<1>1. /\ Intents \subseteq Intents'
      /\ \A i \in Intents : ledger'[i] = ledger[i] /\ IntentKey(i)' = IntentKey(i)
  BY DEF LedgerEffect, Intents, IntentKey
<1>2. ASSUME NEW i \in Intents PROVE IntentKey(i) \in Keys
  <2>1. ledger[i] \in Entry
    BY DEF Intents, OnceInv, TypeInv, TypeOK
  <2> QED BY <2>1 DEF Entry, IntentKey, Keys
<1>3. ASSUME NEW i \in Intents', i \notin Intents
      PROVE  /\ i = Len(ledger) + 1
             /\ UNCHANGED <<store, inode, boot, spent, sess, receipts>>
             /\ \E r \in Runners : IntentBy(r, i)
  <2>1. i \in DOMAIN ledger' \ DOMAIN ledger /\ ledger'[i].ev = "intent"
    BY <1>3 DEF Intents, LedgerEffect
  <2>2. ASSUME NEW r \in Runners, SettledBy(r, i) \/ LapsedBy(r, i) \/ EndedBy(r, i)
        PROVE  FALSE
    BY <2>1, <2>2 DEF SettledBy, LapsedBy, EndedBy, OutcomeEntry
  <2> QED BY <2>1, <2>2 DEF LedgerEffect
<1> QED BY <1>1, <1>2, <1>3

\* The transaction of a key that is final stays so, whatever happens.
LEMMA FinalKept ==
    ASSUME OnceInv, TypeInv', StoreEffect, NEW k \in Keys, SessionEffect(k),
           \A q \in Runners : SpendEffect(q), Final(k)
    PROVE  Final(k)'
<1>1. k[2] \in Inodes /\ k[2] <= inode'
  BY ConstantsAssumption DEF Keys, Inodes, OnceInv, TypeInv, TypeOK, Final, StoreEffect
<1>2. sess'[k] \notin CanCommit \cup DidCommit
  BY DEF SessionEffect, Final, Live, Spent
<1>3. k[1] \in spent'[k[2]]
  BY <1>1 DEF StoreEffect, Final, Keys
<1>4. ASSUME NEW r \in Runners, pc'[r] \in Spent \ {"record"}, Key(r)' = k PROVE FALSE
  <2>1. /\ Key(r) = k
        /\ \/ pc[r] \in Spent \ {"record"}
           \/ job[r] \notin spent[store[r]]
    BY <1>4 DEF SpendEffect, Key
  <2> QED BY <2>1 DEF Final, Live, Key
<1>5. ~ Live(k)'
  BY <1>4 DEF Live
<1> QED BY <1>1, <1>2, <1>3, <1>5 DEF Final

\* The key of an intent, and that its transaction is final, after the step.
KeyAfter(i) == <<ledger'[i].appr, ledger'[i].lock>>

FinalAfter(k) ==
    /\ sess'[k] \notin CanCommit \cup DidCommit
    /\ ~ \E r \in Runners : pc'[r] \in Spent \ {"record"} /\ <<job'[r], store'[r]>> = k
    /\ k[1] \in spent'[k[2]]
    /\ k[2] <= inode'

\* So does the transaction of an intent.
LEMMA IntentFinalKept ==
    ASSUME OnceInv, TypeInv', StoreEffect, LedgerEffect, \A k \in Keys : SessionEffect(k),
           \A q \in Runners : SpendEffect(q), NEW i \in Intents, Final(IntentKey(i))
    PROVE  FinalAfter(IntentKey(i)) /\ KeyAfter(i) = IntentKey(i)
<1>1. PICK k \in Keys : k = IntentKey(i) /\ k = IntentKey(i)'
  BY IntentsKept
<1>2. Final(k)'
  <2>1. Final(k)
    BY <1>1
  <2> QED BY <2>1, FinalKept
<1>3. FinalAfter(k)
  BY <1>2 DEF Final, Live, FinalAfter, Key
<1> QED BY <1>1, <1>3 DEF KeyAfter, IntentKey

\* An intent names its approval as spent, its key is its own, and the call past
\* it is the owner it names.
LEMMA OwnerStep ==
    ASSUME OnceInv, OnceInv', TruthInv, LedgerEffect, StoreEffect,
           \A q \in Runners : SpendEffect(q)
    PROVE  MineNamed' /\ IntentsSpent' /\ OneIntent'
<1> USE DEF TruthInv
<1>1. /\ Intents \subseteq Intents'
      /\ \A i \in Intents : ledger'[i] = ledger[i] /\ IntentKey(i)' = IntentKey(i)
      /\ \A i \in Intents' : i \notin Intents =>
            /\ i = Len(ledger) + 1
            /\ UNCHANGED <<store, inode, boot, spent, sess, receipts>>
            /\ \E r \in Runners : IntentBy(r, i)
  BY IntentsKept
<1>2. ASSUME NEW i \in Intents', i \notin Intents
      PROVE  \E r \in Runners :
               /\ pc[r] = "intent" /\ pc'[r] # "intent"
               /\ \A q \in Runners : q # r => pc'[q] = pc[q]
               /\ ledger'[i] = IntentEntry(r)
               /\ IntentKey(i)' = Key(r)
               /\ job[r] \in spent'[store[r]] /\ store[r] <= inode'
  <2>1. PICK r \in Runners : IntentBy(r, i)
    BY <1>1, <1>2
  <2>2. /\ pc[r] = "intent" /\ pc'[r] # "intent"
        /\ \A q \in Runners : q # r => pc'[q] = pc[q]
        /\ ledger'[i] = IntentEntry(r)
    BY <2>1 DEF IntentBy, OnceInv, TypeInv, TypeOK
  <2>3. IntentKey(i)' = Key(r)
    BY <2>2 DEF IntentKey, IntentEntry, Key
  <2>4. job[r] \in spent'[store[r]] /\ store[r] <= inode'
    BY <1>1, <1>2, <2>2 DEF OnceInv, StoreShape, Spent
  <2> QED BY <2>2, <2>3, <2>4
<1>3. MineNamed'
  <2> SUFFICES ASSUME NEW r \in Runners, pc'[r] \in Attending
               PROVE  /\ mine'[r] \in Intents'
                      /\ IntentKey(mine[r])' = Key(r)'
                      /\ ledger'[mine'[r]].host = HostOf[r]
                      /\ ledger'[mine'[r]].boot = boot'[HostOf[r]]
    BY DEF MineNamed
  <2>1. Key(r)' = Key(r)
    BY DEF SpendEffect, Attending, Key
  <2>2. CASE /\ pc[r] \in Attending
             /\ mine'[r] = mine[r]
             /\ boot'[HostOf[r]] = boot[HostOf[r]]
    <3>1. /\ mine[r] \in Intents
          /\ IntentKey(mine[r]) = Key(r)
          /\ ledger[mine[r]].host = HostOf[r]
          /\ ledger[mine[r]].boot = boot[HostOf[r]]
      BY <2>2 DEF MineNamed
    <3>2. IntentKey(mine[r])' = Key(r)
      BY <1>1, <2>2, <3>1 DEF IntentKey
    <3> QED BY <1>1, <2>1, <2>2, <3>1, <3>2
  <2>3. CASE /\ pc[r] = "intent"
             /\ mine'[r] = Len(ledger) + 1
             /\ ledger' = Append(ledger, IntentEntry(r))
             /\ boot' = boot
    <3>1. mine'[r] \in DOMAIN ledger' /\ ledger'[mine'[r]] = IntentEntry(r)
      <4>1. ledger \in Seq(Entry)
        BY DEF OnceInv, TypeInv, TypeOK
      <4> QED BY <2>3, <4>1
    <3> QED BY <2>1, <2>3, <3>1 DEF IntentEntry, Intents, IntentKey, Key
  <2> QED BY <2>2, <2>3 DEF SpendEffect
<1>4. IntentsSpent'
  <2> SUFFICES ASSUME NEW i \in Intents'
               PROVE  ledger'[i].appr \in spent'[ledger'[i].lock] /\ ledger'[i].lock <= inode'
    BY DEF IntentsSpent
  <2>1. CASE i \in Intents
    <3>1. ledger[i].lock \in Inodes /\ ledger[i].lock \in Nat /\ inode \in Nat /\ inode' \in Nat
      <4>1. ledger[i] \in Entry
        BY <2>1 DEF Intents, OnceInv, TypeInv, TypeOK
      <4> QED BY <4>1, ConstantsAssumption DEF Entry, Inodes, OnceInv, TypeInv, TypeOK
    <3> QED BY <1>1, <2>1, <3>1 DEF IntentsSpent, StoreEffect
  <2>2. CASE i \notin Intents
    <3>1. PICK r \in Runners : /\ ledger'[i] = IntentEntry(r)
                               /\ job[r] \in spent'[store[r]] /\ store[r] <= inode'
      BY <1>2, <2>2
    <3> QED BY <3>1 DEF IntentEntry
  <2> QED BY <2>1, <2>2
<1>5. OneIntent'
  <2>1. ASSUME NEW i \in Intents', NEW j \in Intents', IntentKey(i)' = IntentKey(j)'
        PROVE  i = j
    <3>1. CASE i \in Intents /\ j \in Intents
      BY <1>1, <2>1, <3>1 DEF OneIntent
    <3>2. CASE i \notin Intents /\ j \notin Intents
      BY <1>1, <3>2
    <3>3. ASSUME NEW a \in Intents, NEW b \in Intents', b \notin Intents,
                 IntentKey(a)' = IntentKey(b)'
          PROVE  FALSE
      <4>1. PICK r \in Runners : pc[r] = "intent" /\ IntentKey(b)' = Key(r)
        BY <1>2, <3>3
      <4> QED BY <1>1, <3>3, <4>1 DEF OneIntent
    <3> QED BY <2>1, <3>1, <3>2, <3>3
  <2>2. ASSUME NEW r \in Runners, pc'[r] = "intent", NEW i \in Intents', IntentKey(i)' = Key(r)'
        PROVE  FALSE
    <3>1. Key(r)' = Key(r) /\ pc[r] \in {"claim", "intent"}
      BY <2>2 DEF SpendEffect, Spent, Key
    <3>2. CASE i \in Intents /\ pc[r] = "intent"
      BY <1>1, <2>2, <3>1, <3>2 DEF OneIntent
    <3>3. CASE i \in Intents /\ pc[r] = "claim"
      <4>1. job[r] \notin spent[store[r]]
        BY <2>2, <3>3 DEF SpendEffect, Spent
      <4> QED BY <1>1, <2>2, <3>1, <3>3, <4>1 DEF IntentsSpent, IntentKey, Key
    <3>4. CASE i \notin Intents
      <4>1. PICK o \in Runners : /\ pc[o] = "intent" /\ pc'[o] # "intent"
                                 /\ \A q \in Runners : q # o => pc'[q] = pc[q]
                                 /\ IntentKey(i)' = Key(o)
        BY <1>2, <3>4
      <4>2. r # o /\ pc[r] = "intent" /\ Key(r) = Key(o)
        BY <2>2, <3>1, <4>1
      <4> QED BY <4>1, <4>2 DEF OnceInv, OneOwner, Spent
    <3> QED BY <3>1, <3>2, <3>3, <3>4
  <2> QED BY <2>1, <2>2 DEF OneIntent
<1> QED BY <1>3, <1>4, <1>5

\* A connection belongs to a recorded intent, a receipt to a committed
\* transaction, and an executor's result is true of the database.
LEMMA DatabaseStep ==
    ASSUME OnceInv, OnceInv', TruthInv, LedgerEffect, ReceiptEffect, StoreEffect,
           \A k \in Keys : SessionEffect(k),
           \A q \in Runners : SpendEffect(q) /\ ResultEffect(q)
    PROVE  Contact' /\ ReceiptShown' /\ ResultTrue'
<1> USE DEF TruthInv
<1>1. /\ Intents \subseteq Intents'
      /\ \A i \in Intents : IntentKey(i)' = IntentKey(i)
  BY IntentsKept
<1>2. \A r \in Runners : pc[r] \in Spent => Key(r) \in Keys
  BY DEF OnceInv, TypeInv, TypeOK, CallShape, Key, Keys
<1>3. Contact'
  <2>1. ASSUME NEW k \in Keys, sess'[k] # "none"
        PROVE  \E i \in Intents' : IntentKey(i)' = k
    <3>1. CASE sess[k] # "none"
      BY <1>1, <3>1 DEF Contact
    <3>2. ASSUME NEW r \in Runners, pc[r] = "connect", Key(r) = k
          PROVE  \E i \in Intents' : IntentKey(i)' = k
      BY <1>1, <3>2 DEF MineNamed, Attending, Spent
    <3> QED BY <2>1, <3>1, <3>2 DEF SessionEffect
  <2>2. ASSUME NEW r \in Runners, pc'[r] \in {"intent", "admit3", "connect"}
        PROVE  sess'[Key(r)'] = "none"
    <3>1. Key(r)' = Key(r) /\ pc'[r] \in Spent
      BY <2>2 DEF SpendEffect, Spent, Key
    <3>2. CASE pc[r] = "claim"
      <4>1. sess' = sess /\ job[r] \notin spent[store[r]] /\ job'[r] = job[r]
        BY <2>2, <3>1, <3>2 DEF SpendEffect, Spent
      <4>2. Key(r) \in Keys
        BY <3>2 DEF OnceInv, TypeInv, TypeOK, CallShape, Key, Keys
      <4>3. sess[Key(r)] = "none"
        BY <4>1, <4>2 DEF Contact, IntentsSpent, IntentKey, Key
      <4> QED BY <3>1, <4>1, <4>3
    <3>3. CASE pc[r] \in {"intent", "admit3", "connect"}
      <4>1. sess[Key(r)] = "none" /\ Key(r) \in Keys
        BY <1>2, <3>3 DEF Contact, Spent
      <4>2. ASSUME NEW q \in Runners, pc[q] = "connect", Key(q) = Key(r),
                   pc' = [pc EXCEPT ![q] = "dblock"]
            PROVE  FALSE
        BY <2>2, <3>3, <4>2 DEF OnceInv, OneOwner, Spent, TypeInv, TypeOK
      <4> QED BY <3>1, <4>1, <4>2 DEF SessionEffect
    <3> QED BY <2>2, <3>2, <3>3 DEF SpendEffect
  <2> QED BY <2>1, <2>2 DEF Contact
<1>4. ReceiptShown'
  <2> SUFFICES ASSUME NEW p \in Approvals
               PROVE  p \in receipts' <=> \E n \in Inodes : sess'[<<p, n>>] \in DidCommit
    BY DEF ReceiptShown
  <2>1. \A n \in Inodes : <<p, n>> \in Keys /\ SessionEffect(<<p, n>>)
    BY DEF Keys
  <2>2. ASSUME p \in receipts' PROVE \E n \in Inodes : sess'[<<p, n>>] \in DidCommit
    BY <2>1, <2>2 DEF ReceiptShown, ReceiptEffect, SessionEffect
  <2>3. ASSUME NEW n \in Inodes, sess'[<<p, n>>] \in DidCommit PROVE p \in receipts'
    BY <2>1, <2>3 DEF ReceiptShown, SessionEffect, StoreEffect
  <2> QED BY <2>2, <2>3
<1>5. ResultTrue'
  <2> SUFFICES ASSUME NEW r \in Runners, pc'[r] = "record"
               PROVE  /\ res'[r] = "committed" => job'[r] \in receipts'
                      /\ res'[r] \in {"not_committed", "not_attempted"} =>
                            sess'[Key(r)'] \notin CanCommit \cup DidCommit
    BY DEF ResultTrue
  <2>1. Key(r)' = Key(r) /\ job'[r] = job[r] /\ pc[r] \in Spent
    BY DEF SpendEffect, Spent, Key
  <2>2. Key(r) \in Keys /\ job[r] \in Approvals /\ store[r] \in Inodes /\ Key(r) = <<job[r], store[r]>>
    BY <2>1 DEF OnceInv, TypeInv, TypeOK, CallShape, Key, Keys
  <2>3. CASE pc[r] = "record" /\ res'[r] = res[r]
    <3>1. ASSUME sess[Key(r)] \notin CanCommit \cup DidCommit
          PROVE  sess'[Key(r)] \notin CanCommit \cup DidCommit
      <4>1. ASSUME NEW q \in Runners, pc[q] = "sql", Key(q) = Key(r) PROVE FALSE
        BY <2>1, <2>3, <4>1 DEF OnceInv, OneOwner, Spent
      <4> QED BY <2>2, <3>1, <4>1 DEF SessionEffect
    <3> QED BY <2>1, <2>3, <3>1 DEF ResultTrue, StoreEffect
  <2>4. CASE /\ receipts' = receipts
             /\ res'[r] = "committed" => job[r] \in receipts \/ sess[Key(r)] \in DidCommit
             /\ res'[r] \in {"not_committed", "not_attempted"} =>
                   \/ sess'[Key(r)] = "aborted"
                   \/ pc[r] = "connect" /\ sess' = sess
    <3>1. sess[Key(r)] \in DidCommit => job[r] \in receipts
      BY <2>2 DEF ReceiptShown
    <3>2. pc[r] = "connect" => sess[Key(r)] = "none"
      BY DEF Contact
    <3> QED BY <2>1, <2>4, <3>1, <3>2 DEF CanCommit, DidCommit
  <2> QED BY <2>3, <2>4 DEF ResultEffect
<1> QED BY <1>3, <1>4, <1>5

\* A receipt lookup that finds nothing under a free session lock proves that
\* the transaction of the intent is over: its owner is gone, because it would
\* hold this very flock, and an operator's assumption says no more than that.
LEMMA AbsenceIsFinal ==
    ASSUME OnceInv, TruthInv, NEW r \in Runners, LookupReceipt(r),
           NEW i \in todo[r], Next_(r, i)
    PROVE  /\ res'[r] = "committed" => ledger[i].appr \in receipts
           /\ res'[r] = "not_found" => Final(IntentKey(i))
<1> USE DEF TruthInv
<1>1. /\ pc[r] = "recon"
      /\ Established(r, i) \/ ~ Attended(IntentKey(i))
      /\ res'[r] = "committed" => ledger[i].appr \in receipts
      /\ res'[r] = "not_found" =>
            /\ \A n \in Inodes : sess[<<ledger[i].appr, n>>] \notin HoldsLock
            /\ ledger[i].appr \notin receipts
  <2>1. PICK j \in todo[r] :
          /\ Next_(r, j)
          /\ Established(r, j) \/ (force[r] /\ ~ Attended(IntentKey(j)))
          /\ LET p == ledger[j].appr
                 held == \E n \in Inodes : sess[<<p, n>>] \in HoldsLock
             IN  \/ res' = [res EXCEPT ![r] = IF held THEN "in_progress"
                                              ELSE IF p \in receipts THEN "committed"
                                              ELSE "not_found"]
                 \/ res' = [res EXCEPT ![r] = "unavailable"]
    BY DEF LookupReceipt
  <2>2. i = j
    <3>1. todo[r] \subseteq Nat
      BY DEF OnceInv, TypeInv, TypeOK
    <3> QED BY <2>1, <3>1 DEF Next_
  <2>3. pc[r] = "recon" /\ res \in [Runners -> {"none"} \cup Outcomes \cup Receipts]
    BY DEF LookupReceipt, OnceInv, TypeInv, TypeOK
  <2> QED BY <2>1, <2>2, <2>3
<1>2. SUFFICES ASSUME res'[r] = "not_found" PROVE Final(IntentKey(i))
  BY <1>1
<1>3. /\ i \in Intents
      /\ IntentKey(i) = <<ledger[i].appr, ledger[i].lock>>
      /\ ledger[i].appr \in Approvals /\ ledger[i].lock \in Inodes
  <2>1. i \in Intents
    BY DEF LookupTrue
  <2>2. ledger[i] \in Entry
    BY <2>1 DEF Intents, OnceInv, TypeInv, TypeOK
  <2> QED BY <2>1, <2>2 DEF Entry, IntentKey
<1>4. sess[IntentKey(i)] \notin CanCommit \cup DidCommit
  <2>1. sess[IntentKey(i)] \notin HoldsLock
    BY <1>1, <1>2, <1>3
  <2>2. sess[IntentKey(i)] \notin DidCommit
    BY <1>1, <1>2, <1>3 DEF ReceiptShown
  <2> QED BY <2>1, <2>2 DEF HoldsLock, CanCommit
<1>5. ASSUME NEW q \in Runners, pc[q] \in Spent \ {"record"}, Key(q) = IntentKey(i)
      PROVE  FALSE
  <2>1. CASE pc[q] = "intent"
    BY <1>3, <1>5, <2>1 DEF OneIntent
  <2>2. CASE pc[q] \in Attending
    <3>1. Established(r, i)
      BY <1>1, <1>5, <2>2 DEF Attended
    <3>2. /\ mine[q] \in Intents
          /\ IntentKey(mine[q]) = Key(q)
          /\ ledger[mine[q]].host = HostOf[q]
          /\ ledger[mine[q]].boot = boot[HostOf[q]]
      BY <2>2 DEF MineNamed
    <3>3. mine[q] = i
      BY <1>3, <1>5, <3>2 DEF OneIntent
    <3>4. HostOf[q] = HostOf[r] /\ store[q] = store[r]
      <4>1. HostOf[q] = HostOf[r] /\ ledger[i].lock = store[r]
        BY <3>1, <3>2, <3>3 DEF Established
      <4> QED BY <1>3, <1>5, <4>1 DEF Key
    <3>5. q \in guard /\ r \in guard
      BY <1>1, <1>5 DEF GuardShape, Owning, Reconciling
    <3>6. q = r
      BY <3>4, <3>5 DEF GuardShape
    <3> QED BY <1>1, <1>5, <3>6 DEF Spent
  <2> QED BY <1>5, <2>1, <2>2 DEF Attending
<1>6. IntentKey(i)[1] \in spent[IntentKey(i)[2]] /\ IntentKey(i)[2] <= inode
  BY <1>3 DEF IntentsSpent
<1> QED BY <1>4, <1>5, <1>6 DEF Final, Live

\* What a reconciliation looked up stays true until it records it.
LEMMA LookupStep ==
    ASSUME OnceInv, OnceInv', TruthInv, LedgerEffect, StoreEffect,
           \A k \in Keys : SessionEffect(k),
           \A q \in Runners : SpendEffect(q) /\ VisitEffect(q)
    PROVE  LookupTrue'
<1> USE DEF TruthInv
<1>1. /\ Intents \subseteq Intents'
      /\ \A i \in Intents : /\ ledger'[i] = ledger[i]
                             /\ IntentKey(i)' = IntentKey(i)
                             /\ IntentKey(i) \in Keys
  BY IntentsKept
<1>2. ASSUME NEW r \in Runners PROVE todo'[r] \subseteq Intents'
  <2>1. Unsettled(ledger) \subseteq Intents
    BY DEF Unsettled, Intents
  <2> QED BY <1>1, <2>1 DEF VisitEffect, LookupTrue
<1>3. ASSUME NEW r \in Runners, pc'[r] = "settle", NEW i \in todo'[r], Next_(r, i)'
      PROVE  /\ res'[r] = "committed" => ledger'[i].appr \in receipts'
             /\ res'[r] = "not_found" => Final(IntentKey(i))'
  <2>1. todo'[r] = todo[r]
    BY <1>3 DEF VisitEffect, LookupReceipt
  <2>2. i \in todo[r] /\ Next_(r, i) /\ i \in Intents
    BY <1>3, <2>1 DEF Next_, LookupTrue
  <2>3. /\ res'[r] = "committed" => ledger[i].appr \in receipts
        /\ res'[r] = "not_found" => Final(IntentKey(i))
    <3>1. CASE pc[r] = "settle" /\ res'[r] = res[r]
      BY <2>2, <3>1 DEF LookupTrue
    <3>2. CASE LookupReceipt(r)
      BY <2>2, <3>2, AbsenceIsFinal
    <3> QED BY <1>3, <3>1, <3>2 DEF VisitEffect
  <2>4. ASSUME Final(IntentKey(i)) PROVE Final(IntentKey(i))'
    <3>1. FinalAfter(IntentKey(i)) /\ KeyAfter(i) = IntentKey(i)
      BY <2>2, <2>4, IntentFinalKept DEF OnceInv
    <3>2. FinalAfter(KeyAfter(i))
      BY <3>1
    <3> QED BY <3>2 DEF FinalAfter, KeyAfter, Final, Live, IntentKey, Key
  <2> QED BY <1>1, <2>2, <2>3, <2>4 DEF StoreEffect
<1> QED BY <1>2, <1>3 DEF LookupTrue

\* The transaction of a call that ends without having committed is final.
LEMMA EndIsFinal ==
    ASSUME OnceInv, TruthInv, NEW r \in Runners, pc[r] \in Attending,
           sess[Key(r)] \notin CanCommit \cup DidCommit
    PROVE  /\ pc[r] = "record" => Final(Key(r))
           /\ \A q \in Runners : pc[q] \in Spent /\ Key(q) = Key(r) => q = r
           /\ job[r] \in spent[store[r]] /\ store[r] <= inode
           /\ mine[r] \in Intents /\ IntentKey(mine[r]) = Key(r)
<1>1. pc[r] \in Spent
  BY DEF Attending
<1>2. \A q \in Runners : pc[q] \in Spent /\ Key(q) = Key(r) => q = r
  BY <1>1 DEF OnceInv, OneOwner
<1>3. job[r] \in spent[store[r]] /\ store[r] <= inode
  BY <1>1 DEF OnceInv, StoreShape
<1>4. mine[r] \in Intents /\ IntentKey(mine[r]) = Key(r)
  BY DEF TruthInv, MineNamed
<1>5. pc[r] = "record" => Final(Key(r))
  BY <1>2, <1>3 DEF Final, Live, Key
<1> QED BY <1>2, <1>3, <1>4, <1>5

\* What the chain says stays true, and what a step adds to it is true.
LEMMA ChainStep ==
    ASSUME OnceInv, OnceInv', TruthInv, LedgerEffect, StoreEffect,
           \A k \in Keys : SessionEffect(k),
           \A q \in Runners : SpendEffect(q)
    PROVE  ChainTrue'
<1> USE DEF TruthInv
<1>1. Intents \subseteq Intents' /\ \A i \in Intents : ledger'[i] = ledger[i]
  BY IntentsKept
<1> SUFFICES ASSUME NEW k \in DOMAIN ledger', ledger'[k].ev = "outcome"
             PROVE  /\ ledger'[k].of \in Intents'
                    /\ ledger'[ledger'[k].of].appr = ledger'[k].appr
                    /\ ledger'[k].st = "committed" => ledger'[k].appr \in receipts'
                    /\ ledger'[k].st \in {"not_committed", "not_attempted"} =>
                          FinalAfter(KeyAfter(ledger'[k].of))
  BY DEF ChainTrue, Final, Live, FinalAfter, KeyAfter, IntentKey, Key
\* It is enough that the entry names an intent of the old chain, and is true.
<1>2. ASSUME NEW i \in Intents, ledger'[k].of = i, ledger'[k].appr = ledger[i].appr,
             ledger'[k].st = "committed" => ledger'[k].appr \in receipts,
             ledger'[k].st \in {"not_committed", "not_attempted"} => FinalAfter(IntentKey(i))
      PROVE  /\ ledger'[k].of \in Intents'
             /\ ledger'[ledger'[k].of].appr = ledger'[k].appr
             /\ ledger'[k].st = "committed" => ledger'[k].appr \in receipts'
             /\ ledger'[k].st \in {"not_committed", "not_attempted"} =>
                   FinalAfter(KeyAfter(ledger'[k].of))
  <2>1. KeyAfter(ledger'[k].of) = IntentKey(i)
    BY <1>1, <1>2 DEF KeyAfter, IntentKey
  <2> QED BY <1>1, <1>2, <2>1 DEF StoreEffect
<1>3. CASE k \in DOMAIN ledger
  <2>1. ledger'[k] = ledger[k]
    BY <1>3 DEF LedgerEffect
  <2>2. PICK i \in Intents : /\ i = ledger[k].of
                             /\ ledger[i].appr = ledger[k].appr
                             /\ ledger[k].st = "committed" => ledger[k].appr \in receipts
                             /\ ledger[k].st \in {"not_committed", "not_attempted"} =>
                                   Final(IntentKey(i))
    BY <1>3, <2>1 DEF ChainTrue
  <2>3. ASSUME Final(IntentKey(i)) PROVE FinalAfter(IntentKey(i))
    BY <2>3, IntentFinalKept DEF OnceInv
  <2> QED BY <1>2, <2>1, <2>2, <2>3
<1>4. CASE k \notin DOMAIN ledger
  <2>1. UNCHANGED <<store, inode, boot, spent, sess, receipts>>
    BY <1>4 DEF LedgerEffect
  <2>2. CASE \E r \in Runners : SettledBy(r, k)
    <3>1. PICK r \in Runners : SettledBy(r, k)
      BY <2>2
    <3>2. PICK j \in todo[r] :
            /\ pc[r] = "settle"
            /\ Next_(r, j)
            /\ \/ /\ res[r] = "committed"
                  /\ ledger'[k] = OutcomeEntry(r, ledger[j].appr, j, "committed", TRUE)
               \/ /\ res[r] = "not_found"
                  /\ ledger'[k] = OutcomeEntry(r, ledger[j].appr, j, "not_committed", TRUE)
      BY <3>1 DEF SettledBy
    <3>3. /\ j \in Intents
          /\ res[r] = "committed" => ledger[j].appr \in receipts
          /\ res[r] = "not_found" => Final(IntentKey(j))
      BY <3>2 DEF LookupTrue
    <3>4. /\ ledger'[k].of = j
          /\ ledger'[k].appr = ledger[j].appr
          /\ \/ res[r] = "committed" /\ ledger'[k].st = "committed"
             \/ res[r] = "not_found" /\ ledger'[k].st = "not_committed"
      BY <3>2 DEF OutcomeEntry
    <3>5. ASSUME Final(IntentKey(j)) PROVE FinalAfter(IntentKey(j))
      BY <3>3, <3>5, IntentFinalKept DEF OnceInv
    <3> QED BY <1>2, <3>3, <3>4, <3>5
  <2>3. CASE \E r \in Runners : LapsedBy(r, k)
    <3>1. PICK r \in Runners :
            /\ pc[r] = "admit3" /\ pc' = [pc EXCEPT ![r] = "idle"]
            /\ ledger'[k] = OutcomeEntry(r, job[r], mine[r], "not_attempted", FALSE)
            /\ sess[Key(r)] = "none"
      BY <2>3 DEF LapsedBy, Contact
    <3>2. /\ \A q \in Runners : pc[q] \in Spent /\ Key(q) = Key(r) => q = r
          /\ job[r] \in spent[store[r]] /\ store[r] <= inode
          /\ mine[r] \in Intents /\ IntentKey(mine[r]) = Key(r)
      BY <3>1, EndIsFinal DEF Attending, Spent, CanCommit, DidCommit
    <3>3. PICK i \in Intents : i = mine[r]
      BY <3>2
    <3>4. /\ ledger'[k].of = i /\ ledger'[k].appr = job[r]
          /\ ledger'[k].st = "not_attempted"
      BY <3>1, <3>3 DEF OutcomeEntry
    <3>5. ledger[i].appr = job[r] /\ IntentKey(i) = Key(r)
      BY <3>2, <3>3 DEF IntentKey, Key
    <3>6. FinalAfter(IntentKey(i))
      <4>1. sess'[IntentKey(i)] = "none"
        BY <2>1, <3>1, <3>5
      <4>2. ASSUME NEW q \in Runners, pc'[q] \in Spent, <<job'[q], store'[q]>> = Key(r)
            PROVE  FALSE
        <5>1. q # r /\ pc[q] = pc'[q]
          BY <3>1, <4>2 DEF OnceInv, TypeInv, TypeOK, Spent
        <5>2. Key(q) = Key(r)
          BY <4>2 DEF SpendEffect, Key
        <5> QED BY <3>2, <4>2, <5>1, <5>2
      <4>3. IntentKey(i)[1] = job[r] /\ IntentKey(i)[2] = store[r]
        BY <3>5 DEF Key
      <4> QED BY <2>1, <3>2, <3>5, <4>1, <4>2, <4>3 DEF FinalAfter, CanCommit, DidCommit
    <3> QED BY <1>2, <3>4, <3>5, <3>6
  <2>4. CASE \E r \in Runners : EndedBy(r, k)
    <3>1. PICK r \in Runners :
            /\ pc[r] = "record"
            /\ ledger'[k].st = res[r] /\ ledger'[k].appr = job[r] /\ ledger'[k].of = mine[r]
      BY <2>4 DEF EndedBy, OutcomeEntry
    <3>2. /\ res[r] = "committed" => job[r] \in receipts
          /\ res[r] \in {"not_committed", "not_attempted"} =>
                sess[Key(r)] \notin CanCommit \cup DidCommit
      BY <3>1 DEF ResultTrue
    <3>3. PICK i \in Intents : i = mine[r] /\ IntentKey(i) = Key(r) /\ ledger[i].appr = job[r]
      BY <3>1 DEF MineNamed, IntentKey, Key, Attending, Spent
    <3>4. ASSUME res[r] \in {"not_committed", "not_attempted"} PROVE FinalAfter(IntentKey(i))
      <4>1. Final(IntentKey(i))
        BY <3>1, <3>2, <3>3, <3>4, EndIsFinal DEF Attending, Spent
      <4> QED BY <4>1, IntentFinalKept DEF OnceInv
    <3> QED BY <1>2, <3>1, <3>2, <3>3, <3>4
  <2>5. ASSUME NEW r \in Runners, IntentBy(r, k) PROVE FALSE
    BY <2>5 DEF IntentBy, IntentEntry
  <2> QED BY <1>4, <2>2, <2>3, <2>4, <2>5 DEF LedgerEffect
<1> QED BY <1>3, <1>4

\* Every step keeps the chain truthful.
LEMMA TruthStep ==
    ASSUME OnceInv, TruthInv, [Next]_vars
    PROVE  TruthInv'
<1>1. OnceInv'
  BY OnceStep
<1>2. GuardShape /\ Contact
  BY DEF TruthInv
<1>3. /\ StoreEffect /\ ReceiptEffect /\ LedgerEffect
      /\ \A k \in Keys : SessionEffect(k)
      /\ \A q \in Runners : SpendEffect(q) /\ ResultEffect(q) /\ VisitEffect(q)
  BY <1>2, SpendEffects, DatabaseEffects, ResultEffects, LedgerEffects, VisitEffects
<1>4. GuardShape'
  BY <1>2, GuardStep
<1>5. MineNamed' /\ IntentsSpent' /\ OneIntent'
  BY <1>1, <1>3, OwnerStep
<1>6. Contact' /\ ReceiptShown' /\ ResultTrue'
  BY <1>1, <1>3, DatabaseStep
<1>7. LookupTrue'
  BY <1>1, <1>3, LookupStep
<1>8. ChainTrue'
  BY <1>1, <1>3, ChainStep
<1> QED BY <1>4, <1>5, <1>6, <1>7, <1>8 DEF TruthInv

\* Nothing is claimed before the first call.
LEMMA TruthInit == Init => TruthInv
<1> SUFFICES ASSUME Init PROVE TruthInv
  OBVIOUS
<1>1. DOMAIN ledger = {} /\ Intents = {}
  BY DEF Init, Intents
<1>2. GuardShape /\ MineNamed /\ IntentsSpent /\ OneIntent /\ ResultTrue /\ LookupTrue /\ ChainTrue
  BY <1>1 DEF Init, GuardShape, MineNamed, IntentsSpent, OneIntent, ResultTrue, LookupTrue,
              ChainTrue, Owning, Reconciling, Spent, Attending
<1>3. Contact /\ ReceiptShown
  BY DEF Init, Contact, ReceiptShown, Keys, DidCommit
<1> QED BY <1>2, <1>3 DEF TruthInv

\* The audit chain tells the truth about the database: a recorded committed
\* has a receipt, and a recorded not_committed or not_attempted belongs to an
\* intent whose transaction has not committed and can no longer do so.
THEOREM ChainIsTruthful == Spec => []OutcomesTruthful
<1>1. Init => OnceInv /\ TruthInv
  BY OnceInit, TruthInit
<1>2. OnceInv /\ TruthInv /\ [Next]_vars => OnceInv' /\ TruthInv'
  BY OnceStep, TruthStep
<1>3. TruthInv => OutcomesTruthful
  BY DEF TruthInv, ChainTrue, OutcomesTruthful, Final
<1> QED BY <1>1, <1>2, <1>3, PTL DEF Spec

\* No privileged contact without a durable trace: a connection exists only for
\* a spent approval with an intent in the chain.
THEOREM ContactLeavesATrace == Spec => []ContactIsAccounted
<1>1. Init => OnceInv /\ TruthInv
  BY OnceInit, TruthInit
<1>2. OnceInv /\ TruthInv /\ [Next]_vars => OnceInv' /\ TruthInv'
  BY OnceStep, TruthStep
<1>3. TruthInv => ContactIsAccounted
  <2> SUFFICES ASSUME TruthInv, NEW k \in Keys, sess[k] # "none"
               PROVE  /\ k[1] \in spent[k[2]]
                      /\ \E i \in DOMAIN ledger : ledger[i].ev = "intent" /\ IntentKey(i) = k
    BY DEF ContactIsAccounted
  <2>1. PICK i \in Intents : IntentKey(i) = k
    BY DEF TruthInv, Contact
  <2>2. i \in DOMAIN ledger /\ ledger[i].ev = "intent"
    BY DEF Intents
  <2>3. k[1] \in spent[k[2]]
    BY <2>1 DEF TruthInv, IntentsSpent, IntentKey
  <2> QED BY <2>1, <2>2, <2>3
<1> QED BY <1>1, <1>2, <1>3, PTL DEF Spec

\* An approval that the chain calls not_committed or not_attempted has no receipt.
LEMMA RefusedUnreceipted == OnceInv /\ TruthInv => NotCommittedIsFinal
<1> SUFFICES ASSUME OnceInv, TruthInv, inode = 0, NEW k \in DOMAIN ledger,
                    ledger[k].ev = "outcome",
                    ledger[k].st \in {"not_committed", "not_attempted"},
                    ledger[k].appr \in receipts
             PROVE  FALSE
  BY DEF NotCommittedIsFinal
<1> USE DEF TruthInv
<1>1. PICK i \in Intents : /\ ledger[i].appr = ledger[k].appr
                           /\ Final(IntentKey(i))
  BY DEF ChainTrue
<1>2. /\ \A j \in Intents : ledger[j].lock = 0 /\ ledger[j].appr \in Approvals
      /\ IntentKey(i) \in Keys
  <2>1. ASSUME NEW j \in Intents
        PROVE  ledger[j].lock = 0 /\ ledger[j].appr \in Approvals /\ IntentKey(j) \in Keys
    <3>1. ledger[j] \in Entry
      BY DEF Intents, OnceInv, TypeInv, TypeOK
    <3>2. ledger[j].lock <= 0 /\ ledger[j].lock \in Nat
      BY <3>1 DEF IntentsSpent, Entry, Inodes
    <3> QED BY <3>1, <3>2 DEF Entry, IntentKey, Keys
  <2> QED BY <2>1
<1>3. PICK n \in Inodes : sess[<<ledger[k].appr, n>>] \in DidCommit
  BY <1>1, <1>2 DEF ReceiptShown
<1>4. PICK j \in Intents : IntentKey(j) = <<ledger[k].appr, n>>
  <2>1. <<ledger[k].appr, n>> \in Keys
    BY <1>1, <1>2 DEF Keys
  <2> QED BY <1>3, <2>1 DEF Contact, DidCommit
<1>5. IntentKey(i) = <<ledger[k].appr, n>>
  BY <1>1, <1>2, <1>4 DEF IntentKey
<1> QED BY <1>1, <1>3, <1>5 DEF Final

\* As long as the store file is not replaced, an approval that the chain calls
\* not_committed or not_attempted has no receipt, now or later.
THEOREM RefusalIsFinal == Spec => []NotCommittedIsFinal
<1>1. Init => OnceInv /\ TruthInv
  BY OnceInit, TruthInit
<1>2. OnceInv /\ TruthInv /\ [Next]_vars => OnceInv' /\ TruthInv'
  BY OnceStep, TruthStep
<1>3. OnceInv /\ TruthInv => NotCommittedIsFinal
  BY RefusedUnreceipted
<1> QED BY <1>1, <1>2, <1>3, PTL DEF Spec

-----------------------------------------------------------------------------
(* The owner of a lock goes on only over settled ground.                    *)

\* An intent that is settled stays settled.
LEMMA SettledStays ==
    ASSUME LedgerEffect, NEW i \in Unsettled(ledger'), i \in DOMAIN ledger
    PROVE  i \in Unsettled(ledger) /\ ledger'[i] = ledger[i]
<1>1. /\ DOMAIN ledger \subseteq DOMAIN ledger'
      /\ \A k \in DOMAIN ledger : ledger'[k] = ledger[k]
  BY DEF LedgerEffect
<1>2. ASSUME NEW k \in DOMAIN ledger, Settles(ledger, i, k) PROVE FALSE
  <2>1. Settles(ledger', i, k)
    BY <1>1, <1>2 DEF Settles
  <2> QED BY <1>1, <2>1 DEF Unsettled
<1> QED BY <1>1, <1>2 DEF Unsettled

\* Every step keeps the owner's visits complete: an intent that appears on its
\* lock is its own, because nobody else holds the flock.
LEMMA VisitedStep ==
    ASSUME OnceInv, TruthInv, Visited, LedgerEffect,
           \A q \in Runners : SpendEffect(q) /\ VisitEffect(q)
    PROVE  Visited'
<1> SUFFICES ASSUME NEW r \in Runners, NEW i \in Unsettled(ledger'), Here(r, i)'
             PROVE  /\ pc'[r] \in {"recon", "settle"} => i \in todo'[r] \/ blocked'[r]
                    /\ pc'[r] \notin {"admit1", "claim"}
                    /\ pc'[r] \in Spent => pc'[r] \in Attending /\ i = mine'[r]
  BY DEF Visited
<1>1. i \in DOMAIN ledger' /\ ledger'[i].ev = "intent"
  BY DEF Unsettled
<1>2. CASE i \in DOMAIN ledger
  <2>1. i \in Unsettled(ledger) /\ ledger'[i] = ledger[i]
    BY <1>2, SettledStays
  <2>2. store'[r] = store[r] => Here(r, i)
    BY <2>1 DEF Here
  <2>3. ASSUME pc'[r] \in {"recon", "settle"} PROVE i \in todo'[r] \/ blocked'[r]
    <3>1. Here(r, i)
      BY <2>2, <2>3 DEF VisitEffect
    <3>2. pc[r] \in {"recon", "settle"} => i \in todo[r] \/ blocked[r]
      BY <2>1, <3>1 DEF Visited
    <3> QED BY <2>1, <2>3, <3>2 DEF VisitEffect
  <2>4. ASSUME pc'[r] \in {"admit1", "claim"} PROVE FALSE
    <3>1. Here(r, i)
      BY <2>2, <2>4 DEF VisitEffect
    <3> QED BY <2>1, <2>4, <3>1 DEF Visited, VisitEffect
  <2>5. ASSUME pc'[r] \in Spent PROVE pc'[r] \in Attending /\ i = mine'[r]
    <3>1. Here(r, i)
      BY <2>2, <2>5 DEF SpendEffect
    <3>2. pc[r] # "claim" /\ (pc[r] \in Spent => pc[r] \in Attending /\ i = mine[r])
      BY <2>1, <3>1 DEF Visited
    <3>3. pc[r] \in Attending /\ i = mine[r]
      BY <2>5, <3>2 DEF SpendEffect
    <3>4. pc'[r] \in Attending
      BY <2>5, <3>3 DEF SpendEffect, Attending, Spent
    <3> QED BY <3>3, <3>4 DEF SpendEffect, Attending
  <2> QED BY <2>3, <2>4, <2>5
<1>3. CASE i \notin DOMAIN ledger
  <2>1. i \in Intents' /\ i \notin Intents
    BY <1>1, <1>3 DEF Intents
  <2>2. PICK o \in Runners : IntentBy(o, i)
    BY <2>1, IntentsKept
  <2>3. HostOf[r] = HostOf[o] /\ store[r] = store[o]
    <3>1. store' = store
      BY <2>1, IntentsKept
    <3>2. ledger'[i].host = HostOf[o] /\ ledger'[i].lock = store[o]
      BY <2>2 DEF IntentBy, IntentEntry
    <3> QED BY <3>1, <3>2 DEF Here
  <2>4. pc[o] = "intent" /\ (r # o => pc'[r] = pc[r])
    BY <2>2 DEF IntentBy, OnceInv, TypeInv, TypeOK
  <2>5. CASE r = o
    <3>1. (pc'[r] = "admit3" /\ mine'[r] = i) \/ pc'[r] = "idle"
      BY <2>2, <2>5 DEF IntentBy, OnceInv, TypeInv, TypeOK
    <3> QED BY <3>1 DEF Spent, Attending
  <2>6. CASE r # o
    <3>1. o \in guard /\ (pc[r] \in Owning => r \in guard)
      BY <2>4 DEF TruthInv, GuardShape, Owning, Spent
    <3>2. pc[r] \notin Owning
      BY <2>3, <2>6, <3>1 DEF TruthInv, GuardShape
    <3> QED BY <2>4, <2>6, <3>2 DEF Owning, Reconciling
  <2> QED BY <2>5, <2>6
<1> QED BY <1>2, <1>3

\* With all its intents settled but its own, the owner of a lock is the only one
\* whose transaction can commit.
LEMMA LockStep ==
    ASSUME OnceInv, OnceInv', TruthInv, Visited, OneMigrationPerLock, LedgerEffect, StoreEffect,
           \A k \in Keys : SessionEffect(k)
    PROVE  OneMigrationPerLock'
<1> USE DEF TruthInv
<1> SUFFICES ASSUME inode' = 0, NEW i \in Intents', NEW j \in Intents',
                    ledger'[i].host = ledger'[j].host, ledger'[i].lock = ledger'[j].lock,
                    sess'[IntentKey(i)'] \in CanCommit, sess'[IntentKey(j)'] \in CanCommit
             PROVE  i = j
  BY DEF OneMigrationPerLock, Intents
<1>1. inode = 0
  BY ConstantsAssumption DEF StoreEffect, OnceInv, TypeInv, TypeOK, Inodes
<1>2. ASSUME NEW l \in Intents', sess'[IntentKey(l)'] \in CanCommit
      PROVE  /\ l \in Intents
             /\ ledger'[l] = ledger[l]
             /\ IntentKey(l)' = IntentKey(l)
             /\ IntentKey(l) \in Keys
             /\ \/ sess[IntentKey(l)] \in CanCommit
                \/ \E r \in Runners :
                      /\ pc[r] = "sql" /\ mine[r] = l
                      /\ HostOf[r] = ledger[l].host /\ store[r] = ledger[l].lock
  <2>1. l \in Intents
    <3>1. SUFFICES ASSUME l \notin Intents PROVE FALSE
      OBVIOUS
    <3>2. sess' = sess /\ \E r \in Runners : IntentBy(r, l)
      BY <3>1, IntentsKept
    <3>3. PICK r \in Runners : pc[r] = "intent" /\ ledger'[l] = IntentEntry(r)
      BY <3>2 DEF IntentBy
    <3>4. IntentKey(l)' = Key(r) /\ sess[Key(r)] = "none"
      BY <3>3 DEF IntentKey, IntentEntry, Key, Contact
    <3> QED BY <1>2, <3>2, <3>4 DEF CanCommit
  <2>2. ledger'[l] = ledger[l] /\ IntentKey(l)' = IntentKey(l) /\ IntentKey(l) \in Keys
    BY <2>1, IntentsKept
  <2>3. ASSUME NEW r \in Runners, pc[r] = "sql", Key(r) = IntentKey(l)
        PROVE  mine[r] = l /\ HostOf[r] = ledger[l].host /\ store[r] = ledger[l].lock
    <3>1. /\ mine[r] \in Intents /\ IntentKey(mine[r]) = Key(r)
          /\ ledger[mine[r]].host = HostOf[r]
      BY <2>3 DEF MineNamed, Attending, Spent
    <3>2. mine[r] = l
      BY <2>1, <2>3, <3>1 DEF OneIntent
    <3> QED BY <2>3, <3>1, <3>2 DEF IntentKey, Key
  <2>4. \/ sess[IntentKey(l)] \in CanCommit
        \/ \E r \in Runners : pc[r] = "sql" /\ Key(r) = IntentKey(l)
    BY <1>2, <2>2 DEF SessionEffect, CanCommit, DidCommit
  <2> QED BY <2>1, <2>2, <2>3, <2>4
\* A settled intent has no transaction that can commit.
<1>3. ASSUME NEW l \in Intents, sess[IntentKey(l)] \in CanCommit PROVE l \in Unsettled(ledger)
  <2>1. SUFFICES ASSUME NEW m \in DOMAIN ledger, Settles(ledger, l, m) PROVE FALSE
    BY DEF Unsettled, Intents
  <2>2. /\ ledger[m].ev = "outcome"
        /\ ledger[m].st \in {"committed", "not_committed"}
        /\ ledger[m].appr = ledger[l].appr \/ ledger[m].of = l
    BY <2>1 DEF Settles, Terminal
  <2>3. PICK o \in Intents : /\ ledger[m].of = o
                             /\ ledger[o].appr = ledger[m].appr
                             /\ ledger[m].st = "committed" => ledger[m].appr \in receipts
                             /\ ledger[m].st = "not_committed" => Final(IntentKey(o))
    BY <2>1, <2>2 DEF ChainTrue
  <2>4. ledger[o].appr = ledger[l].appr
    BY <2>2, <2>3
  <2>5. o = l
    <3>1. ASSUME NEW x \in Intents PROVE ledger[x].lock = 0
      <4>1. ledger[x].lock \in Nat
        <5>1. ledger[x] \in Entry
          BY DEF Intents, OnceInv, TypeInv, TypeOK
        <5> QED BY <5>1 DEF Entry, Inodes
      <4> QED BY <1>1, <4>1 DEF IntentsSpent
    <3> QED BY <2>4, <3>1 DEF OneIntent, IntentKey
  <2>6. ledger[l].appr \notin receipts
    <3>1. IntentKey(l) \in Keys /\ IntentKey(l)[1] = ledger[l].appr
      BY IntentsKept DEF IntentKey
    <3> QED BY <1>3, <3>1 DEF OnceInv, Fresh
  <2>7. ~ Final(IntentKey(o))
    BY <1>3, <2>5 DEF Final
  <2> QED BY <2>2, <2>3, <2>4, <2>6, <2>7
<1>4. ASSUME NEW r \in Runners, pc[r] = "sql", NEW l \in Intents,
             HostOf[r] = ledger[l].host, store[r] = ledger[l].lock,
             sess[IntentKey(l)] \in CanCommit
      PROVE  l = mine[r]
  BY <1>3, <1>4 DEF Visited, Here, Spent
<1>5. CASE sess[IntentKey(i)] \in CanCommit /\ sess[IntentKey(j)] \in CanCommit
  BY <1>1, <1>2, <1>5 DEF OneMigrationPerLock, Intents
<1>6. CASE sess[IntentKey(i)] \in CanCommit /\ sess[IntentKey(j)] \notin CanCommit
  BY <1>2, <1>4, <1>6
<1>7. CASE sess[IntentKey(i)] \notin CanCommit /\ sess[IntentKey(j)] \in CanCommit
  BY <1>2, <1>4, <1>7
<1>8. CASE sess[IntentKey(i)] \notin CanCommit /\ sess[IntentKey(j)] \notin CanCommit
  <2>1. PICK r \in Runners : /\ pc[r] = "sql" /\ mine[r] = i
                             /\ HostOf[r] = ledger[i].host /\ store[r] = ledger[i].lock
    BY <1>2, <1>8
  <2>2. PICK q \in Runners : /\ pc[q] = "sql" /\ mine[q] = j
                             /\ HostOf[q] = ledger[j].host /\ store[q] = ledger[j].lock
    BY <1>2, <1>8
  <2>3. r \in guard /\ q \in guard
    BY <2>1, <2>2 DEF GuardShape, Owning, Spent
  <2>4. r = q
    BY <1>2, <2>1, <2>2, <2>3 DEF GuardShape
  <2> QED BY <2>1, <2>2, <2>4
<1> QED BY <1>5, <1>6, <1>7, <1>8

\* The invariant of a recovered lock.
LockInv == OnceInv /\ TruthInv /\ Visited /\ OneMigrationPerLock

\* It holds before the first call, and every step keeps it.
LEMMA LockInvariance == (Init => LockInv) /\ (LockInv /\ [Next]_vars => LockInv')
<1>1. Init => LockInv
  <2>1. Init => Visited /\ OneMigrationPerLock
    BY DEF Init, Visited, OneMigrationPerLock, Unsettled
  <2> QED BY <2>1, OnceInit, TruthInit DEF LockInv
<1>2. ASSUME LockInv, [Next]_vars PROVE LockInv'
  <2> USE <1>2 DEF LockInv
  <2>1. OnceInv' /\ TruthInv'
    BY OnceStep, TruthStep
  <2>2. Contact
    BY DEF TruthInv
  <2>3. /\ StoreEffect /\ LedgerEffect
        /\ \A k \in Keys : SessionEffect(k)
        /\ \A q \in Runners : SpendEffect(q) /\ VisitEffect(q)
    BY <2>2, SpendEffects, DatabaseEffects, LedgerEffects, VisitEffects
  <2>4. Visited'
    BY <2>3, VisitedStep
  <2>5. OneMigrationPerLock'
    BY <2>1, <2>3, LockStep
  <2> QED BY <2>1, <2>4, <2>5
<1> QED BY <1>1, <1>2

\* A call that has spent its approval has settled every intent an earlier owner
\* of the same lock left behind.
THEOREM SettledBeforeSpend == Spec => []NothingAmbiguousBehindASpend
<1>1. (Init => LockInv) /\ (LockInv /\ [Next]_vars => LockInv')
  BY LockInvariance
<1>2. LockInv => NothingAmbiguousBehindASpend
  BY DEF LockInv, Visited, Here, NothingAmbiguousBehindASpend
<1> QED BY <1>1, <1>2, PTL DEF Spec

\* As long as the store file is not replaced, at most one of all executions that
\* ever owned one lock has a transaction that can still commit.
THEOREM OneMigrationAtATime == Spec => []OneMigrationPerLock
<1>1. (Init => LockInv) /\ (LockInv /\ [Next]_vars => LockInv')
  BY LockInvariance
<1>2. LockInv => OneMigrationPerLock
  BY DEF LockInv
<1> QED BY <1>1, <1>2, PTL DEF Spec

-----------------------------------------------------------------------------
(* The deadline.                                                            *)

\* What ExpiryIsRespected says of a call in phase ph whose deadline passed in stage st.
InTime(ph, st) ==
    /\ ph \in {"claim"} \cup Spent => st # "reconciling"
    /\ ph \in Attending => st # "spending"
    /\ ph \in {"dblock", "receipt", "sql", "commit", "ack"} => st \notin {"recording", "connecting"}
    /\ ph \in {"receipt", "sql", "commit", "ack"} => st # "locking"

\* A call is in time before the claim, when its deadline has not passed, when it
\* passes where the call is, and when it moves on without crossing a boundary.
LEMMA InTimeCases ==
    ASSUME NEW ph, NEW st
    PROVE  /\ ph \notin {"claim"} \cup Spent => InTime(ph, st)
           /\ InTime(ph, "no")
           /\ InTime(ph, Stage(ph))
           /\ InTime("claim", st) => InTime("intent", st)
           /\ ph \in Attending /\ InTime(ph, st) => InTime("record", st)
           /\ ph \in ClientPhases /\ InTime(ph, st) => \A c \in ClientPhases : InTime(c, st)
<1> USE DEF InTime, Spent, Attending
<1>1. ph \notin {"claim"} \cup Spent => InTime(ph, st)
  OBVIOUS
<1>2. InTime(ph, "no")
  OBVIOUS
<1>3. InTime(ph, Stage(ph))
  BY DEF Stage, Reconciling
<1>4. InTime("claim", st) => InTime("intent", st)
  OBVIOUS
<1>5. ph \in Attending /\ InTime(ph, st) => InTime("record", st)
  OBVIOUS
<1>6. ph \in ClientPhases /\ InTime(ph, st) => \A c \in ClientPhases : InTime(c, st)
  BY DEF ClientPhases
<1> QED BY <1>1, <1>2, <1>3, <1>4, <1>5, <1>6

\* Every step respects the deadline: each boundary is passed only by an admitted
\* call, and a call that lapses notes the stage it has reached.
LEMMA ExpiryStep ==
    ASSUME TypeInv, ExpiryIsRespected, [Next]_vars
    PROVE  ExpiryIsRespected'
<1>1. \A q \in Runners : InTime(pc[q], late[q])
  BY DEF ExpiryIsRespected, InTime
<1>2. ASSUME \A q \in Runners : InTime(pc'[q], late'[q]) PROVE ExpiryIsRespected'
  BY <1>2 DEF ExpiryIsRespected, InTime
\* One call moves, and its deadline stays as it is or is forgotten.
<1>3. ASSUME NEW r \in Runners, NEW ph, Goto(r, ph),
             \/ late' = late /\ InTime(ph, late[r])
             \/ late' = [late EXCEPT ![r] = late'[r]] /\ InTime(ph, late'[r])
      PROVE  ExpiryIsRespected'
  <2>1. \A q \in Runners : /\ pc'[q] = IF q = r THEN ph ELSE pc[q]
                           /\ q # r => late'[q] = late[q]
    BY <1>3 DEF Goto, TypeInv, TypeOK
  <2>2. InTime(ph, late'[r])
    BY <1>3
  <2> QED BY <1>1, <1>2, <2>1, <2>2
<1>4. ASSUME UNCHANGED <<pc, late>> PROVE ExpiryIsRespected'
  BY <1>1, <1>2, <1>4
<1>5. ASSUME NEW r \in Runners,
             \/ \E p \in Approvals : Execute(r, p)
             \/ \E f \in Assertions : Reconcile(r, f)
             \/ ReadLedger(r) \/ SkipForeign(r) \/ LookupReceipt(r) \/ SettleIntent(r)
             \/ Restart(r)
      PROVE  ExpiryIsRespected'
  <2>1. /\ \/ UNCHANGED pc
           \/ Goto(r, "guard") \/ Goto(r, "recon") \/ Goto(r, "settle") \/ Goto(r, "idle")
        /\ late' = late \/ (late' = [late EXCEPT ![r] = late'[r]] /\ Goto(r, "guard"))
    <3>1. ASSUME NEW p \in Approvals, Execute(r, p) PROVE late' = [late EXCEPT ![r] = late'[r]]
      BY <3>1 DEF Execute, TypeInv, TypeOK
    <3> QED BY <1>5, <3>1 DEF Execute, Reconcile, ReadLedger, SkipForeign, LookupReceipt, SettleIntent, Restart
  <2>2. \A ph \in {"guard", "recon", "settle", "idle"} : \A st : InTime(ph, st)
    BY DEF InTime, Spent, Attending
  <2> QED BY <1>3, <1>4, <2>1, <2>2
<1>6. ASSUME NEW r \in Runners, Return(r) PROVE ExpiryIsRespected'
  <2>1. Goto(r, "idle") /\ late' = [late EXCEPT ![r] = "no"] /\ late'[r] = "no"
    BY <1>6 DEF Return, TypeInv, TypeOK
  <2> QED BY <1>3, <2>1, InTimeCases
<1>7. ASSUME NEW r \in Runners,
             \/ Acquire(r) \/ EndReconcile(r) \/ AdmitSpend(r) \/ Claim(r) \/ RecordIntent(r)
             \/ AdmitExecutor(r) \/ RecordOutcome(r)
      PROVE  ExpiryIsRespected'
  <2>1. \/ Return(r)
        \/ /\ UNCHANGED late
           /\ \/ Goto(r, "read") \/ Goto(r, "admit1")
              \/ pc[r] = "claim" /\ Goto(r, "intent")
              \/ /\ late[r] = "no"
                 /\ Goto(r, "claim") \/ Goto(r, "admit3") \/ Goto(r, "connect")
    BY <1>7 DEF Acquire, EndReconcile, AdmitSpend, Claim, RecordIntent, AdmitExecutor,
                RecordOutcome, Admitted
  <2>2. InTime("read", late[r]) /\ InTime("admit1", late[r])
    BY DEF InTime, Spent, Attending
  <2>3. pc[r] = "claim" => InTime("intent", late[r])
    BY <1>1, InTimeCases
  <2>4. late[r] = "no" => \A ph : InTime(ph, late[r])
    BY InTimeCases
  <2> QED BY <1>3, <1>6, <2>1, <2>2, <2>3, <2>4
<1>8. ASSUME NEW r \in Runners,
             \/ Connect(r) \/ Locked(r) \/ CheckReceipt(r) \/ RunSql(r)
             \/ SendCommit(r) \/ ReadCommit(r) \/ LoseConnection(r)
      PROVE  ExpiryIsRespected'
  <2>1. /\ UNCHANGED late
        /\ \/ pc[r] \in Attending /\ Goto(r, "record")
           \/ late[r] = "no" /\ (Goto(r, "dblock") \/ Goto(r, "receipt"))
           \/ \E ph \in ClientPhases : Goto(r, ph) /\ pc[r] \in ClientPhases
    BY <1>8 DEF Connect, Locked, CheckReceipt, RunSql, SendCommit, ReadCommit, LoseConnection,
                Finish, Spent, Attending, ClientPhases, Admitted
  <2>2. pc[r] \in Attending => InTime("record", late[r])
    BY <1>1, InTimeCases
  <2>3. late[r] = "no" => \A ph : InTime(ph, late[r])
    BY InTimeCases
  <2>4. pc[r] \in ClientPhases => \A ph \in ClientPhases : InTime(ph, late[r])
    BY <1>1, InTimeCases
  <2> QED BY <1>3, <2>1, <2>2, <2>3, <2>4
<1>9. ASSUME NEW p \in Aging, Age(p) PROVE ExpiryIsRespected'
  <2>1. \A q \in Runners : pc'[q] = pc[q] /\ (late'[q] = late[q] \/ late'[q] = Stage(pc[q]))
    BY <1>9 DEF Age
  <2> QED BY <1>1, <1>2, <2>1, InTimeCases
<1>10. ASSUME NEW dead \in SUBSET Runners, Kill(dead) PROVE ExpiryIsRespected'
  <2>1. \A q \in Runners : \/ pc'[q] = pc[q] /\ late'[q] = late[q]
                           \/ pc'[q] = "dead" /\ late'[q] = "no"
    BY <1>10 DEF Kill
  <2> QED BY <1>1, <1>2, <2>1, InTimeCases
<1>11. ASSUME (\E k \in Keys : Server(k)) \/ ReplaceStore \/ UNCHANGED vars
       PROVE  ExpiryIsRespected'
  <2>1. UNCHANGED <<pc, late>>
    BY <1>11 DEF Server, GrantLock, ServerCommit, ServerAbort, ServerClose, ReplaceStore, vars,
                 callVars
  <2> QED BY <1>4, <2>1
<1>12. (\E r \in Runners : Crash(r)) \/ (\E h \in Hosts : Reboot(h)) => ExpiryIsRespected'
  BY <1>10 DEF Crash, Reboot
<1> QED BY <1>5, <1>7, <1>8, <1>9, <1>11, <1>12 DEF Next, Step

\* The F7 boundaries leave no gap: an approval that lapsed before one of them was
\* reached does not get what lies behind it, be it the claim of its nonce, the
\* intent, the connection or the SQL.
THEOREM DeadlineRespected == Spec => []ExpiryIsRespected
<1>1. Init => TypeInv /\ ExpiryIsRespected
  <2>1. Init => ExpiryIsRespected
    BY DEF Init, ExpiryIsRespected, Spent, Attending
  <2> QED BY <2>1, OnceInit DEF OnceInv
<1>2. TypeInv /\ ExpiryIsRespected /\ [Next]_vars => TypeInv' /\ ExpiryIsRespected'
  BY TypeStep, ExpiryStep
<1> QED BY <1>1, <1>2, PTL DEF Spec

-----------------------------------------------------------------------------
(* The promise of an approval.                                              *)

\* An approval is claimed once some store file has spent it, and its record is
\* closed by an outcome in the chain: a committed one, and where the store file
\* cannot be replaced one that proves the absence of the migration as well.
Concluded(p) ==
    \E k \in DOMAIN ledger :
        /\ ledger[k].ev = "outcome" /\ ledger[k].appr = p
        /\ \/ ledger[k].st = "committed"
           \/ MaxInode = 0 /\ ledger[k].st \in {"not_committed", "not_attempted"}
SpentSomewhere(p) == \E n \in Inodes : n <= inode /\ p \in spent[n]
ApprovalRecord == [p \in Approvals |-> IF Concluded(p) THEN "done"
                                       ELSE IF SpentSomewhere(p) THEN "claimed" ELSE "open"]

Promise == INSTANCE SingleUse
               WITH Authorizations <- Approvals, record <- ApprovalRecord, effects <- applied

\* What the record of an approval rests on.
recordVars == <<spent, inode, receipts, applied>>

\* A step spends an approval, replaces the store file, commits a migration, or
\* leaves all of that alone and at most adds to the chain.
LEMMA RecordSteps ==
    ASSUME OnceInv, [Next]_vars
    PROVE  \/ UNCHANGED recordVars
           \/ \E r \in Runners : /\ job[r] \in Approvals /\ store[r] <= inode
                                 /\ spent' = [spent EXCEPT ![store[r]] = @ \cup {job[r]}]
                                 /\ UNCHANGED <<ledger, inode, receipts, applied>>
           \/ ReplaceStore
           \/ \E k \in Keys : ServerCommit(k)
<1> DEFINE Goal == \/ UNCHANGED recordVars
                   \/ \E r \in Runners : /\ job[r] \in Approvals /\ store[r] <= inode
                                         /\ spent' = [spent EXCEPT ![store[r]] = @ \cup {job[r]}]
                                         /\ UNCHANGED <<ledger, inode, receipts, applied>>
                   \/ ReplaceStore
                   \/ \E k \in Keys : ServerCommit(k)
<1>1. ASSUME NEW r \in Runners,
             \/ \E p \in Approvals : Execute(r, p)
             \/ \E f \in Assertions : Reconcile(r, f)
             \/ Acquire(r) \/ ReadLedger(r) \/ SkipForeign(r) \/ LookupReceipt(r) \/ SettleIntent(r)
             \/ EndReconcile(r) \/ AdmitSpend(r) \/ LoseConnection(r) \/ Crash(r) \/ Restart(r)
      PROVE  UNCHANGED recordVars
  BY <1>1 DEF Execute, Reconcile, Acquire, ReadLedger, SkipForeign, LookupReceipt, SettleIntent,
              EndReconcile, AdmitSpend, LoseConnection, Crash, Restart, hostVars, dbVars, recordVars
<1>2. ASSUME NEW r \in Runners,
             \/ RecordIntent(r) \/ AdmitExecutor(r) \/ Connect(r) \/ Locked(r) \/ CheckReceipt(r)
             \/ RunSql(r) \/ SendCommit(r) \/ ReadCommit(r) \/ RecordOutcome(r)
      PROVE  UNCHANGED recordVars
  BY <1>2 DEF RecordIntent, AdmitExecutor, Connect, Locked, CheckReceipt, RunSql, SendCommit, ReadCommit,
              RecordOutcome, hostVars, dbVars, recordVars
<1>3. ASSUME NEW r \in Runners, Claim(r) PROVE Goal
  <2>1. pc[r] = "claim" /\ UNCHANGED <<ledger, inode, receipts, applied>>
    BY <1>3 DEF Claim, dbVars
  <2>2. spent' = spent \/ spent' = [spent EXCEPT ![store[r]] = @ \cup {job[r]}]
    BY <1>3 DEF Claim
  <2>3. job[r] \in Approvals /\ store[r] <= inode
    BY <2>1 DEF OnceInv, TypeInv, CallShape, StoreShape
  <2> QED BY <2>1, <2>2, <2>3 DEF recordVars
<1>4. ASSUME NEW k \in Keys, Server(k), ~ ServerCommit(k) PROVE UNCHANGED recordVars
  BY <1>4 DEF Server, GrantLock, ServerAbort, ServerClose, hostVars, recordVars
<1>5. ASSUME \/ \E p \in Aging : Age(p)
             \/ \E h \in Hosts : Reboot(h)
             \/ UNCHANGED vars
      PROVE  UNCHANGED recordVars
  BY <1>5 DEF Age, Reboot, vars, hostVars, dbVars, recordVars
<1> QED BY <1>1, <1>2, <1>3, <1>4, <1>5 DEF Next, Step

\* An outcome names an approval that was spent before.
LEMMA ConcludedSpent ==
    ASSUME OnceInv, TruthInv, NEW p \in Approvals, Concluded(p)
    PROVE  SpentSomewhere(p)
<1>1. PICK k \in DOMAIN ledger : ledger[k].ev = "outcome" /\ ledger[k].appr = p
  BY DEF Concluded
<1>2. ledger[k].of \in Intents /\ ledger[ledger[k].of].appr = p
  BY <1>1 DEF TruthInv, ChainTrue
<1>3. PICK i \in Intents : ledger[i].appr = p
  BY <1>2
<1>4. ledger[i] \in Entry
  BY DEF OnceInv, TypeInv, TypeOK, Intents
<1> QED BY <1>3, <1>4 DEF TruthInv, IntentsSpent, SpentSomewhere, Entry

\* A migration that can commit is that of a spent approval without an outcome.
LEMMA CommitIsOpen ==
    ASSUME OnceInv, TruthInv, OnceInv', NotCommittedIsFinal', NEW k \in Keys, ServerCommit(k)
    PROVE  k[1] \in Approvals /\ SpentSomewhere(k[1]) /\ ~ Concluded(k[1]) /\ applied[k[1]] = 0
<1>1. k[1] \in Approvals /\ k[2] \in Inodes /\ sess[k] = "committing" /\ k = <<k[1], k[2]>>
  BY DEF Keys, ServerCommit
<1>2. PICK i \in Intents : IntentKey(i) = k
  BY <1>1 DEF TruthInv, Contact
<1>3. SpentSomewhere(k[1])
  BY <1>1, <1>2 DEF TruthInv, IntentsSpent, IntentKey, SpentSomewhere
<1>4. k[1] \notin receipts
  BY <1>1 DEF OnceInv, Fresh, CanCommit
<1>5. applied[k[1]] = 0
  BY <1>1, <1>4 DEF OnceInv, AppliedAtMostOnce
<1>6. ASSUME NEW n \in DOMAIN ledger, ledger[n].ev = "outcome", ledger[n].appr = k[1]
      PROVE  /\ ledger[n].st # "committed"
             /\ MaxInode = 0 => ledger[n].st \notin {"not_committed", "not_attempted"}
  <2>1. ledger[n].st # "committed"
    BY <1>4, <1>6 DEF TruthInv, ChainTrue
  <2>2. ledger' = ledger /\ k[1] \in receipts'
    BY DEF ServerCommit
  <2>3. MaxInode = 0 => inode' = 0
    BY DEF OnceInv, TypeInv, TypeOK, Inodes
  <2> QED BY <1>6, <2>1, <2>2, <2>3 DEF NotCommittedIsFinal
<1> QED BY <1>1, <1>3, <1>5, <1>6 DEF Concluded

\* The record of an approval after a step.
ConcludedAfter(p) ==
    \E k \in DOMAIN ledger' :
        /\ ledger'[k].ev = "outcome" /\ ledger'[k].appr = p
        /\ \/ ledger'[k].st = "committed"
           \/ MaxInode = 0 /\ ledger'[k].st \in {"not_committed", "not_attempted"}
SpentAfter(p) == \E n \in Inodes : n <= inode' /\ p \in spent'[n]
RecordAfter == [p \in Approvals |-> IF ConcludedAfter(p) THEN "done"
                                    ELSE IF SpentAfter(p) THEN "claimed" ELSE "open"]

\* A step that adds to the chain closes the record of one approval at most.
LEMMA ConcludesOne ==
    ASSUME OnceInv, LedgerEffect
    PROVE  \/ \A p \in Approvals : ConcludedAfter(p) <=> Concluded(p)
           \/ \E q : \A p \in Approvals : ConcludedAfter(p) <=> Concluded(p) \/ p = q
<1>1. /\ DOMAIN ledger \subseteq DOMAIN ledger'
      /\ \A i \in DOMAIN ledger : ledger'[i] = ledger[i]
      /\ \A i \in DOMAIN ledger' \ DOMAIN ledger : i = Len(ledger) + 1
  BY DEF LedgerEffect
<1>2. \A p \in Approvals : Concluded(p) => ConcludedAfter(p)
  BY <1>1 DEF Concluded, ConcludedAfter
<1>3. \A p \in Approvals : ConcludedAfter(p) /\ ~ Concluded(p) => p = ledger'[Len(ledger) + 1].appr
  BY <1>1 DEF Concluded, ConcludedAfter
<1> QED BY <1>2, <1>3

\* Each step is a step of the promise or leaves it alone: the insert into the store
\* is the claim, the COMMIT the effect, the outcome in the chain the settlement; an
\* approval is never given back.
LEMMA PromiseStep ==
    ASSUME OnceInv, TruthInv, OnceInv', TruthInv', NotCommittedIsFinal', [Next]_vars
    PROVE  [Promise!SingleUseNext]_(Promise!singleUseVars)
<1>0. LedgerEffect /\ applied \in [Approvals -> Nat] /\ spent \in [Inodes -> SUBSET Approvals]
  BY LedgerEffects DEF OnceInv, TypeInv, TypeOK
<1>1. ApprovalRecord' = RecordAfter
  BY DEF ApprovalRecord, RecordAfter, Concluded, ConcludedAfter, SpentSomewhere, SpentAfter
<1>2. ASSUME RecordAfter = ApprovalRecord, applied' = applied
      PROVE  [Promise!SingleUseNext]_(Promise!singleUseVars)
  BY <1>1, <1>2 DEF Promise!singleUseVars
<1>3. ASSUME NEW p \in Approvals,
             \/ /\ ApprovalRecord[p] = "open" /\ RecordAfter = [ApprovalRecord EXCEPT ![p] = "claimed"]
                /\ applied' = applied
             \/ /\ ApprovalRecord[p] = "claimed" /\ applied[p] = 0 /\ applied' = [applied EXCEPT ![p] = 1]
                /\ RecordAfter = ApprovalRecord
             \/ /\ ApprovalRecord[p] = "claimed" /\ RecordAfter = [ApprovalRecord EXCEPT ![p] = "done"]
                /\ applied' = applied
      PROVE  [Promise!SingleUseNext]_(Promise!singleUseVars)
  <2>1. Promise!Claim(p) \/ Promise!TakeEffect(p) \/ Promise!Settle(p)
    BY <1>1, <1>3 DEF Promise!Claim, Promise!TakeEffect, Promise!Settle, Promise!Moves
  <2> QED BY <2>1 DEF Promise!SingleUseNext
\* Nothing is spent and nothing commits.
<1>4. CASE UNCHANGED recordVars
  <2>1. applied' = applied /\ \A p \in Approvals : SpentAfter(p) <=> SpentSomewhere(p)
    BY <1>4 DEF recordVars, SpentAfter, SpentSomewhere
  <2>2. CASE \A p \in Approvals : ConcludedAfter(p) <=> Concluded(p)
    <3>1. RecordAfter = ApprovalRecord
      BY <2>1, <2>2 DEF ApprovalRecord, RecordAfter
    <3> QED BY <1>2, <2>1, <3>1
  <2>3. ASSUME NEW q \in Approvals, ~ Concluded(q),
               \A p \in Approvals : ConcludedAfter(p) <=> Concluded(p) \/ p = q
        PROVE  [Promise!SingleUseNext]_(Promise!singleUseVars)
    <3>1. SpentAfter(q)
      <4>1. PICK k \in DOMAIN ledger' : ledger'[k].ev = "outcome" /\ ledger'[k].appr = q
        BY <2>3 DEF ConcludedAfter
      <4>2. ledger'[k].of \in Intents' /\ ledger'[ledger'[k].of].appr = q
        BY <4>1 DEF TruthInv, ChainTrue
      <4>3. PICK i \in DOMAIN ledger' : ledger'[i].ev = "intent" /\ ledger'[i].appr = q
        BY <4>2 DEF Intents
      <4>4. ledger'[i] \in Entry
        BY DEF OnceInv, TypeInv, TypeOK
      <4>5. ledger'[i].appr \in spent'[ledger'[i].lock] /\ ledger'[i].lock <= inode'
        BY <4>3 DEF TruthInv, IntentsSpent, Intents
      <4> QED BY <4>3, <4>4, <4>5 DEF SpentAfter, Entry
    <3>2. SpentSomewhere(q)
      BY <2>1, <3>1
    <3>3. ApprovalRecord[q] = "claimed" /\ RecordAfter = [ApprovalRecord EXCEPT ![q] = "done"]
      BY <2>1, <2>3, <3>2 DEF ApprovalRecord, RecordAfter
    <3> QED BY <1>3, <2>1, <3>3
  <2> QED BY <1>0, <2>2, <2>3, ConcludesOne
\* An approval is spent, for the first time or in another copy of the store.
<1>5. ASSUME NEW r \in Runners, job[r] \in Approvals, store[r] <= inode,
             spent' = [spent EXCEPT ![store[r]] = @ \cup {job[r]}],
             UNCHANGED <<ledger, inode, receipts, applied>>
      PROVE  [Promise!SingleUseNext]_(Promise!singleUseVars)
  <2>1. \A p \in Approvals : ConcludedAfter(p) <=> Concluded(p)
    BY <1>5 DEF Concluded, ConcludedAfter
  <2>2. \A p \in Approvals : SpentAfter(p) <=> SpentSomewhere(p) \/ p = job[r]
    <3>1. store[r] \in Inodes
      BY DEF OnceInv, TypeInv, TypeOK
    <3>2. \A n \in Inodes : spent'[n] = IF n = store[r] THEN spent[n] \cup {job[r]} ELSE spent[n]
      BY <1>0, <1>5, <3>1
    <3> QED BY <1>5, <3>1, <3>2 DEF SpentAfter, SpentSomewhere
  <2>3. CASE SpentSomewhere(job[r])
    <3>1. RecordAfter = ApprovalRecord
      BY <2>1, <2>2, <2>3 DEF ApprovalRecord, RecordAfter
    <3> QED BY <1>2, <1>5, <3>1
  <2>4. CASE ~ SpentSomewhere(job[r])
    <3>1. ~ Concluded(job[r])
      BY <1>5, <2>4, ConcludedSpent
    <3>2. ApprovalRecord[job[r]] = "open" /\ RecordAfter = [ApprovalRecord EXCEPT ![job[r]] = "claimed"]
      BY <1>5, <2>1, <2>2, <2>4, <3>1 DEF ApprovalRecord, RecordAfter
    <3> QED BY <1>3, <1>5, <3>2
  <2> QED BY <2>3, <2>4
\* The copy of the store knows what the file it replaces knew.
<1>6. CASE ReplaceStore
  <2>1. /\ UNCHANGED <<ledger, applied>> /\ inode' = inode + 1 /\ inode < MaxInode
        /\ spent' = [spent EXCEPT ![inode + 1] = spent[inode]]
    BY <1>6 DEF ReplaceStore, dbVars
  <2>2. inode \in Nat /\ inode \in Inodes /\ inode + 1 \in Inodes /\ Inodes \subseteq Nat
    BY <2>1, ConstantsAssumption DEF OnceInv, TypeInv, TypeOK, Inodes
  <2>3. \A n \in Inodes : spent'[n] = IF n = inode + 1 THEN spent[inode] ELSE spent[n]
    BY <1>0, <2>1, <2>2
  <2>4. \A p \in Approvals : SpentAfter(p) <=> SpentSomewhere(p)
    BY <2>1, <2>2, <2>3 DEF SpentAfter, SpentSomewhere
  <2>5. \A p \in Approvals : ConcludedAfter(p) <=> Concluded(p)
    BY <2>1 DEF Concluded, ConcludedAfter
  <2>6. RecordAfter = ApprovalRecord
    BY <2>4, <2>5 DEF ApprovalRecord, RecordAfter
  <2> QED BY <1>2, <2>1, <2>6
\* A migration commits.
<1>7. ASSUME NEW k \in Keys, ServerCommit(k)
      PROVE  [Promise!SingleUseNext]_(Promise!singleUseVars)
  <2>1. k[1] \in Approvals /\ SpentSomewhere(k[1]) /\ ~ Concluded(k[1]) /\ applied[k[1]] = 0
    BY <1>7, CommitIsOpen
  <2>2. UNCHANGED <<ledger, inode, spent>> /\ applied' = [applied EXCEPT ![k[1]] = @ + 1]
    BY <1>7 DEF ServerCommit, hostVars
  <2>3. applied' = [applied EXCEPT ![k[1]] = 1]
    BY <1>0, <2>1, <2>2
  <2>4. \A p \in Approvals : (SpentAfter(p) <=> SpentSomewhere(p)) /\ (ConcludedAfter(p) <=> Concluded(p))
    BY <2>2 DEF SpentAfter, SpentSomewhere, Concluded, ConcludedAfter
  <2>5. ApprovalRecord[k[1]] = "claimed" /\ RecordAfter = ApprovalRecord
    BY <2>1, <2>4 DEF ApprovalRecord, RecordAfter
  <2> QED BY <1>3, <2>1, <2>3, <2>5
<1> QED BY <1>4, <1>5, <1>6, <1>7, RecordSteps

\* The runner keeps the promise of an approval (ledger/spend.py states it for the
\* gateway, ConsumedApprovals and the receipt give it here): whatever hosts, copies
\* of the store and failures there are, a migration commits only for an approval
\* that was spent, at most once, and never after the chain has it committed or,
\* where the store file cannot be replaced, refused.
THEOREM RunnerKeepsPromise == Spec => Promise!SingleUseSpec
<1> DEFINE I == OnceInv /\ TruthInv
<1>1. Init => I /\ Promise!SingleUseInit
  <2> SUFFICES ASSUME Init PROVE Promise!SingleUseInit
    BY OnceInit, TruthInit
  <2>1. \A p \in Approvals : ~ Concluded(p) /\ ~ SpentSomewhere(p)
    BY DEF Init, Concluded, SpentSomewhere
  <2> QED BY <2>1 DEF Init, Promise!SingleUseInit, ApprovalRecord
<1>2. I /\ [Next]_vars => I'
  BY OnceStep, TruthStep
<1>3. I => NotCommittedIsFinal
  BY RefusedUnreceipted
<1>4. I /\ I' /\ NotCommittedIsFinal' /\ [Next]_vars => [Promise!SingleUseNext]_(Promise!singleUseVars)
  BY PromiseStep
<1> QED BY <1>1, <1>2, <1>3, <1>4, PTL DEF Spec, Promise!SingleUseSpec
=============================================================================
