--------------------------- MODULE SandboxRunProofs ---------------------------
(***************************************************************************)
(* Proofs about SandboxRun, for any settings and any number of runs: types, *)
(* isolation, the verdicts and what they rest on, and that an authorized    *)
(* action is used as SingleUse promises.                                    *)
(***************************************************************************)
EXTENDS SandboxRun, SpendProofs, FiniteSetTheorems, TLAPS

-----------------------------------------------------------------------------
(* The inductive invariant.                                                 *)

RunKinds == {"code", "reference", "query", "action"}
RunRecords == [kind : {None} \cup RunKinds, by : Adapters \cup {None}, result : Results,
               verdict : Conclusions]

\* TypeOK without the spend record, which SpendInv is about.
Types ==
    /\ config \in Configs /\ host \subseteq {"namespace", "container"}
    /\ probe \in {"unknown", "yes", "no"}
    /\ adapter \in Adapters \cup {None, "config_error"}
    /\ client \in [pc : {"unbuilt", "idle", "waiting", "concluded"}, run : 0..MaxRuns]
    /\ client.pc \in {"waiting", "concluded"} => client.run \in Runs
    /\ runs \in [Runs -> RunRecords]
    /\ proc \in [Runs -> ProcStates]
    /\ said \in [Runs -> SUBSET {"started", "exec_failed", "setup_failed"}]
    /\ ending \in [Runs -> CodeEndings \cup SqlEndings]

\* Where a launched process still has something to do.
Active == {"bootstrap", "announced", "running"}

\* The run whose end the host process waits for.
Waits(r) == client.pc = "waiting" /\ client.run = r

\* The adapter is one that the settings allow.
AdapterInv ==
    /\ adapter = "unsafe" => config.allowUnsafe /\ ~ PinRequired(config)
    /\ PinRequired(config) => adapter \in {None, "config_error", "container"}
    /\ client.pc # "unbuilt" => adapter \in Adapters

\* A process was launched by an adapter that the settings allow for what was asked.
Allowed(r) ==
    proc[r] # "none" =>
        /\ runs[r].kind # None /\ runs[r].by \in Adapters
        /\ runs[r].by = "unsafe" => config.allowUnsafe /\ runs[r].kind # "action"
        /\ PinRequired(config) => runs[r].by = "container" /\ config.pinned

\* What the bootstrap has said tells how far it came, unless it died.
Spoken(r) ==
    /\ proc[r] \in {"none", "bootstrap"} => said[r] = {}
    /\ proc[r] \in {"announced", "running", "exited", "stopped"} =>
          said[r] = IF runs[r].by = "unsafe" THEN {} ELSE {"started"}
    /\ proc[r] \in {"bootstrap", "announced"} => runs[r].by # "unsafe"

\* An ending that is not the bare kill was left by a candidate that ended by
\* itself or was killed.
Left(r) ==
    ending[r] # Killed => /\ proc[r] \in {"exited", "stopped"}
                          /\ ending[r] \in Endings(runs[r].kind, runs[r].by)
                          /\ proc[r] = "stopped" => ending[r].exit = "killed"

\* Only the run that is waited for is alive, or a container that the wall clock
\* left to itself.
Attended(r) ==
    /\ proc[r] \in Active /\ ~ Waits(r) => runs[r].by = "container" /\ runs[r].result.timed_out
    /\ Waits(r) => proc[r] # "none" /\ runs[r].verdict = None
    /\ r > client.run => runs[r] = NoRun /\ proc[r] = "none" /\ ending[r] = Killed

\* Where the result of a run comes from.
NotRun(r) == /\ proc[r] = "none"
             /\ \/ runs[r].by = None /\ runs[r].kind = "code"
                   /\ runs[r].verdict \in {"ABSTAIN", "policy_refusal"}
                \/ runs[r].kind # None
                   /\ runs[r].verdict \in {"infra_fault", "policy_refusal", "refused"}
                   /\ (runs[r].verdict = "refused" <=> runs[r].kind = "action")

ByTheEnd(r) == Ended(r) /\ runs[r].result = Finished(runs[r].by, said[r], ending[r])

ByTheClock(r) ==
    \/ Ended(r) /\ runs[r].by # "container" /\ runs[r].result = TimedOut(runs[r].by, said[r])
    \/ runs[r].by = "container"
       /\ \E read \in SUBSET said[r] : runs[r].result = TimedOut("container", read)

Judged(r) ==
    /\ proc[r] # "none"
    /\ ByTheEnd(r) \/ ByTheClock(r)
    /\ runs[r].verdict = Conclusion(runs[r].kind, runs[r].result)

Founded(r) == runs[r].verdict # None => NotRun(r) \/ Judged(r)

\* A query is run after a reference that was sound.
Referenced(r) ==
    runs[r].kind = "query" =>
        r - 1 \in Runs /\ runs[r - 1].kind = "reference" /\ runs[r - 1].verdict = "sound"

\* What one run keeps.
Sane(r) == Allowed(r) /\ Spoken(r) /\ Left(r) /\ Attended(r) /\ Founded(r) /\ Referenced(r)

RunInv == \A r \in Runs : Sane(r)

\* An action that took effect, with an adapter whose processes end with the clock.
Effective(r) == runs[r].kind = "action" /\ Ran(r) /\ runs[r].by # "container"

Entries == [event : {"spend", "release", "outcome"}, idem : {None}, row : {None} \cup Runs]

\* The spend behind an action: the authorization is claimed while an action is
\* under way, and nothing had taken effect when it was claimed.
SpendInv ==
    /\ entries \in Seq(Entries)
    /\ SpendState(entries).status \in Statuses \ {"malformed"}
    /\ client.pc \in {"waiting", "concluded"} /\ runs[client.run].kind = "action" =>
          /\ SpendState(entries).status = "spent"
          /\ \A r \in Runs : r # client.run => ~ Effective(r)
    /\ SpendState(entries).status \in {"unspent", "released"} => \A r \in Runs : ~ Effective(r)
    /\ \A r, q \in Runs : Effective(r) /\ Effective(q) => r = q

-----------------------------------------------------------------------------
(* The operators.                                                           *)

\* The constants of the module, as the provers use them.
LEMMA Settings ==
    /\ MaxRuns \in Nat /\ Kinds \subseteq {"code", "sql", "action"}
    /\ \A c \in Configs : /\ c.name \in {"auto", "namespace", "container", "unsafe"}
                          /\ c.pin \in BOOLEAN /\ c.envPin \in BOOLEAN
                          /\ c.allowUnsafe \in BOOLEAN /\ c.pinned \in BOOLEAN
BY SandboxAssumption

\* The endings, by their fields.
LEMMA EndingTypes ==
    /\ Killed \in CodeEndings
    /\ \A e \in CodeEndings \cup SqlEndings :
          /\ e.exit \in {"zero", "error", "killed"}
          /\ e.reply \in {None, "right", "wrong", "garbled", "long", "undecodable",
                          "query_error", "setup_error"}
          /\ e.note \in BOOLEAN /\ e.forged \in BOOLEAN
    /\ \A e \in CodeEndings : e.reply # None => e.exit = "zero"
    /\ \A e \in SqlEndings : e.reply \in {None, "right", "wrong", "query_error", "setup_error"}
    /\ \A k, b : Endings(k, b) \subseteq CodeEndings \cup SqlEndings
    /\ \A k \in {"reference", "query"} : \A b : Endings(k, b) \subseteq SqlEndings
    /\ \A b : Endings("code", b) = CodeEndings
<1>1. Killed \in CodeEndings
  BY DEF Killed, CodeEndings
<1>2. ASSUME NEW e \in CodeEndings
      PROVE  /\ e.exit \in {"zero", "error", "killed"}
             /\ e.reply \in {None, "right", "wrong", "garbled", "long", "undecodable"}
             /\ e.note \in BOOLEAN /\ e.forged \in BOOLEAN
             /\ e.reply # None => e.exit = "zero"
  BY DEF CodeEndings, Answered
<1>3. ASSUME NEW e \in SqlEndings
      PROVE  /\ e.exit \in {"zero", "error", "killed"}
             /\ e.reply \in {None, "right", "wrong", "query_error", "setup_error"}
             /\ e.note \in BOOLEAN /\ e.forged \in BOOLEAN
  BY DEF SqlEndings, Answered
<1>4. ASSUME NEW k, NEW b PROVE Endings(k, b) \subseteq CodeEndings \cup SqlEndings
  BY DEF Endings
<1>5. ASSUME NEW k \in {"reference", "query"}, NEW b PROVE Endings(k, b) \subseteq SqlEndings
  BY DEF Endings
<1>6. \A b : Endings("code", b) = CodeEndings
  BY DEF Endings
<1> QED BY <1>1, <1>2, <1>3, <1>4, <1>5, <1>6

\* The results the adapters give back.
LEMMA ResultTypes ==
    /\ Blank \in Results
    /\ \A b \in BOOLEAN : NotStarted(b) \in Results
    /\ \A by, t : \A e \in CodeEndings \cup SqlEndings : Finished(by, t, e) \in Results
    /\ \A by, t : TimedOut(by, t) \in Results
<1>1. Blank \in Results
  BY DEF Blank, Results
<1>2. ASSUME NEW b \in BOOLEAN PROVE NotStarted(b) \in Results
  BY DEF NotStarted, Blank, Results
<1>3. ASSUME NEW by, NEW t, NEW e \in CodeEndings \cup SqlEndings PROVE Finished(by, t, e) \in Results
  <2>1. e.exit \in {"zero", "error", "killed"} /\ e.note \in BOOLEAN
        /\ e.reply \in {None, "right", "wrong", "garbled", "long", "undecodable", "query_error", "setup_error"}
    BY EndingTypes
  <2>2. Started(by, t, e.forged) \in BOOLEAN
    BY DEF Started, SaysStarted
  <2>3. (CASE by = "namespace" -> e.exit = "killed" \/ e.note
           [] by = "container" -> e.exit = "killed"
           [] OTHER -> FALSE) \in BOOLEAN
    BY <2>1
  <2> QED BY <2>1, <2>2, <2>3 DEF Finished, Blank, Results
<1>4. ASSUME NEW by, NEW t PROVE TimedOut(by, t) \in Results
  <2>1. Started(by, t, FALSE) \in BOOLEAN
    BY DEF Started, SaysStarted
  <2> QED BY <2>1 DEF TimedOut, Blank, Results
<1> QED BY <1>1, <1>2, <1>3, <1>4

\* What a conclusion can be, by what was asked.
LEMMA ConclusionTypes ==
    ASSUME NEW k \in RunKinds, NEW res \in Results
    PROVE  /\ Conclusion(k, res) \in Conclusions \ {None}
           /\ Conclusion(k, res) = "sound" => k = "reference"
           /\ Conclusion(k, res) \in {"refused", "executed"} => k = "action"
<1>1. /\ res.started_ok \in BOOLEAN /\ res.candidate_started \in BOOLEAN /\ res.timed_out \in BOOLEAN
      /\ res.policy_refusal \in BOOLEAN
  BY DEF Results
<1>2. CouldNotRun(res) \in {"policy_refusal", "infra_fault"}
  BY DEF CouldNotRun
<1>3. VerifyCode(res) \in {"policy_refusal", "infra_fault", "ABSTAIN", "PASS", "FAIL"}
  BY <1>1, <1>2 DEF VerifyCode
<1>4. VerifyReference(res) \in {"policy_refusal", "infra_fault", "ABSTAIN", "sound"}
  BY <1>1, <1>2 DEF VerifyReference
<1>5. VerifyQuery(res) \in {"policy_refusal", "infra_fault", "ABSTAIN", "PASS", "FAIL"}
  BY <1>1, <1>2 DEF VerifyQuery
<1>6. ExecuteAction(res) \in {"executed", "refused"}
  BY DEF ExecuteAction
<1>7. \/ Conclusion(k, res) = "raised"
      \/ k = "code" /\ Conclusion(k, res) = VerifyCode(res)
      \/ k = "reference" /\ Conclusion(k, res) = VerifyReference(res)
      \/ k = "query" /\ Conclusion(k, res) = VerifyQuery(res)
      \/ k = "action" /\ Conclusion(k, res) = ExecuteAction(res)
  BY DEF Conclusion, RunKinds
<1>8. Conclusion(k, res) \in {"policy_refusal", "infra_fault", "ABSTAIN", "PASS", "FAIL", "sound",
                              "executed", "refused", "raised"}
  BY <1>3, <1>4, <1>5, <1>6, <1>7
<1>9. None \notin {"policy_refusal", "infra_fault", "ABSTAIN", "PASS", "FAIL", "sound",
                   "executed", "refused", "raised"}
  BY SandboxAssumption
<1> QED BY <1>3, <1>4, <1>5, <1>6, <1>7, <1>8, <1>9 DEF Conclusions

\* The adapter that is built is one the settings allow.
LEMMA BuiltAsAsked ==
    ASSUME Types, NEW w \in BOOLEAN
    PROVE  LET b == BuildSandbox(config, w)
           IN  /\ b \in Adapters \cup {"config_error"}
               /\ b = "unsafe" => config.allowUnsafe /\ ~ PinRequired(config)
               /\ PinRequired(config) => b \in {"config_error", "container"}
<1>1. /\ config.name \in {"auto", "namespace", "container", "unsafe"}
      /\ config.pin \in BOOLEAN /\ config.envPin \in BOOLEAN /\ config.allowUnsafe \in BOOLEAN
  BY Settings DEF Types
<1>2. PinRequired(config) \in BOOLEAN
  BY <1>1 DEF PinRequired
<1>3. CASE config.name = "auto"
  <2>1. CASE PinRequired(config)
    BY <1>3, <2>1 DEF BuildSandbox, Adapters
  <2>2. CASE ~ PinRequired(config)
    BY <1>1, <1>3, <2>2 DEF BuildSandbox, Adapters
  <2> QED BY <2>1, <2>2
<1>4. CASE config.name # "auto"
  BY <1>1, <1>2, <1>4 DEF BuildSandbox, Adapters
<1> QED BY <1>3, <1>4

-----------------------------------------------------------------------------
(* Types.                                                                   *)

Inv == Types /\ AdapterInv /\ RunInv

\* The invariant holds when nothing has run.
LEMMA InvInit == Init => Inv
<1> SUFFICES ASSUME Init PROVE Inv
  OBVIOUS
<1>0. MaxRuns \in Nat /\ 0 \in 0..MaxRuns /\ \A r \in Runs : r > 0
  BY Settings DEF Runs
<1>1. NoRun \in RunRecords
  <2>1. None \in Conclusions
    BY DEF Conclusions
  <2> QED BY <2>1, ResultTypes DEF NoRun, RunRecords
<1>2. Types
  <2>1. client \in [pc : {"unbuilt", "idle", "waiting", "concluded"}, run : 0..MaxRuns] /\ client.pc = "unbuilt"
    BY <1>0 DEF Init
  <2>2. runs \in [Runs -> RunRecords] /\ proc \in [Runs -> ProcStates]
        /\ said \in [Runs -> SUBSET {"started", "exec_failed", "setup_failed"}]
    BY <1>1 DEF Init, ProcStates
  <2>3. ending \in [Runs -> CodeEndings \cup SqlEndings]
    BY EndingTypes DEF Init
  <2>4. config \in Configs /\ host \subseteq {"namespace", "container"}
        /\ probe \in {"unknown", "yes", "no"} /\ adapter \in Adapters \cup {None, "config_error"}
    BY DEF Init
  <2> QED BY <2>1, <2>2, <2>3, <2>4 DEF Types
<1>3. AdapterInv
  BY SandboxAssumption DEF Init, AdapterInv
<1>4. ASSUME NEW r \in Runs PROVE Sane(r)
  <2>1. runs[r] = NoRun /\ proc[r] = "none" /\ said[r] = {} /\ ending[r] = Killed /\ client.pc = "unbuilt"
    BY DEF Init
  <2>2. runs[r].verdict = None /\ runs[r].kind = None
    BY <2>1 DEF NoRun
  <2>3. None # "query"
    BY SandboxAssumption
  <2> QED BY <2>1, <2>2, <2>3 DEF Sane, Allowed, Spoken, Left, Attended, Founded, Referenced, Waits, Active
<1> QED BY <1>2, <1>3, <1>4 DEF Inv, RunInv

\* A launch leaves records of the right form.
LEMMA LaunchTypes ==
    ASSUME Types, NEW r \in Runs, NEW kind \in RunKinds, adapter \in Adapters, Launch(r, kind)
    PROVE  /\ client' \in [pc : {"waiting", "concluded"}, run : 0..MaxRuns] /\ client'.run = r
           /\ runs' \in [Runs -> RunRecords] /\ proc' \in [Runs -> ProcStates]
<1> DEFINE refuses == adapter = "container" /\ PinRequired(config) /\ ~ config.pinned
           fresh == [NoRun EXCEPT !.kind = kind, !.by = adapter]
           given == [kind |-> kind, by |-> adapter, result |-> NotStarted(refuses),
                     verdict |-> Conclusion(kind, NotStarted(refuses))]
<1>0. r \in 0..MaxRuns
  BY Settings DEF Runs
<1>1. /\ client \in [pc : {"unbuilt", "idle", "waiting", "concluded"}, run : 0..MaxRuns]
      /\ runs \in [Runs -> RunRecords] /\ proc \in [Runs -> ProcStates]
  BY DEF Types
<1>2. fresh \in RunRecords
  <2>1. None \in Conclusions
    BY DEF Conclusions
  <2> QED BY <2>1, ResultTypes DEF NoRun, RunRecords
<1>3. given \in RunRecords
  <2>1. NotStarted(refuses) \in Results
    BY ResultTypes
  <2>2. Conclusion(kind, NotStarted(refuses)) \in Conclusions
    BY <2>1, ConclusionTypes
  <2> HIDE DEF refuses
  <2> QED BY <2>1, <2>2 DEF RunRecords
<1>4. \/ /\ proc' = [proc EXCEPT ![r] = IF adapter = "unsafe" THEN "running" ELSE "bootstrap"]
         /\ runs' = [runs EXCEPT ![r] = fresh]
         /\ client' = [client EXCEPT !.pc = "waiting", !.run = r]
      \/ /\ runs' = [runs EXCEPT ![r] = given]
         /\ client' = [client EXCEPT !.pc = "concluded", !.run = r]
         /\ UNCHANGED proc
  BY DEF Launch
<1> HIDE DEF fresh, given
<1>5. CASE /\ proc' = [proc EXCEPT ![r] = IF adapter = "unsafe" THEN "running" ELSE "bootstrap"]
           /\ runs' = [runs EXCEPT ![r] = fresh]
           /\ client' = [client EXCEPT !.pc = "waiting", !.run = r]
  <2>1. (IF adapter = "unsafe" THEN "running" ELSE "bootstrap") \in ProcStates
    BY DEF ProcStates
  <2> QED BY <1>0, <1>1, <1>2, <1>5, <2>1
<1>6. CASE /\ runs' = [runs EXCEPT ![r] = given]
           /\ client' = [client EXCEPT !.pc = "concluded", !.run = r]
           /\ UNCHANGED proc
  BY <1>0, <1>1, <1>3, <1>6
<1> QED BY <1>4, <1>5, <1>6

\* What the caller learns leaves records of the right form.
LEMMA ConcludeTypes ==
    ASSUME Types, NEW r \in Runs, runs[r].kind \in RunKinds, client.run = r, NEW res \in Results, Conclude(r, res)
    PROVE  /\ client' = [pc |-> "concluded", run |-> r]
           /\ runs'[r].kind = runs[r].kind /\ runs'[r].by = runs[r].by
           /\ runs'[r].result = res /\ runs'[r].verdict = Conclusion(runs[r].kind, res)
           /\ \A q \in Runs : q # r => runs'[q] = runs[q]
           /\ runs' \in [Runs -> RunRecords]
<1>1. /\ client \in [pc : {"unbuilt", "idle", "waiting", "concluded"}, run : 0..MaxRuns]
      /\ runs \in [Runs -> RunRecords]
  BY DEF Types
<1>2. Conclusion(runs[r].kind, res) \in Conclusions
  BY ConclusionTypes
<1>3. runs' = [runs EXCEPT ![r] = [runs[r] EXCEPT !.result = res, !.verdict = Conclusion(runs[r].kind, res)]]
  BY <1>1 DEF Conclude, RunRecords
<1>4. runs[r] \in [kind : {None} \cup RunKinds, by : Adapters \cup {None}, result : Results, verdict : Conclusions]
  BY <1>1 DEF RunRecords
<1>5. [runs[r] EXCEPT !.result = res, !.verdict = Conclusion(runs[r].kind, res)] \in RunRecords
  BY <1>2, <1>4 DEF RunRecords
<1>6. client' = [pc |-> "concluded", run |-> r]
  BY <1>1 DEF Conclude
<1> QED BY <1>1, <1>3, <1>4, <1>5, <1>6

\* A step of the launched process.
LEMMA ProcessStep ==
    ASSUME Types, NEW r \in Runs, Process(r)
    PROVE  /\ UNCHANGED <<config, host, probe, adapter, client, runs, entries>>
           /\ proc' \in [Runs -> ProcStates]
           /\ said' \in [Runs -> SUBSET {"started", "exec_failed", "setup_failed"}]
           /\ ending' \in [Runs -> CodeEndings \cup SqlEndings]
           /\ \A q \in Runs : q # r => proc'[q] = proc[q] /\ said'[q] = said[q] /\ ending'[q] = ending[q]
           /\ said[r] \subseteq said'[r]
           /\ \/ /\ proc[r] = "bootstrap" /\ proc'[r] = "dead"
                 /\ ending'[r] = ending[r]
              \/ /\ proc[r] = "bootstrap" /\ proc'[r] = "announced" /\ said'[r] = said[r] \cup {"started"}
                 /\ ending'[r] = ending[r]
              \/ /\ proc[r] = "announced" /\ proc'[r] = "running" /\ said'[r] = said[r]
                 /\ ending'[r] = ending[r]
              \/ /\ proc[r] = "announced" /\ proc'[r] = "dead"
                 /\ ending'[r] = ending[r]
              \/ /\ proc[r] = "running" /\ proc'[r] = "stopped" /\ said'[r] = said[r]
                 /\ \/ ending'[r] = ending[r]
                    \/ /\ ending'[r] \in Endings(runs[r].kind, runs[r].by)
                       /\ ending'[r].exit = "killed"
              \/ /\ proc[r] = "running" /\ proc'[r] = "exited" /\ said'[r] = said[r]
                 /\ \/ ending'[r] = ending[r]
                    \/ ending'[r] \in Endings(runs[r].kind, runs[r].by)
<1>0. /\ proc \in [Runs -> ProcStates]
      /\ said \in [Runs -> SUBSET {"started", "exec_failed", "setup_failed"}]
      /\ ending \in [Runs -> CodeEndings \cup SqlEndings]
  BY DEF Types
<1>1. ASSUME SetupFails(r) PROVE proc[r] = "bootstrap" /\ proc' = [proc EXCEPT ![r] = "dead"]
          /\ UNCHANGED <<config, host, probe, adapter, client, runs, ending, entries>>
          /\ (said' = said \/ said' = [said EXCEPT ![r] = @ \cup {"setup_failed"}])
  BY <1>1 DEF SetupFails, Step
<1>2. ASSUME Announce(r) PROVE proc[r] = "bootstrap" /\ proc' = [proc EXCEPT ![r] = "announced"]
          /\ UNCHANGED <<config, host, probe, adapter, client, runs, ending, entries>>
          /\ said' = [said EXCEPT ![r] = @ \cup {"started"}]
  BY <1>2 DEF Announce, Step
<1>3. ASSUME Exec(r) PROVE proc[r] = "announced" /\ proc' = [proc EXCEPT ![r] = "running"]
          /\ UNCHANGED <<config, host, probe, adapter, client, runs, said, ending, entries>>
  BY <1>3 DEF Exec, Step
<1>4. ASSUME ExecFails(r) PROVE proc[r] = "announced" /\ proc' = [proc EXCEPT ![r] = "dead"]
          /\ UNCHANGED <<config, host, probe, adapter, client, runs, ending, entries>>
          /\ said' = [said EXCEPT ![r] = @ \cup {"exec_failed"}]
  BY <1>4 DEF ExecFails, Step
<1>5. ASSUME Die(r)
      PROVE  /\ UNCHANGED <<config, host, probe, adapter, client, runs, said, entries>>
             /\ \/ UNCHANGED ending /\ proc[r] = "bootstrap" /\ proc' = [proc EXCEPT ![r] = "dead"]
                \/ UNCHANGED ending /\ proc[r] = "announced" /\ proc' = [proc EXCEPT ![r] = "dead"]
                \/ proc[r] = "running" /\ proc' = [proc EXCEPT ![r] = "stopped"]
                   /\ Leaves(r, {e \in Endings(runs[r].kind, runs[r].by) : e.exit = "killed"})
  BY <1>5 DEF Die, Step
<1>6. ASSUME CandidateEnds(r) PROVE proc[r] = "running" /\ proc' = [proc EXCEPT ![r] = "exited"]
          /\ UNCHANGED <<config, host, probe, adapter, client, runs, said, entries>>
          /\ Leaves(r, Endings(runs[r].kind, runs[r].by))
  BY <1>6 DEF CandidateEnds, Step
<1>7. ASSUME NEW E, E \subseteq Endings(runs[r].kind, runs[r].by), Leaves(r, E)
      PROVE  /\ ending' \in [Runs -> CodeEndings \cup SqlEndings]
             /\ \A q \in Runs : q # r => ending'[q] = ending[q]
             /\ ending'[r] = ending[r] \/ ending'[r] \in E
  <2>1. CASE ending' = ending
    BY <1>0, <2>1
  <2>2. CASE \E e \in E : ending' = [ending EXCEPT ![r] = e]
    <3>1. PICK e \in E : ending' = [ending EXCEPT ![r] = e]
      BY <2>2
    <3>2. e \in CodeEndings \cup SqlEndings
      BY <1>7, <3>1, EndingTypes
    <3> QED BY <1>0, <3>1, <3>2
  <2> QED BY <1>7, <2>1, <2>2 DEF Leaves
<1>9. {"dead", "announced", "running", "stopped", "exited"} \subseteq ProcStates
  BY DEF ProcStates
<1>10. CASE SetupFails(r) \/ Announce(r) \/ ExecFails(r)
  BY <1>0, <1>1, <1>2, <1>4, <1>9, <1>10
<1>11. CASE Exec(r)
  BY <1>0, <1>3, <1>9, <1>11
<1>12. CASE CandidateEnds(r)
  <2> DEFINE E == Endings(runs[r].kind, runs[r].by)
  <2>1. Leaves(r, E) /\ E \subseteq Endings(runs[r].kind, runs[r].by)
    BY <1>6, <1>12
  <2> HIDE DEF E
  <2>2. /\ ending' \in [Runs -> CodeEndings \cup SqlEndings]
        /\ \A q \in Runs : q # r => ending'[q] = ending[q]
        /\ ending'[r] = ending[r] \/ ending'[r] \in E
    BY <1>7, <2>1
  <2> QED BY <1>0, <1>6, <1>9, <1>12, <2>1, <2>2
<1>13. CASE Die(r) /\ UNCHANGED ending
  BY <1>0, <1>5, <1>9, <1>13
<1>14. CASE Die(r) /\ ~ UNCHANGED ending
  <2> DEFINE E == {e \in Endings(runs[r].kind, runs[r].by) : e.exit = "killed"}
  <2>1. Leaves(r, E) /\ proc[r] = "running" /\ proc' = [proc EXCEPT ![r] = "stopped"]
        /\ UNCHANGED <<config, host, probe, adapter, client, runs, said, entries>>
    BY <1>5, <1>14
  <2>2. E \subseteq Endings(runs[r].kind, runs[r].by) /\ \A e \in E : e.exit = "killed"
    OBVIOUS
  <2> HIDE DEF E
  <2>3. /\ ending' \in [Runs -> CodeEndings \cup SqlEndings]
        /\ \A q \in Runs : q # r => ending'[q] = ending[q]
        /\ ending'[r] = ending[r] \/ ending'[r] \in E
    BY <1>7, <2>1, <2>2
  <2> QED BY <1>0, <1>9, <2>1, <2>2, <2>3
<1> QED BY <1>10, <1>11, <1>12, <1>13, <1>14 DEF Process

-----------------------------------------------------------------------------
(* One run.                                                                 *)

\* A run that a step leaves alone stays as it should be.
LEMMA RunKept ==
    ASSUME RunInv, NEW r \in Runs, config' = config,
           runs'[r] = runs[r], proc'[r] = proc[r], said'[r] = said[r], ending'[r] = ending[r],
           client.run \in Nat, client'.run \in Nat, client.run <= client'.run,
           Waits(r)' => Waits(r), Waits(r) /\ proc[r] \in Active => Waits(r)',
           \A q \in Runs : runs[q].verdict # None => runs'[q] = runs[q]
    PROVE  Sane(r)'
<1>0. Sane(r) /\ r \in Nat
  BY DEF RunInv, Runs
<1>1. Allowed(r)'
  BY <1>0 DEF Sane, Allowed, PinRequired
<1>2. Spoken(r)' /\ Left(r)'
  BY <1>0 DEF Sane, Spoken, Left
<1>3. Attended(r)'
  <2>1. proc[r] \in Active /\ ~ Waits(r)' => ~ Waits(r)
    OBVIOUS
  <2>2. r > client'.run => r > client.run
    BY <1>0
  <2> QED BY <1>0, <2>1, <2>2 DEF Sane, Attended
<1>4. Founded(r)'
  BY <1>0 DEF Sane, Founded, NotRun, Judged, ByTheEnd, ByTheClock, Ended
<1>5. Referenced(r)'
  <2>1. None # "sound"
    BY SandboxAssumption
  <2> QED BY <1>0, <2>1 DEF Sane, Referenced
<1> QED BY <1>1, <1>2, <1>3, <1>4, <1>5 DEF Sane

\* Without a process nothing is judged.
LEMMA NothingStarted ==
    ASSUME NEW k \in RunKinds, NEW b \in BOOLEAN
    PROVE  /\ Conclusion(k, NotStarted(b)) \in {"infra_fault", "policy_refusal", "refused"}
           /\ Conclusion(k, NotStarted(b)) = "refused" <=> k = "action"
<1> DEFINE res == NotStarted(b)
<1>1. /\ res.started_ok = FALSE /\ res.candidate_started = FALSE
      /\ res.reply = None /\ res.policy_refusal = b
  BY DEF NotStarted, Blank
<1>2. None # "undecodable"
  BY SandboxAssumption
<1> HIDE DEF res
<1>3. CouldNotRun(res) \in {"policy_refusal", "infra_fault"}
  BY DEF CouldNotRun
<1>4. VerifyCode(res) = CouldNotRun(res) /\ VerifyQuery(res) = CouldNotRun(res)
      /\ VerifyReference(res) = CouldNotRun(res) /\ ExecuteAction(res) = "refused"
  <2>1. VerifyCode(res) = CouldNotRun(res)
    BY <1>1 DEF VerifyCode
  <2>2. VerifyQuery(res) = CouldNotRun(res)
    BY <1>1 DEF VerifyQuery
  <2>3. VerifyReference(res) = CouldNotRun(res)
    BY <1>1, SandboxAssumption DEF VerifyReference
  <2>4. ExecuteAction(res) = "refused"
    BY <1>1 DEF ExecuteAction
  <2> QED BY <2>1, <2>2, <2>3, <2>4
<1>5. /\ k = "code" => Conclusion(k, res) = VerifyCode(res)
      /\ k = "reference" => Conclusion(k, res) = VerifyReference(res)
      /\ k = "query" => Conclusion(k, res) = VerifyQuery(res)
      /\ k = "action" => Conclusion(k, res) = ExecuteAction(res)
  BY <1>1, <1>2 DEF Conclusion
<1>6. /\ Conclusion(k, res) \in {"infra_fault", "policy_refusal", "refused"}
      /\ Conclusion(k, res) = "refused" <=> k = "action"
  BY <1>3, <1>4, <1>5 DEF RunKinds
<1> QED BY <1>6 DEF res

\* The run after the client's has not been used.
LEMMA FreshRun ==
    ASSUME Inv, client.run < MaxRuns
    PROVE  /\ client.run + 1 \in Runs /\ client.run \in Nat /\ client.run + 1 > client.run
           /\ runs[client.run + 1] = NoRun /\ proc[client.run + 1] = "none"
           /\ said[client.run + 1] = {} /\ ending[client.run + 1] = Killed
<1>1. client.run \in 0..MaxRuns /\ MaxRuns \in Nat
  BY Settings DEF Inv, Types
<1>2. client.run + 1 \in Runs /\ client.run \in Nat /\ client.run + 1 > client.run
  BY <1>1 DEF Runs
<1>3. Attended(client.run + 1) /\ Spoken(client.run + 1)
  BY <1>2 DEF Inv, RunInv, Sane
<1> QED BY <1>2, <1>3 DEF Attended, Spoken

\* A launch leaves every run as its invariant says.
LEMMA LaunchSane ==
    ASSUME Inv, NEW kind \in RunKinds, client.run < MaxRuns, client.pc \in {"idle", "concluded"},
           Launch(client.run + 1, kind), ~ (kind = "action" /\ adapter = "unsafe"),
           UNCHANGED <<config, said, ending>>,
           kind = "query" => /\ client.run \in Runs /\ runs[client.run].kind = "reference"
                             /\ runs[client.run].verdict = "sound"
    PROVE  RunInv'
<1>n. PICK n \in Runs : n = client.run + 1
  BY FreshRun
<1>0. /\ client.run \in Nat /\ n > client.run /\ n \in Nat
      /\ runs[n] = NoRun /\ proc[n] = "none" /\ said[n] = {} /\ ending[n] = Killed
  BY <1>n, FreshRun DEF Runs
<1>1. /\ runs \in [Runs -> RunRecords] /\ proc \in [Runs -> ProcStates] /\ config \in Configs
      /\ client \in [pc : {"unbuilt", "idle", "waiting", "concluded"}, run : 0..MaxRuns]
  BY DEF Inv, Types
<1>2. /\ adapter \in Adapters /\ None \notin Adapters
      /\ adapter = "unsafe" => config.allowUnsafe
      /\ PinRequired(config) => adapter = "container"
  BY SandboxAssumption DEF Inv, AdapterInv, Adapters
<1>3. runs[n].verdict = None /\ runs[n].kind = None
  BY <1>0 DEF NoRun
<1>4. client'.run = n /\ client'.pc \in {"waiting", "concluded"}
  BY <1>1, <1>n DEF Launch
<1>5. \A q \in Runs : q # n => runs'[q] = runs[q] /\ proc'[q] = proc[q]
  BY <1>n, <1>1 DEF Launch
<1>6. \A q \in Runs : runs[q].verdict # None => q # n
  BY <1>3
<1>7. ASSUME NEW r \in Runs, r # n PROVE Sane(r)'
  <2>1. ~ Waits(r) /\ ~ Waits(r)'
    BY <1>4, <1>7 DEF Waits
  <2>2. RunInv /\ client.run <= client'.run /\ client'.run \in Nat
    BY <1>0, <1>4 DEF Inv
  <2> QED BY <1>0, <1>5, <1>6, <1>7, <2>1, <2>2, RunKept
<1>8. Sane(n)'
  <2>0. /\ said'[n] = {} /\ ending'[n] = Killed /\ n <= client'.run /\ ~ (n > client'.run)
    BY <1>0, <1>4
  <2>1. kind # None /\ kind \in {"code", "reference", "query", "action"}
    BY SandboxAssumption DEF RunKinds
  <2>2. kind = "query" => n - 1 \in Runs /\ runs'[n - 1].kind = "reference" /\ runs'[n - 1].verdict = "sound"
    <3>1. n - 1 = client.run /\ client.run # n
      BY <1>n, <1>0
    <3> QED BY <1>5, <3>1
  <2>3. CASE /\ adapter # "null"
             /\ ~(adapter = "container" /\ PinRequired(config) /\ ~config.pinned)
             /\ proc' = [proc EXCEPT ![n] = IF adapter = "unsafe" THEN "running" ELSE "bootstrap"]
             /\ runs' = [runs EXCEPT ![n] = [NoRun EXCEPT !.kind = kind, !.by = adapter]]
             /\ client' = [client EXCEPT !.pc = "waiting", !.run = n]
    <3>1. /\ runs'[n].kind = kind /\ runs'[n].by = adapter /\ runs'[n].verdict = None
          /\ proc'[n] = (IF adapter = "unsafe" THEN "running" ELSE "bootstrap") /\ Waits(n)'
      BY <1>0, <1>1, <2>3 DEF NoRun, Waits
    <3>2. Allowed(n)'
      BY <1>2, <2>1, <2>3, <3>1 DEF Allowed, PinRequired
    <3>3. Spoken(n)' /\ Left(n)'
      BY <2>0, <3>1 DEF Spoken, Left
    <3>4. Attended(n)' /\ Founded(n)' /\ Referenced(n)'
      BY <2>0, <2>2, <3>1 DEF Attended, Founded, Referenced
    <3> QED BY <3>2, <3>3, <3>4 DEF Sane
  <2>4. CASE /\ LET refuses == adapter = "container" /\ PinRequired(config) /\ ~config.pinned
                    res     == NotStarted(refuses)
                IN runs' = [runs EXCEPT ![n] = [kind |-> kind, by |-> adapter, result |-> res,
                                                verdict |-> Conclusion(kind, res)]]
             /\ client' = [client EXCEPT !.pc = "concluded", !.run = n]
             /\ UNCHANGED proc
    <3> DEFINE refuses == adapter = "container" /\ PinRequired(config) /\ ~config.pinned
    <3>1. /\ runs'[n].kind = kind /\ runs'[n].by = adapter
          /\ runs'[n].verdict = Conclusion(kind, NotStarted(refuses))
          /\ proc'[n] = "none" /\ ~ Waits(n)'
      BY <1>0, <1>1, <2>4 DEF Waits
    <3>2. refuses \in BOOLEAN
      OBVIOUS
    <3> HIDE DEF refuses
    <3>3. /\ runs'[n].verdict \in {"infra_fault", "policy_refusal", "refused"}
          /\ runs'[n].verdict = "refused" <=> kind = "action"
      BY <3>1, <3>2, NothingStarted
    <3>4. Allowed(n)' /\ Spoken(n)' /\ Left(n)'
      BY <2>0, <3>1 DEF Allowed, Spoken, Left
    <3>5. Attended(n)' /\ Referenced(n)'
      BY <2>0, <2>2, <3>1 DEF Attended, Referenced, Active
    <3>6. Founded(n)'
      BY <2>1, <3>1, <3>3 DEF Founded, NotRun
    <3> QED BY <3>4, <3>5, <3>6 DEF Sane
  <2> QED BY <1>n, <2>3, <2>4 DEF Launch
<1> QED BY <1>7, <1>8 DEF RunInv

\* What is waited for is judged by what was said and how it ended.
LEMMA ReturnSane ==
    ASSUME Inv, NEW r \in Runs, Return(r)
    PROVE  Types' /\ RunInv'
<1>0. /\ client.pc = "waiting" /\ client.run = r /\ Ended(r)
      /\ Conclude(r, Finished(runs[r].by, said[r], ending[r]))
      /\ UNCHANGED <<config, host, probe, adapter, proc, said, ending, entries>>
  BY DEF Return
<1>1. Types /\ RunInv /\ Sane(r) /\ Waits(r)
  BY <1>0 DEF Inv, RunInv, Waits
<1>2. /\ runs \in [Runs -> RunRecords] /\ ending[r] \in CodeEndings \cup SqlEndings /\ r \in Nat
      /\ r \in 0..MaxRuns
  BY <1>1, Settings DEF Types, Runs
<1>3. proc[r] # "none" /\ runs[r].verdict = None /\ runs[r].kind \in RunKinds
  BY <1>1, <1>2 DEF Sane, Attended, Allowed, RunRecords
<1> DEFINE res == Finished(runs[r].by, said[r], ending[r])
<1>4. res \in Results
  BY <1>2, ResultTypes
<1>5. /\ client' = [pc |-> "concluded", run |-> r]
      /\ runs'[r].kind = runs[r].kind /\ runs'[r].by = runs[r].by
      /\ runs'[r].result = res /\ runs'[r].verdict = Conclusion(runs[r].kind, res)
      /\ \A q \in Runs : q # r => runs'[q] = runs[q]
      /\ runs' \in [Runs -> RunRecords]
  BY <1>0, <1>1, <1>3, <1>4, ConcludeTypes
<1>6. Types'
  BY <1>0, <1>1, <1>2, <1>5 DEF Types
<1>7. ASSUME NEW q \in Runs, q # r PROVE Sane(q)'
  <2>1. ~ Waits(q) /\ ~ Waits(q)'
    BY <1>0, <1>5, <1>7 DEF Waits
  <2>2. client'.run = client.run /\ client.run \in Nat /\ client'.run \in Nat /\ client.run <= client'.run
    BY <1>0, <1>2, <1>5
  <2>3. \A p \in Runs : runs[p].verdict # None => runs'[p] = runs[p]
    BY <1>3, <1>5
  <2> QED BY <1>0, <1>1, <1>5, <1>7, <2>1, <2>2, <2>3, RunKept
<1>8. Sane(r)'
  <2>1. ~ Waits(r)' /\ ~ (r > client'.run) /\ proc'[r] \notin Active /\ Ended(r)'
    BY <1>0, <1>2, <1>5 DEF Waits, Ended, Active
  <2>2. Allowed(r)' /\ Spoken(r)' /\ Left(r)'
    BY <1>0, <1>1, <1>5 DEF Sane, Allowed, Spoken, Left, PinRequired
  <2>3. Attended(r)'
    BY <2>1 DEF Attended
  <2>4. Founded(r)'
    BY <1>0, <1>3, <1>5, <2>1 DEF Founded, Judged, ByTheEnd
  <2>5. Referenced(r)'
    <3>1. runs[r].kind = "query" => r - 1 # r
      BY <1>2
    <3> QED BY <1>1, <1>5, <3>1 DEF Sane, Referenced
  <2> QED BY <2>2, <2>3, <2>4, <2>5 DEF Sane
<1> QED BY <1>6, <1>7, <1>8 DEF RunInv

\* The wall clock ends the process, or leaves a container to itself.
LEMMA WallClockSane ==
    ASSUME Inv, NEW r \in Runs, WallClock(r)
    PROVE  Types' /\ RunInv'
<1>0. /\ client.pc = "waiting" /\ client.run = r
      /\ UNCHANGED <<config, host, probe, adapter, said, ending, entries>>
  BY DEF WallClock
<1>1. Types /\ RunInv /\ Sane(r) /\ Waits(r)
  BY <1>0 DEF Inv, RunInv, Waits
<1>2. /\ runs \in [Runs -> RunRecords] /\ proc \in [Runs -> ProcStates] /\ r \in Nat /\ r \in 0..MaxRuns
      /\ proc[r] \in ProcStates
  BY <1>1, Settings DEF Types, Runs
<1>3. proc[r] # "none" /\ runs[r].verdict = None /\ runs[r].kind \in RunKinds
  BY <1>1, <1>2 DEF Sane, Attended, Allowed, RunRecords
<1>4. PICK res \in Results :
         /\ Conclude(r, res)
         /\ \/ /\ runs[r].by = "container" /\ proc' = proc
               /\ \E read \in SUBSET said[r] : res = TimedOut("container", read)
            \/ /\ runs[r].by # "container" /\ res = TimedOut(runs[r].by, said[r])
               /\ proc' = [proc EXCEPT ![r] = CASE Ended(r) -> @
                                                [] @ = "running" -> "stopped"
                                                [] OTHER -> "dead"]
  BY ResultTypes DEF WallClock
<1>5. /\ client' = [pc |-> "concluded", run |-> r]
      /\ runs'[r].kind = runs[r].kind /\ runs'[r].by = runs[r].by
      /\ runs'[r].result = res /\ runs'[r].verdict = Conclusion(runs[r].kind, res)
      /\ \A q \in Runs : q # r => runs'[q] = runs[q]
      /\ runs' \in [Runs -> RunRecords]
  BY <1>0, <1>1, <1>3, <1>4, ConcludeTypes
<1>6. /\ proc' \in [Runs -> ProcStates]
      /\ \A q \in Runs : q # r => proc'[q] = proc[q]
      /\ \/ runs[r].by = "container" /\ proc'[r] = proc[r]
         \/ /\ runs[r].by # "container"
            /\ \/ Ended(r) /\ proc'[r] = proc[r]
               \/ proc[r] = "running" /\ proc'[r] = "stopped"
               \/ proc[r] \in {"bootstrap", "announced"} /\ proc'[r] = "dead"
  <2>1. CASE runs[r].by = "container"
    BY <1>2, <1>4, <2>1
  <2>2. CASE runs[r].by # "container"
    <3>1. PICK p \in ProcStates :
             /\ proc' = [proc EXCEPT ![r] = p]
             /\ \/ Ended(r) /\ p = proc[r]
                \/ proc[r] = "running" /\ p = "stopped"
                \/ proc[r] \in {"bootstrap", "announced"} /\ p = "dead"
      <4> DEFINE e == CASE Ended(r) -> proc[r]
                        [] proc[r] = "running" -> "stopped"
                        [] OTHER -> "dead"
      <4>1. proc' = [proc EXCEPT ![r] = e]
        BY <1>2, <1>4, <2>2
      <4>2. /\ e \in ProcStates
            /\ \/ Ended(r) /\ e = proc[r]
               \/ proc[r] = "running" /\ e = "stopped"
               \/ proc[r] \in {"bootstrap", "announced"} /\ e = "dead"
        BY <1>2, <1>3 DEF Ended, ProcStates
      <4> HIDE DEF e
      <4> QED BY <4>1, <4>2
    <3> QED BY <1>2, <2>2, <3>1
  <2> QED BY <2>1, <2>2
<1>7. Types'
  BY <1>0, <1>1, <1>2, <1>5, <1>6 DEF Types
<1>8. ASSUME NEW q \in Runs, q # r PROVE Sane(q)'
  <2>1. ~ Waits(q) /\ ~ Waits(q)'
    BY <1>0, <1>5, <1>8 DEF Waits
  <2>2. client'.run = client.run /\ client.run \in Nat /\ client'.run \in Nat /\ client.run <= client'.run
    BY <1>0, <1>2, <1>5
  <2>3. \A p \in Runs : runs[p].verdict # None => runs'[p] = runs[p]
    BY <1>3, <1>5
  <2> QED BY <1>0, <1>1, <1>5, <1>6, <1>8, <2>1, <2>2, <2>3, RunKept
<1>9. Sane(r)'
  <2>0. proc'[r] # "none" /\ ~ (r > client'.run) /\ ~ Waits(r)'
    BY <1>2, <1>3, <1>5, <1>6 DEF Waits, Ended
  <2>1. Allowed(r)'
    BY <1>0, <1>1, <1>3, <1>5 DEF Sane, Allowed, PinRequired
  <2>2. Spoken(r)'
    BY <1>0, <1>1, <1>3, <1>5, <1>6 DEF Sane, Spoken, Ended
  <2>3. Left(r)'
    BY <1>0, <1>1, <1>5, <1>6 DEF Sane, Left, Ended
  <2>4. res.timed_out = TRUE
    BY <1>4 DEF TimedOut, Blank
  <2>5. Attended(r)'
    BY <1>5, <1>6, <2>0, <2>4 DEF Attended, Active, Ended
  <2>6. Founded(r)'
    <3>1. CASE runs[r].by = "container"
      BY <1>0, <1>4, <1>5, <2>0, <3>1 DEF Founded, Judged, ByTheClock
    <3>2. CASE runs[r].by # "container"
      <4>1. Ended(r)'
        BY <1>6, <3>2 DEF Ended
      <4> QED BY <1>0, <1>4, <1>5, <2>0, <3>2, <4>1 DEF Founded, Judged, ByTheClock
    <3> QED BY <3>1, <3>2
  <2>7. Referenced(r)'
    <3>1. runs[r].kind = "query" => r - 1 # r
      BY <1>2
    <3> QED BY <1>1, <1>5, <3>1 DEF Sane, Referenced
  <2> QED BY <2>1, <2>2, <2>3, <2>5, <2>6, <2>7 DEF Sane
<1> QED BY <1>7, <1>8, <1>9 DEF RunInv

\* The process says how far it is before it goes there.
LEMMA ProcessSane ==
    ASSUME Inv, NEW r \in Runs, Process(r)
    PROVE  RunInv'
<1>1. Types /\ RunInv /\ Sane(r) /\ client.run \in Nat /\ r \in Nat
  BY Settings DEF Inv, RunInv, Types, Runs
<1>2. /\ UNCHANGED <<config, client, runs>>
      /\ \A q \in Runs : q # r => proc'[q] = proc[q] /\ said'[q] = said[q] /\ ending'[q] = ending[q]
      /\ said[r] \subseteq said'[r]
  BY <1>1, ProcessStep
<1>3. \A q \in Runs : Waits(q)' <=> Waits(q)
  BY <1>2 DEF Waits
<1>4. ASSUME NEW q \in Runs, q # r PROVE Sane(q)'
  BY <1>1, <1>2, <1>3, <1>4, RunKept
<1>5. \/ /\ proc[r] = "bootstrap" /\ proc'[r] = "dead"
         /\ ending'[r] = ending[r]
      \/ /\ proc[r] = "bootstrap" /\ proc'[r] = "announced" /\ said'[r] = said[r] \cup {"started"}
         /\ ending'[r] = ending[r]
      \/ /\ proc[r] = "announced" /\ proc'[r] = "running" /\ said'[r] = said[r]
         /\ ending'[r] = ending[r]
      \/ /\ proc[r] = "announced" /\ proc'[r] = "dead"
         /\ ending'[r] = ending[r]
      \/ /\ proc[r] = "running" /\ proc'[r] = "stopped" /\ said'[r] = said[r]
         /\ \/ ending'[r] = ending[r]
            \/ /\ ending'[r] \in Endings(runs[r].kind, runs[r].by)
               /\ ending'[r].exit = "killed"
      \/ /\ proc[r] = "running" /\ proc'[r] = "exited" /\ said'[r] = said[r]
         /\ \/ ending'[r] = ending[r]
            \/ ending'[r] \in Endings(runs[r].kind, runs[r].by)
  BY <1>1, ProcessStep
<1>6. proc[r] \in Active /\ proc'[r] # "none" /\ proc'[r] # "bootstrap"
  BY <1>5 DEF Active
<1>7. Allowed(r)'
  BY <1>1, <1>2, <1>6 DEF Sane, Allowed, PinRequired, Active
<1>8. Spoken(r)'
  BY <1>1, <1>2, <1>5 DEF Sane, Spoken
<1>9. Left(r)'
  BY <1>1, <1>2, <1>5 DEF Sane, Left
<1>10. Attended(r)'
  BY <1>1, <1>2, <1>3, <1>6 DEF Sane, Attended, Active
<1>11. Founded(r)'
  <2>1. SUFFICES ASSUME runs[r].verdict # None PROVE Judged(r)'
    BY <1>2 DEF Founded
  <2>2. Judged(r) /\ ~ Waits(r)
    BY <1>1, <1>6, <2>1 DEF Sane, Founded, NotRun, Attended, Active
  <2>3. ~ Ended(r)
    BY <1>6 DEF Ended, Active
  <2>4. runs[r].by = "container" /\ \E read \in SUBSET said[r] : runs[r].result = TimedOut("container", read)
    BY <2>2, <2>3 DEF Judged, ByTheEnd, ByTheClock
  <2>5. \E read \in SUBSET said'[r] : runs[r].result = TimedOut("container", read)
    BY <1>2, <2>4
  <2> QED BY <1>2, <1>6, <2>2, <2>4, <2>5 DEF Judged, ByTheClock
<1>12. Referenced(r)'
  BY <1>1, <1>2 DEF Sane, Referenced
<1>13. Sane(r)'
  BY <1>7, <1>8, <1>9, <1>10, <1>11, <1>12 DEF Sane
<1> QED BY <1>4, <1>13 DEF RunInv

\* A step of the host process that touches no run.
LEMMA HostSane ==
    ASSUME Inv, UNCHANGED <<config, runs, proc, said, ending>>, client'.run = client.run,
           client.pc # "waiting", client'.pc # "waiting"
    PROVE  RunInv'
<1>1. RunInv /\ client.run \in Nat
  BY Settings DEF Inv, Types
<1>2. ASSUME NEW r \in Runs PROVE Sane(r)'
  <2>1. ~ Waits(r) /\ ~ Waits(r)'
    BY DEF Waits
  <2> QED BY <1>1, <2>1, RunKept
<1> QED BY <1>2 DEF RunInv

\* A run that comes to nothing is taken down without a process.
LEMMA UnusedSane ==
    ASSUME Inv, client.run < MaxRuns, client.pc = "idle", NEW rec \in RunRecords,
           runs' = [runs EXCEPT ![client.run + 1] = rec],
           client' = [client EXCEPT !.pc = "concluded", !.run = client.run + 1],
           UNCHANGED <<config, proc, said, ending>>,
           \/ rec.by = None /\ rec.kind = "code" /\ rec.verdict \in {"ABSTAIN", "policy_refusal"}
           \/ rec.kind = "action" /\ rec.verdict = "refused"
    PROVE  RunInv' /\ client'.run = client.run + 1 /\ client'.pc = "concluded"
<1>n. PICK n \in Runs : n = client.run + 1
  BY FreshRun
<1>0. /\ client.run \in Nat /\ n > client.run /\ n \in Nat
      /\ runs[n] = NoRun /\ proc[n] = "none" /\ said[n] = {} /\ ending[n] = Killed
  BY <1>n, FreshRun DEF Runs
<1>1. /\ runs \in [Runs -> RunRecords] /\ RunInv
      /\ client \in [pc : {"unbuilt", "idle", "waiting", "concluded"}, run : 0..MaxRuns]
  BY DEF Inv, Types
<1>2. client'.run = n /\ client'.pc = "concluded"
  BY <1>n, <1>1
<1>3. runs'[n] = rec /\ \A q \in Runs : q # n => runs'[q] = runs[q]
  BY <1>n, <1>1
<1>4. \A r \in Runs : ~ Waits(r) /\ ~ Waits(r)'
  BY <1>2 DEF Waits
<1>5. \A q \in Runs : runs[q].verdict # None => q # n
  BY <1>0 DEF NoRun
<1>6. ASSUME NEW r \in Runs, r # n PROVE Sane(r)'
  BY <1>0, <1>1, <1>2, <1>3, <1>4, <1>5, <1>6, RunKept
<1>7. Sane(n)'
  <2>0. rec.kind # "query" /\ rec.kind # None
    BY SandboxAssumption
  <2>1. Allowed(n)' /\ Spoken(n)' /\ Left(n)' /\ Referenced(n)'
    BY <1>0, <1>3, <2>0 DEF Allowed, Spoken, Left, Referenced
  <2>2. Attended(n)'
    BY <1>0, <1>2, <1>4 DEF Attended, Active
  <2>3. Founded(n)'
    BY <1>0, <1>3, <2>0 DEF Founded, NotRun
  <2> QED BY <2>1, <2>2, <2>3 DEF Sane
<1> QED BY <1>n, <1>2, <1>6, <1>7 DEF RunInv

\* Every step keeps the types, the adapter and the runs as they should be.
LEMMA InvStep ==
    ASSUME Inv, [Next]_vars
    PROVE  Inv'
<1>0. /\ Types /\ AdapterInv /\ RunInv /\ MaxRuns \in Nat
      /\ client \in [pc : {"unbuilt", "idle", "waiting", "concluded"}, run : 0..MaxRuns]
      /\ runs \in [Runs -> RunRecords]
  BY Settings DEF Inv, Types
<1>1. ASSUME Build PROVE Inv'
  <2>0. /\ client.pc \in {"unbuilt", "idle"}
        /\ adapter' = BuildSandbox(config, Probed = "yes")
        /\ probe' = IF Probes(config) THEN Probed ELSE probe
        /\ client' = [client EXCEPT !.pc = IF adapter' = "config_error" THEN "unbuilt" ELSE "idle"]
        /\ UNCHANGED <<config, host, runs, proc, said, ending, entries>>
    BY <1>1 DEF Build
  <2>1. /\ adapter' \in Adapters \cup {"config_error"}
        /\ adapter' = "unsafe" => config.allowUnsafe /\ ~ PinRequired(config)
        /\ PinRequired(config) => adapter' \in {"config_error", "container"}
    BY <1>0, <2>0, BuiltAsAsked
  <2>2. probe' \in {"unknown", "yes", "no"}
    BY <1>0, <2>0 DEF Probed, Types
  <2>3. client'.run = client.run /\ client'.pc = IF adapter' = "config_error" THEN "unbuilt" ELSE "idle"
    BY <1>0, <2>0
  <2>4. client' \in [pc : {"unbuilt", "idle", "waiting", "concluded"}, run : 0..MaxRuns]
    BY <1>0, <2>0
  <2>5. Types'
    BY <1>0, <2>0, <2>1, <2>2, <2>3, <2>4 DEF Types
  <2>6. AdapterInv'
    BY <2>0, <2>1, <2>3 DEF AdapterInv, PinRequired
  <2>7. RunInv'
    BY <2>0, <2>3, HostSane
  <2> QED BY <2>5, <2>6, <2>7 DEF Inv
<1>2. ASSUME HostChanges PROVE Inv'
  <2>1. Types' /\ AdapterInv'
    BY <1>0, <1>2 DEF HostChanges, Types, AdapterInv, PinRequired
  <2>2. RunInv'
    BY <1>0, <1>2, HostSane DEF HostChanges
  <2> QED BY <2>1, <2>2 DEF Inv
<1>3. ASSUME NothingToRun PROVE Inv'
  <2>0. /\ client.pc = "idle" /\ client.run < MaxRuns
        /\ client' = [client EXCEPT !.pc = "concluded", !.run = client.run + 1]
        /\ UNCHANGED <<config, host, probe, adapter, proc, said, ending, entries>>
    BY <1>0, <1>3 DEF NothingToRun
  <2>1. PICK verdict \in {"ABSTAIN", "policy_refusal"} :
           runs' = [runs EXCEPT ![client.run + 1] = [NoRun EXCEPT !.kind = "code", !.verdict = verdict]]
    BY <1>3 DEF NothingToRun
  <2> DEFINE rec == [NoRun EXCEPT !.kind = "code", !.verdict = verdict]
  <2>2. rec.by = None /\ rec.kind = "code" /\ rec.verdict = verdict /\ rec \in RunRecords
    BY ResultTypes DEF NoRun, RunRecords, RunKinds, Conclusions
  <2> HIDE DEF rec
  <2>3. RunInv' /\ client'.run = client.run + 1 /\ client'.pc = "concluded"
    BY <2>0, <2>1, <2>2, UnusedSane DEF rec
  <2>4. client.run + 1 \in Runs /\ client.run + 1 \in 0..MaxRuns
    BY <1>0, <2>0 DEF Runs
  <2>5. /\ client' \in [pc : {"unbuilt", "idle", "waiting", "concluded"}, run : 0..MaxRuns]
        /\ runs' \in [Runs -> RunRecords]
    BY <1>0, <2>0, <2>1, <2>2, <2>4 DEF rec
  <2>6. Types'
    BY <1>0, <2>0, <2>3, <2>4, <2>5 DEF Types
  <2>7. AdapterInv'
    BY <1>0, <2>0 DEF AdapterInv, PinRequired
  <2> QED BY <2>3, <2>6, <2>7 DEF Inv
<1>4. ASSUME NextQuery PROVE Inv'
  <2>0. /\ client.pc = "concluded" /\ client.run < MaxRuns
        /\ runs[client.run].verdict = "sound" /\ Launch(client.run + 1, "query")
        /\ UNCHANGED <<config, host, probe, adapter, said, ending, entries>>
    BY <1>4 DEF NextQuery
  <2>1. adapter \in Adapters /\ client.run \in Runs /\ client.run + 1 \in Runs
    BY <1>0, <2>0, FreshRun DEF AdapterInv, Types
  <2>2. "query" \in RunKinds /\ Sane(client.run)
    BY <1>0, <2>1 DEF RunInv, RunKinds
  <2>3. runs[client.run].kind = "reference"
    <3>1. Judged(client.run)
      BY <2>0, <2>2, SandboxAssumption DEF Sane, Founded, NotRun
    <3>2. runs[client.run].kind \in RunKinds /\ runs[client.run].result \in Results
      BY <1>0, <2>1, <2>2, <3>1 DEF Sane, Allowed, Judged, RunRecords
    <3> QED BY <2>0, <3>1, <3>2, ConclusionTypes DEF Judged
  <2>4. RunInv'
    BY <2>0, <2>1, <2>2, <2>3, LaunchSane
  <2>5. /\ client' \in [pc : {"waiting", "concluded"}, run : 0..MaxRuns] /\ client'.run = client.run + 1
        /\ runs' \in [Runs -> RunRecords] /\ proc' \in [Runs -> ProcStates]
    BY <1>0, <2>0, <2>1, <2>2, LaunchTypes
  <2>6. Types' /\ AdapterInv'
    BY <1>0, <2>0, <2>1, <2>5 DEF Types, AdapterInv, PinRequired
  <2> QED BY <2>4, <2>6 DEF Inv
<1>5. ASSUME Take PROVE Inv'
  <2>0. /\ client.pc = "concluded" /\ client' = [client EXCEPT !.pc = "idle"]
        /\ UNCHANGED <<config, host, probe, adapter, runs, proc, said, ending>>
    BY <1>5 DEF Take
  <2>1. client'.run = client.run /\ client'.pc = "idle"
        /\ client' \in [pc : {"unbuilt", "idle", "waiting", "concluded"}, run : 0..MaxRuns]
    BY <1>0, <2>0
  <2>2. Types' /\ AdapterInv'
    BY <1>0, <2>0, <2>1 DEF Types, AdapterInv, PinRequired
  <2>3. RunInv'
    BY <2>0, <2>1, HostSane
  <2> QED BY <2>2, <2>3 DEF Inv
<1>6. ASSUME NEW kind \in Kinds, Call(kind) PROVE Inv'
  <2>0. /\ client.pc = "idle" /\ client.run < MaxRuns /\ kind \in {"code", "sql", "action"}
        /\ UNCHANGED <<config, host, probe, adapter, said, ending>>
    BY <1>6, Settings DEF Call
  <2>1. adapter \in Adapters /\ client.run + 1 \in Runs /\ client.run + 1 \in 0..MaxRuns
    BY <1>0, <2>0, FreshRun DEF AdapterInv, Runs
  <2>2. CASE kind = "action" /\ adapter = "unsafe"
    <3> DEFINE rec == [kind |-> kind, by |-> adapter, result |-> Blank, verdict |-> "refused"]
    <3>1. /\ runs' = [runs EXCEPT ![client.run + 1] = rec]
          /\ client' = [client EXCEPT !.pc = "concluded", !.run = client.run + 1]
          /\ UNCHANGED proc
      BY <1>6, <2>2 DEF Call
    <3>2. rec.kind = "action" /\ rec.verdict = "refused" /\ rec \in RunRecords
      BY <2>1, <2>2, ResultTypes DEF RunRecords, RunKinds, Conclusions
    <3> HIDE DEF rec
    <3>3. RunInv' /\ client'.run = client.run + 1 /\ client'.pc = "concluded"
      BY <2>0, <3>1, <3>2, UnusedSane
    <3>4. /\ client' \in [pc : {"unbuilt", "idle", "waiting", "concluded"}, run : 0..MaxRuns]
          /\ runs' \in [Runs -> RunRecords]
      BY <1>0, <2>1, <3>1, <3>2
    <3>5. Types' /\ AdapterInv'
      BY <1>0, <2>0, <2>1, <3>1, <3>3, <3>4 DEF Types, AdapterInv, PinRequired
    <3> QED BY <3>3, <3>5 DEF Inv
  <2>3. CASE ~ (kind = "action" /\ adapter = "unsafe")
    <3>1. PICK k \in RunKinds : k = IF kind = "sql" THEN "reference" ELSE kind
      BY <2>0 DEF RunKinds
    <3>2. Launch(client.run + 1, k)
      BY <1>6, <2>3, <3>1 DEF Call
    <3>3. k # "query" /\ ~ (k = "action" /\ adapter = "unsafe")
      BY <2>0, <2>3, <3>1
    <3>4. RunInv'
      BY <2>0, <3>2, <3>3, LaunchSane
    <3>5. /\ client' \in [pc : {"waiting", "concluded"}, run : 0..MaxRuns] /\ client'.run = client.run + 1
          /\ runs' \in [Runs -> RunRecords] /\ proc' \in [Runs -> ProcStates]
      BY <1>0, <2>1, <3>2, LaunchTypes
    <3>6. Types' /\ AdapterInv'
      BY <1>0, <2>0, <2>1, <3>5 DEF Types, AdapterInv, PinRequired
    <3> QED BY <3>4, <3>6 DEF Inv
  <2> QED BY <2>2, <2>3
<1>7. ASSUME NEW r \in Runs, Process(r) PROVE Inv'
  <2>1. RunInv'
    BY <1>7, ProcessSane
  <2>2. /\ UNCHANGED <<config, host, probe, adapter, client, runs, entries>>
        /\ proc' \in [Runs -> ProcStates]
        /\ said' \in [Runs -> SUBSET {"started", "exec_failed", "setup_failed"}]
        /\ ending' \in [Runs -> CodeEndings \cup SqlEndings]
    BY <1>0, <1>7, ProcessStep
  <2>3. Types' /\ AdapterInv'
    BY <1>0, <2>2 DEF Types, AdapterInv, PinRequired
  <2> QED BY <2>1, <2>3 DEF Inv
<1>8. ASSUME NEW r \in Runs, Return(r) PROVE Inv'
  <2>1. Types' /\ RunInv'
    BY <1>8, ReturnSane
  <2>2. client.pc = "waiting" /\ UNCHANGED <<config, adapter>>
    BY <1>8 DEF Return
  <2> QED BY <1>0, <2>1, <2>2 DEF Inv, AdapterInv, PinRequired
<1>9. ASSUME NEW r \in Runs, WallClock(r) PROVE Inv'
  <2>1. Types' /\ RunInv'
    BY <1>9, WallClockSane
  <2>2. client.pc = "waiting" /\ UNCHANGED <<config, adapter>>
    BY <1>9 DEF WallClock
  <2> QED BY <1>0, <2>1, <2>2 DEF Inv, AdapterInv, PinRequired
<1>10. ASSUME UNCHANGED vars PROVE Inv'
  <2>1. UNCHANGED <<config, host, probe, adapter, client, runs, proc, said, ending>>
    BY <1>10 DEF vars
  <2>2. Types' /\ AdapterInv'
    BY <1>0, <2>1 DEF Types, AdapterInv, PinRequired
  <2>3. ASSUME NEW r \in Runs PROVE Sane(r)'
    <3>1. client.run \in Nat
      BY <1>0
    <3>2. Waits(r)' <=> Waits(r)
      BY <2>1 DEF Waits
    <3> QED BY <1>0, <2>1, <3>1, <3>2, RunKept
  <2> QED BY <2>2, <2>3 DEF Inv, RunInv
<1> QED BY <1>1, <1>2, <1>3, <1>4, <1>5, <1>6, <1>7, <1>8, <1>9, <1>10 DEF Next

-----------------------------------------------------------------------------
(* What the verdicts rest on.                                               *)

\* Whenever a candidate runs, what was said says so, whoever reads it.
LEMMA RanMeansSaid ==
    ASSUME Inv, NEW r \in Runs, Ran(r)
    PROVE  \A f : Started(runs[r].by, said[r], f)
<1>1. Spoken(r) /\ proc[r] \in {"running", "exited", "stopped"}
  BY DEF Inv, RunInv, Sane, Ran
<1> QED BY <1>1 DEF Spoken, Started, SaysStarted

\* The fields of the two kinds of result.
LEMMA ResultFields ==
    /\ \A by, t, e : /\ Finished(by, t, e).started_ok = Started(by, t, e.forged)
                     /\ Finished(by, t, e).candidate_started = Started(by, t, e.forged)
                     /\ Finished(by, t, e).timed_out = FALSE
                     /\ Finished(by, t, e).exit = e.exit /\ Finished(by, t, e).reply = e.reply
                     /\ Finished(by, t, e).policy_refusal = FALSE
    /\ \A by, t : /\ TimedOut(by, t).started_ok = TRUE /\ TimedOut(by, t).timed_out = TRUE
                  /\ TimedOut(by, t).candidate_started = Started(by, t, FALSE)
                  /\ TimedOut(by, t).reply = None
BY DEF Finished, TimedOut, Blank

\* A conclusion about the candidate needs a candidate that started.
LEMMA JudgedNeedsStart ==
    ASSUME NEW k \in RunKinds, NEW res \in Results
    PROVE  /\ Conclusion(k, res) = "PASS" =>
                 k \in {"code", "query"} /\ res.reply = "right" /\ ~ res.timed_out
           /\ Conclusion(k, res) \in {"FAIL", "ABSTAIN"} /\ k # "reference" =>
                 res.candidate_started
           /\ Conclusion(k, res) = "sound" =>
                 ~ res.timed_out /\ res.reply \notin {None, "query_error", "setup_error"}
           /\ Conclusion(k, res) = "refused" => ~ (res.started_ok /\ res.candidate_started)
           /\ /\ k \in {"code", "action"} /\ res.started_ok /\ res.candidate_started
              => Conclusion(k, res) \notin {"infra_fault", "policy_refusal", "refused"}
<1>1. /\ res.started_ok \in BOOLEAN /\ res.candidate_started \in BOOLEAN /\ res.timed_out \in BOOLEAN
      /\ res.policy_refusal \in BOOLEAN
  BY DEF Results
<1>2. CouldNotRun(res) \in {"policy_refusal", "infra_fault"}
  BY DEF CouldNotRun
<1>3. /\ VerifyCode(res) = "PASS" => res.reply = "right" /\ ~ res.timed_out
      /\ VerifyCode(res) \in {"FAIL", "ABSTAIN"} => res.candidate_started
      /\ res.started_ok /\ res.candidate_started => VerifyCode(res) \notin {"infra_fault", "policy_refusal", "refused"}
      /\ VerifyCode(res) \in {"policy_refusal", "infra_fault", "ABSTAIN", "PASS", "FAIL"}
  BY <1>1, <1>2 DEF VerifyCode
<1>4. /\ VerifyReference(res) = "sound" => ~ res.timed_out /\ res.reply \notin {None, "query_error", "setup_error"}
      /\ VerifyReference(res) \in {"policy_refusal", "infra_fault", "ABSTAIN", "sound"}
  BY <1>1, <1>2 DEF VerifyReference
<1>5. /\ VerifyQuery(res) = "PASS" => res.reply = "right" /\ ~ res.timed_out
      /\ VerifyQuery(res) \in {"FAIL", "ABSTAIN"} => res.candidate_started
      /\ VerifyQuery(res) \in {"policy_refusal", "infra_fault", "ABSTAIN", "PASS", "FAIL"}
  BY <1>1, <1>2 DEF VerifyQuery
<1>6. /\ ExecuteAction(res) \in {"executed", "refused"}
      /\ ExecuteAction(res) = "refused" <=> ~ (res.started_ok /\ res.candidate_started)
  BY DEF ExecuteAction
<1>7. \/ Conclusion(k, res) = "raised"
      \/ k = "code" /\ Conclusion(k, res) = VerifyCode(res)
      \/ k = "reference" /\ Conclusion(k, res) = VerifyReference(res)
      \/ k = "query" /\ Conclusion(k, res) = VerifyQuery(res)
      \/ k = "action" /\ Conclusion(k, res) = ExecuteAction(res)
  BY DEF Conclusion, RunKinds
<1> QED BY <1>3, <1>4, <1>5, <1>6, <1>7

\* A run that was judged is one of a kind, with a result.
LEMMA JudgedTypes ==
    ASSUME Inv, NEW r \in Runs, Judged(r)
    PROVE  /\ runs[r].kind \in RunKinds /\ runs[r].result \in Results
           /\ ending[r] \in CodeEndings \cup SqlEndings
           /\ ~ runs[r].result.timed_out => ByTheEnd(r)
<1>1. runs[r] \in RunRecords /\ Sane(r) /\ ending[r] \in CodeEndings \cup SqlEndings
  BY DEF Inv, Types, RunInv
<1>2. runs[r].kind \in RunKinds /\ runs[r].result \in Results
  BY <1>1 DEF Sane, Allowed, Judged, RunRecords
<1>3. ByTheClock(r) => runs[r].result.timed_out = TRUE
  BY ResultFields DEF ByTheClock
<1> QED BY <1>1, <1>2, <1>3 DEF Judged

\* An answer was left by a candidate that had control: of code, by one that ended
\* by itself, with exit status zero.
LEMMA AnswerLeft ==
    ASSUME Inv, NEW r \in Runs, Judged(r), ~ runs[r].result.timed_out, runs[r].result.reply # None
    PROVE  /\ Delivered(r) /\ ending[r].reply = runs[r].result.reply
           /\ runs[r].kind = "code" => proc[r] = "exited" /\ ending[r].exit = "zero"
           /\ runs[r].kind = "reference" => ending[r].reply \in {"right", "wrong", "query_error", "setup_error"}
<1>1. /\ runs[r].kind \in RunKinds /\ ending[r] \in CodeEndings \cup SqlEndings
      /\ runs[r].result = Finished(runs[r].by, said[r], ending[r])
  BY JudgedTypes DEF ByTheEnd
<1>2. ending[r].reply = runs[r].result.reply
  BY <1>1, ResultFields
<1>3. ending[r] # Killed
  BY <1>2 DEF Killed
<1>4. /\ proc[r] \in {"exited", "stopped"} /\ ending[r] \in Endings(runs[r].kind, runs[r].by)
      /\ proc[r] = "stopped" => ending[r].exit = "killed"
  BY <1>3 DEF Inv, RunInv, Sane, Left
<1>5. runs[r].kind = "code" => ending[r].exit = "zero"
  BY <1>2, <1>4, EndingTypes
<1>6. runs[r].kind = "reference" => ending[r] \in SqlEndings
  BY <1>4, EndingTypes
<1>7. runs[r].kind = "reference" => ending[r].reply \in {"right", "wrong", "query_error", "setup_error"}
  BY <1>2, <1>6, EndingTypes
<1> QED BY <1>2, <1>4, <1>5, <1>7 DEF Delivered

\* Isolation is what the settings ask for.
LEMMA IsolationKept == Inv => IsolationHonoured
<1> SUFFICES ASSUME Inv, NEW r \in Runs, Ran(r)
             PROVE  /\ runs[r].by = "unsafe" => config.allowUnsafe /\ runs[r].kind # "action"
                    /\ config.pin \/ config.envPin => runs[r].by = "container" /\ config.pinned
  BY DEF IsolationHonoured
<1>1. Allowed(r) /\ proc[r] # "none"
  BY DEF Inv, RunInv, Sane, Ran
<1> QED BY <1>1 DEF Allowed, PinRequired

\* Every verdict about a candidate is earned.
LEMMA VerdictsKept == Inv => VerdictsAreEarned
<1> SUFFICES ASSUME Inv, NEW r \in Runs
             PROVE  /\ runs[r].verdict = "PASS" =>
                          /\ Delivered(r) /\ ending[r].reply = "right"
                          /\ runs[r].kind = "code" => proc[r] = "exited" /\ ending[r].exit = "zero"
                          /\ runs[r].kind = "query" =>
                                /\ r - 1 \in Runs /\ runs[r - 1].kind = "reference"
                                /\ Delivered(r - 1) /\ ending[r - 1].reply \in Answered
                    /\ runs[r].verdict \in {"FAIL", "ABSTAIN"} /\ runs[r].kind # "reference" =>
                          \/ runs[r].by \in {"unsafe", None}
                          \/ "started" \in said[r] /\ (runs[r].by # "container" => "exec_failed" \notin said[r])
  BY DEF VerdictsAreEarned
<1>0. Founded(r) /\ Referenced(r) /\ None \notin {"PASS", "FAIL", "ABSTAIN", "right", "sound"}
  BY SandboxAssumption DEF Inv, RunInv, Sane
<1>1. ASSUME NEW q \in Runs, runs[q].verdict = "sound", runs[q].kind = "reference"
      PROVE  Delivered(q) /\ ending[q].reply \in Answered
  <2>1. Founded(q)
    BY DEF Inv, RunInv, Sane
  <2>2. Judged(q)
    BY <1>0, <1>1, <2>1 DEF Founded, NotRun
  <2>3. ~ runs[q].result.timed_out /\ runs[q].result.reply \notin {None, "query_error", "setup_error"}
    <3>1. runs[q].kind \in RunKinds /\ runs[q].result \in Results
      BY <2>2, JudgedTypes
    <3> QED BY <1>1, <2>2, <3>1, JudgedNeedsStart DEF Judged
  <2> QED BY <1>1, <2>2, <2>3, AnswerLeft DEF Answered
<1>2. CASE runs[r].verdict = "PASS"
  <2>1. Judged(r)
    BY <1>0, <1>2 DEF Founded, NotRun
  <2>2. runs[r].result.reply = "right" /\ ~ runs[r].result.timed_out
    <3>1. runs[r].kind \in RunKinds /\ runs[r].result \in Results
      BY <2>1, JudgedTypes
    <3> QED BY <1>2, <2>1, <3>1, JudgedNeedsStart DEF Judged
  <2>3. /\ Delivered(r) /\ ending[r].reply = "right"
        /\ runs[r].kind = "code" => proc[r] = "exited" /\ ending[r].exit = "zero"
    BY <1>0, <2>1, <2>2, AnswerLeft
  <2>4. runs[r].kind = "query" => /\ r - 1 \in Runs /\ runs[r - 1].kind = "reference"
                                  /\ Delivered(r - 1) /\ ending[r - 1].reply \in Answered
    BY <1>0, <1>1 DEF Referenced
  <2> QED BY <1>2, <2>3, <2>4
<1>3. CASE runs[r].verdict \in {"FAIL", "ABSTAIN"} /\ runs[r].kind # "reference" /\ Judged(r)
  <2>1. runs[r].kind \in RunKinds /\ runs[r].result \in Results /\ ending[r] \in CodeEndings \cup SqlEndings
    BY <1>3, JudgedTypes
  <2>2. runs[r].result.candidate_started
    BY <1>3, <2>1, JudgedNeedsStart DEF Judged
  <2>3. CASE ByTheEnd(r)
    <3>1. Started(runs[r].by, said[r], ending[r].forged)
      BY <2>2, <2>3, ResultFields DEF ByTheEnd
    <3> QED BY <1>3, <3>1 DEF Started, SaysStarted
  <2>4. CASE ByTheClock(r)
    <3>1. CASE runs[r].by # "container"
      <4>1. Started(runs[r].by, said[r], FALSE)
        BY <2>2, <2>4, <3>1, ResultFields DEF ByTheClock
      <4> QED BY <1>3, <4>1 DEF Started, SaysStarted
    <3>2. CASE runs[r].by = "container"
      <4>1. PICK read \in SUBSET said[r] : runs[r].result = TimedOut("container", read)
        BY <2>4, <3>2 DEF ByTheClock
      <4>2. Started("container", read, FALSE)
        BY <2>2, <4>1, ResultFields
      <4>3. "started" \in read
        BY <4>2 DEF Started, SaysStarted
      <4> QED BY <1>3, <3>2, <4>1, <4>3
    <3> QED BY <3>1, <3>2
  <2> QED BY <1>3, <2>3, <2>4 DEF Judged
<1>4. CASE runs[r].verdict \in {"FAIL", "ABSTAIN"} /\ runs[r].kind # "reference" /\ ~ Judged(r)
  BY <1>0, <1>4 DEF Founded, NotRun
<1> QED BY <1>2, <1>3, <1>4

\* A candidate that ended by itself is judged.
LEMMA OwnEndKept == Inv => OwnEndIsJudged
<1> SUFFICES ASSUME Inv, NEW r \in Runs, proc[r] = "exited", ~ runs[r].result.timed_out,
                    runs[r].kind \in {"code", "action"}
             PROVE  runs[r].verdict \notin {"infra_fault", "policy_refusal", "refused"}
  BY DEF OwnEndIsJudged
<1>1. CASE runs[r].verdict = None
  BY <1>1, SandboxAssumption
<1>2. CASE runs[r].verdict # None
  <2>1. Judged(r)
    BY <1>2 DEF Inv, RunInv, Sane, Founded, NotRun
  <2>2. /\ runs[r].result = Finished(runs[r].by, said[r], ending[r])
        /\ runs[r].kind \in RunKinds /\ runs[r].result \in Results
    BY <2>1, JudgedTypes DEF ByTheEnd
  <2>3. Started(runs[r].by, said[r], ending[r].forged)
    BY RanMeansSaid DEF Ran
  <2>4. runs[r].result.started_ok /\ runs[r].result.candidate_started
    BY <2>2, <2>3, ResultFields
  <2> QED BY <2>1, <2>2, <2>4, JudgedNeedsStart DEF Judged
<1> QED BY <1>1, <1>2

\* Whenever a candidate has run, under any settings, on any host and through any
\* change of what the host offers, it ran under the isolation the settings ask
\* for (build_sandbox, the adapters' run, SandboxExecutor._run).
THEOREM IsolationAsAsked == Spec => []IsolationHonoured
<1>1. Inv /\ [Next]_vars => Inv'
  BY InvStep
<1> QED BY <1>1, InvInit, IsolationKept, PTL DEF Spec

\* No fault of the harness becomes a verdict about the candidate, whenever the
\* process dies, with its result written or not, or the clock strikes
\* (SubprocessVerifier.verify, SqlVerifier.verify).
THEOREM VerdictsEarned == Spec => []VerdictsAreEarned
<1>1. Inv /\ [Next]_vars => Inv'
  BY InvStep
<1> QED BY <1>1, InvInit, VerdictsKept, PTL DEF Spec

\* Nothing a candidate writes or returns makes its own failure look like one of
\* the harness (pipe_candidate_started, interpret_stream).
THEOREM OwnEndJudged == Spec => []OwnEndIsJudged
<1>1. Inv /\ [Next]_vars => Inv'
  BY InvStep
<1> QED BY <1>1, InvInit, OwnEndKept, PTL DEF Spec

-----------------------------------------------------------------------------
(* The authorization behind an action.                                      *)

St == SpendState(entries).status

\* What a step may do to the record and to the runs of the action.
Same == \A r \in Runs : Effective(r)' <=> Effective(r)

Passes == UNCHANGED entries /\ Same
Claims == St \in {"unspent", "released"} /\ entries' = Append(entries, SpendEntry(None)) /\ Same
Acts == /\ UNCHANGED <<entries, client, runs>>
        /\ \E r \in Runs : /\ Waits(r) /\ runs[r].kind = "action" /\ Effective(r)' /\ ~ Effective(r)
                           /\ \A q \in Runs : q # r => (Effective(q)' <=> Effective(q))
Gives == /\ St = "spent" /\ (\A r \in Runs : ~ Effective(r)) /\ entries' = Append(entries, ReleaseEntry)
         /\ Same /\ client'.pc = "idle"
Settles == /\ St = "spent" /\ client.run \in Runs /\ entries' = Append(entries, CompletedEntry(client.run))
           /\ Same /\ client'.pc = "idle"

\* A client that is busy with an action is so from its claim on.
StaysBusy ==
    client'.pc \in {"waiting", "concluded"} /\ runs'[client'.run].kind = "action" =>
        Claims \/ (/\ client.pc \in {"waiting", "concluded"} /\ client'.run = client.run
                   /\ runs[client.run].kind = "action" /\ UNCHANGED entries)

\* A refused action has had no effect, where its process ends with the clock.
LEMMA RefusedHadNoEffect ==
    ASSUME Inv, NEW r \in Runs, runs[r].verdict = "refused"
    PROVE  ~ Effective(r)
<1> SUFFICES ASSUME Effective(r) PROVE FALSE
  OBVIOUS
<1>1. Ran(r) /\ runs[r].by # "container" /\ proc[r] # "none" /\ Founded(r) /\ None # "refused"
  BY SandboxAssumption DEF Effective, Ran, Inv, RunInv, Sane
<1>2. Judged(r)
  BY <1>1 DEF Founded, NotRun
<1>3. runs[r].kind \in RunKinds /\ runs[r].result \in Results
  BY <1>2, JudgedTypes
<1>4. ~ (runs[r].result.started_ok /\ runs[r].result.candidate_started)
  BY <1>2, <1>3, JudgedNeedsStart DEF Judged
<1>5. \A f : Started(runs[r].by, said[r], f)
  BY <1>1, RanMeansSaid
<1>6. CASE ByTheEnd(r)
  BY <1>4, <1>5, <1>6, ResultFields DEF ByTheEnd
<1>7. CASE ByTheClock(r)
  <2>1. runs[r].result = TimedOut(runs[r].by, said[r])
    BY <1>1, <1>7 DEF ByTheClock
  <2>2. /\ runs[r].result.started_ok = TRUE
        /\ runs[r].result.candidate_started = Started(runs[r].by, said[r], FALSE)
    BY <2>1 DEF TimedOut, Blank
  <2>3. Started(runs[r].by, said[r], FALSE)
    BY <1>5
  <2> QED BY <1>4, <2>2, <2>3
<1> QED BY <1>2, <1>6, <1>7 DEF Judged

\* A launch has no effect yet, since an action is not launched without isolation.
LEMMA LaunchSame ==
    ASSUME Inv, NEW kind \in RunKinds, client.run < MaxRuns, Launch(client.run + 1, kind),
           ~ (kind = "action" /\ adapter = "unsafe")
    PROVE  Same /\ runs'[client'.run].kind = kind
<1>1. /\ client.run + 1 \in Runs /\ proc[client.run + 1] = "none"
      /\ runs \in [Runs -> RunRecords] /\ proc \in [Runs -> ProcStates]
      /\ client \in [pc : {"unbuilt", "idle", "waiting", "concluded"}, run : 0..MaxRuns]
  BY FreshRun DEF Inv, Types
<1>2. PICK n \in Runs : n = client.run + 1
  BY <1>1
<1>3. \A q \in Runs : q # n => runs'[q] = runs[q] /\ proc'[q] = proc[q]
  BY <1>1, <1>2 DEF Launch
<1>4. /\ runs'[n].kind = kind /\ client'.run = n
      /\ proc'[n] \in {"none", "bootstrap"} \/ (proc'[n] = "running" /\ adapter = "unsafe")
  <2>1. CASE /\ runs' = [runs EXCEPT ![n] = [NoRun EXCEPT !.kind = kind, !.by = adapter]]
             /\ proc' = [proc EXCEPT ![n] = IF adapter = "unsafe" THEN "running" ELSE "bootstrap"]
             /\ client' = [client EXCEPT !.pc = "waiting", !.run = n]
    BY <1>1, <2>1 DEF NoRun
  <2>2. ASSUME NEW res, runs' = [runs EXCEPT ![n] = [kind |-> kind, by |-> adapter, result |-> res,
                                                     verdict |-> Conclusion(kind, res)]],
               UNCHANGED proc, client' = [client EXCEPT !.pc = "concluded", !.run = n]
        PROVE  runs'[n].kind = kind /\ client'.run = n /\ proc'[n] = "none"
    BY <1>1, <1>2, <2>2
  <2> QED BY <1>2, <2>1, <2>2 DEF Launch
<1>5. ~ Effective(n) /\ ~ Effective(n)'
  BY <1>1, <1>2, <1>4 DEF Effective, Ran
<1> QED BY <1>3, <1>4, <1>5 DEF Same, Effective, Ran

\* Every step passes the record by, claims, acts, gives back or settles.
LEMMA SpendStep ==
    ASSUME Inv, SpendInv, [Next]_vars
    PROVE  (Passes \/ Claims \/ Acts \/ Gives \/ Settles) /\ StaysBusy
<1>0. /\ client \in [pc : {"unbuilt", "idle", "waiting", "concluded"}, run : 0..MaxRuns]
      /\ client.pc \in {"waiting", "concluded"} => client.run \in Runs
      /\ runs \in [Runs -> RunRecords] /\ proc \in [Runs -> ProcStates] /\ MaxRuns \in Nat
  BY Settings DEF Inv, Types
<1>1. ASSUME UNCHANGED <<runs, proc, entries>>, client'.run = client.run,
             client'.pc \in {"waiting", "concluded"} => client.pc \in {"waiting", "concluded"}
      PROVE  Passes /\ StaysBusy
  BY <1>1 DEF Passes, Same, Effective, Ran, StaysBusy
<1>2. CASE Build \/ HostChanges \/ UNCHANGED vars
  <2>1. UNCHANGED <<runs, proc, entries>> /\ client'.run = client.run
    BY <1>0, <1>2 DEF Build, HostChanges, vars
  <2>2. client'.pc \in {"waiting", "concluded"} => client.pc \in {"waiting", "concluded"}
    BY <1>0, <1>2 DEF Build, HostChanges, vars
  <2> QED BY <1>1, <2>1, <2>2
<1>3. CASE NothingToRun
  <2>1. PICK n \in Runs : n = client.run + 1 /\ proc[n] = "none"
    BY <1>3, FreshRun DEF NothingToRun
  <2>2. /\ client'.run = n /\ UNCHANGED <<proc, entries>> /\ runs'[n].kind = "code"
        /\ \A q \in Runs : q # n => runs'[q] = runs[q]
    BY <1>0, <1>3, <2>1 DEF NothingToRun, NoRun
  <2>3. Passes
    BY <2>1, <2>2 DEF Passes, Same, Effective, Ran
  <2> QED BY <2>2, <2>3 DEF StaysBusy
<1>4. CASE NextQuery
  <2>1. /\ client.run < MaxRuns /\ Launch(client.run + 1, "query") /\ UNCHANGED entries
        /\ "query" \in RunKinds
    BY <1>4 DEF NextQuery, RunKinds
  <2>2. Same /\ runs'[client'.run].kind = "query"
    BY <2>1, LaunchSame
  <2> QED BY <2>1, <2>2 DEF Passes, StaysBusy
<1>5. CASE Take
  <2>1. /\ client.pc = "concluded" /\ client' = [client EXCEPT !.pc = "idle"] /\ client.run \in Runs
        /\ entries' = Settle(runs[client.run].verdict) /\ UNCHANGED <<runs, proc>>
    BY <1>0, <1>5 DEF Take
  <2>2. client'.pc = "idle" /\ Same /\ Sane(client.run)
    BY <1>0, <2>1 DEF Same, Effective, Ran, Inv, RunInv
  <2>3. StaysBusy
    BY <2>2 DEF StaysBusy
  <2>4. CASE runs[client.run].verdict \in {"refused", "executed"}
    <3>1. runs[client.run].kind = "action"
      <4>1. CASE Judged(client.run)
        <5>1. runs[client.run].kind \in RunKinds /\ runs[client.run].result \in Results
          BY <2>1, <4>1, JudgedTypes
        <5> QED BY <2>4, <4>1, <5>1, ConclusionTypes DEF Judged
      <4>2. CASE ~ Judged(client.run)
        <5>1. NotRun(client.run)
          BY <2>2, <2>4, <4>2, SandboxAssumption DEF Sane, Founded
        <5> QED BY <2>4, <5>1 DEF NotRun
      <4> QED BY <4>1, <4>2
    <3>2. St = "spent" /\ \A r \in Runs : r # client.run => ~ Effective(r)
      BY <2>1, <3>1 DEF SpendInv, St
    <3>3. CASE runs[client.run].verdict = "refused"
      <4>1. ~ Effective(client.run)
        BY <2>1, <3>3, RefusedHadNoEffect
      <4>2. entries' = Append(entries, ReleaseEntry)
        BY <2>1, <3>3 DEF Settle
      <4> QED BY <2>2, <2>3, <3>2, <4>1, <4>2 DEF Gives
    <3>4. CASE runs[client.run].verdict = "executed"
      <4>1. entries' = Append(entries, CompletedEntry(client.run))
        BY <2>1, <3>4 DEF Settle
      <4> QED BY <2>1, <2>2, <2>3, <3>2, <4>1 DEF Settles
    <3> QED BY <2>4, <3>3, <3>4
  <2>5. CASE runs[client.run].verdict \notin {"refused", "executed"}
    <3>1. entries' = entries
      BY <2>1, <2>5 DEF Settle
    <3> QED BY <2>2, <2>3, <3>1 DEF Passes
  <2> QED BY <2>4, <2>5
<1>6. ASSUME NEW kind \in Kinds, Call(kind)
      PROVE  (Passes \/ Claims \/ Acts \/ Gives \/ Settles) /\ StaysBusy
  <2>1. /\ client.run < MaxRuns /\ kind \in {"code", "sql", "action"}
        /\ kind = "action" => MayExecute /\ entries' = Append(entries, SpendEntry(None))
        /\ kind # "action" => entries' = entries
    BY <1>6, Settings DEF Call
  <2>2. Same /\ (kind # "action" => runs'[client'.run].kind # "action")
    <3>1. CASE kind = "action" /\ adapter = "unsafe"
      <4>1. PICK n \in Runs : n = client.run + 1 /\ proc[n] = "none"
        BY <2>1, FreshRun
      <4>2. UNCHANGED proc /\ \A q \in Runs : q # n => runs'[q] = runs[q]
        BY <1>0, <1>6, <3>1, <4>1 DEF Call
      <4> QED BY <3>1, <4>1, <4>2 DEF Same, Effective, Ran
    <3>2. CASE ~ (kind = "action" /\ adapter = "unsafe")
      <4>1. PICK k \in RunKinds : k = IF kind = "sql" THEN "reference" ELSE kind
        BY <2>1 DEF RunKinds
      <4>2. Launch(client.run + 1, k) /\ ~ (k = "action" /\ adapter = "unsafe")
        BY <1>6, <2>1, <3>2, <4>1 DEF Call
      <4>3. Same /\ runs'[client'.run].kind = k
        BY <2>1, <4>2, LaunchSame
      <4> QED BY <2>1, <4>1, <4>3
    <3> QED BY <3>1, <3>2
  <2>3. MayExecute => St \in {"unspent", "released"}
    <3>1. St \in {"unspent", "spent", "completed", "released"}
      BY DEF SpendInv, Statuses, St
    <3> QED BY <3>1 DEF MayExecute, RetryVerdict, St
  <2> QED BY <2>1, <2>2, <2>3 DEF Passes, Claims, StaysBusy
<1>7. ASSUME NEW r \in Runs, Process(r)
      PROVE  (Passes \/ Claims \/ Acts \/ Gives \/ Settles) /\ StaysBusy
  <2>1. /\ Types /\ UNCHANGED <<client, runs, entries>> /\ proc[r] \in Active
        /\ \A q \in Runs : q # r => proc'[q] = proc[q]
        /\ Ran(r) => Ran(r)'
        /\ Ran(r)' /\ ~ Ran(r) => proc[r] = "announced"
    <3>1. Types
      BY DEF Inv
    <3> QED BY <1>7, <3>1, ProcessStep DEF Ran, Active
  <2>2. StaysBusy
    BY <2>1 DEF StaysBusy
  <2>3. \A q \in Runs : q # r => (Effective(q)' <=> Effective(q))
    BY <2>1 DEF Effective, Ran
  <2>4. CASE Effective(r)' <=> Effective(r)
    BY <2>1, <2>2, <2>3, <2>4 DEF Passes, Same
  <2>5. CASE ~ (Effective(r)' <=> Effective(r))
    <3>1. Effective(r)' /\ ~ Effective(r) /\ runs[r].kind = "action" /\ runs[r].by # "container"
      BY <2>1, <2>5 DEF Effective
    <3>2. Waits(r)
      BY <2>1, <3>1 DEF Inv, RunInv, Sane, Attended
    <3> QED BY <2>1, <2>2, <2>3, <3>1, <3>2 DEF Acts
  <2> QED BY <2>4, <2>5
<1>8. ASSUME NEW r \in Runs, Return(r) \/ WallClock(r)
      PROVE  Passes /\ StaysBusy
  <2>1. /\ client.pc = "waiting" /\ client.run = r /\ UNCHANGED entries
        /\ \E res \in Results : Conclude(r, res)
    <3>1. ending[r] \in CodeEndings \cup SqlEndings
      BY DEF Inv, Types
    <3> QED BY <1>8, <3>1, ResultTypes DEF Return, WallClock
  <2>2. /\ client'.run = client.run /\ runs'[r].kind = runs[r].kind /\ runs'[r].by = runs[r].by
        /\ \A q \in Runs : q # r => runs'[q] = runs[q]
    BY <1>0, <2>1 DEF Conclude, RunRecords
  <2>3. \A q \in Runs : q # r => proc'[q] = proc[q]
    BY <1>0, <1>8 DEF Return, WallClock
  <2>4. Ran(r)' <=> Ran(r)
    <3>1. CASE UNCHANGED proc
      BY <3>1 DEF Ran
    <3>2. CASE ~ UNCHANGED proc
      <4>1. proc' = [proc EXCEPT ![r] = CASE Ended(r) -> @ [] @ = "running" -> "stopped" [] OTHER -> "dead"]
        BY <1>8, <3>2 DEF Return, WallClock
      <4>2. proc'[r] = CASE Ended(r) -> proc[r] [] proc[r] = "running" -> "stopped" [] OTHER -> "dead"
        BY <1>0, <4>1
      <4>3. CASE Ended(r)
        BY <4>2, <4>3 DEF Ran, Ended
      <4>4. CASE ~ Ended(r)
        BY <4>2, <4>4 DEF Ran, Ended
      <4> QED BY <4>3, <4>4
    <3> QED BY <3>1, <3>2
  <2>5. Same
    BY <2>2, <2>3, <2>4 DEF Same, Effective, Ran
  <2> QED BY <2>1, <2>2, <2>5 DEF Passes, StaysBusy
<1> QED BY <1>2, <1>3, <1>4, <1>5, <1>6, <1>7, <1>8 DEF Next

\* The entries of the record have the form the fold expects.
LEMMA EntryTypes ==
    /\ SpendEntry(None) \in Entries /\ ReleaseEntry \in Entries
    /\ \A r \in Runs : CompletedEntry(r) \in Entries
BY DEF Entries, SpendEntry, ReleaseEntry, CompletedEntry

\* What a step does to the status.
LEMMA StatusStep ==
    ASSUME SpendInv, Passes \/ Claims \/ Acts \/ Gives \/ Settles
    PROVE  /\ entries' \in Seq(Entries)
           /\ Passes \/ Acts => St' = St
           /\ Claims => St' = "spent"
           /\ Gives => St' = "released"
           /\ Settles => St' = "completed"
<1>0. entries \in Seq(Entries)
  BY DEF SpendInv
<1>1. ASSUME NEW e \in Entries, entries' = Append(entries, e)
      PROVE  entries' \in Seq(Entries) /\ SpendState(entries') = Fold(SpendState(entries), e)
  BY <1>0, <1>1, SpendStateAppend
<1>2. Claims => entries' \in Seq(Entries) /\ St' = "spent"
  BY <1>1, EntryTypes, FoldStatus DEF Claims, St
<1>3. Gives => entries' \in Seq(Entries) /\ St' = "released"
  BY <1>1, EntryTypes, FoldStatus DEF Gives, St
<1>4. ASSUME Settles PROVE entries' \in Seq(Entries) /\ St' = "completed"
  <2>1. CompletedEntry(client.run) \in Entries /\ entries' = Append(entries, CompletedEntry(client.run))
    BY <1>4, EntryTypes DEF Settles
  <2>2. entries' \in Seq(Entries) /\ SpendState(entries') = Fold(SpendState(entries), CompletedEntry(client.run))
    BY <1>1, <2>1
  <2>3. St = "spent"
    BY <1>4 DEF Settles
  <2>4. SpendState(entries').status = "completed"
    BY <2>2, <2>3 DEF St, Fold, CompletedEntry, PermittedFrom
  <2> QED BY <2>2, <2>4 DEF St
<1>5. Passes \/ Acts => entries' = entries
  BY DEF Passes, Acts
<1> QED BY <1>0, <1>2, <1>3, <1>4, <1>5 DEF St

\* The invariant of the spend record holds initially,
LEMMA SpendInvInit == Init => SpendInv
<1> SUFFICES ASSUME Init PROVE SpendInv
  OBVIOUS
<1>1. entries = <<>> /\ entries \in Seq(Entries) /\ client.pc = "unbuilt" /\ \A r \in Runs : proc[r] = "none"
  BY DEF Init
<1>2. SpendState(entries).status = "unspent"
  BY <1>1, SpendStateEmpty DEF Unspent
<1> QED BY <1>1, <1>2 DEF SpendInv, Effective, Ran, Statuses

\* and is kept by every step.
LEMMA SpendInvStep ==
    ASSUME Inv, SpendInv, [Next]_vars
    PROVE  SpendInv'
<1>1. (Passes \/ Claims \/ Acts \/ Gives \/ Settles) /\ StaysBusy
  BY SpendStep
<1>2. /\ entries' \in Seq(Entries)
      /\ Passes \/ Acts => St' = St
      /\ Claims => St' = "spent"
      /\ Gives => St' = "released"
      /\ Settles => St' = "completed"
  BY <1>1, StatusStep
<1>3. /\ St \in {"unspent", "spent", "completed", "released"}
      /\ client.pc \in {"waiting", "concluded"} /\ runs[client.run].kind = "action" =>
            St = "spent" /\ \A r \in Runs : r # client.run => ~ Effective(r)
      /\ St \in {"unspent", "released"} => \A r \in Runs : ~ Effective(r)
      /\ \A r, q \in Runs : Effective(r) /\ Effective(q) => r = q
  BY DEF SpendInv, St, Statuses
<1>4. St' \in {"unspent", "spent", "completed", "released"}
  BY <1>1, <1>2, <1>3
<1>5. /\ Passes => Same
      /\ Claims => Same /\ St \in {"unspent", "released"}
      /\ Gives => Same /\ (\A r \in Runs : ~ Effective(r)) /\ client'.pc = "idle"
      /\ Settles => Same /\ client'.pc = "idle"
  BY DEF Passes, Claims, Gives, Settles
<1>6. ASSUME Acts
      PROVE  /\ St = "spent" /\ UNCHANGED client
             /\ \E r \in Runs : r = client.run /\ \A q \in Runs : Effective(q)' <=> q = r
  <2>1. PICK r \in Runs : /\ Waits(r) /\ runs[r].kind = "action" /\ Effective(r)' /\ ~ Effective(r)
                          /\ \A q \in Runs : q # r => (Effective(q)' <=> Effective(q))
    BY <1>6 DEF Acts
  <2>2. client.pc = "waiting" /\ client.run = r /\ UNCHANGED client
    BY <1>6, <2>1 DEF Waits, Acts
  <2>3. St = "spent" /\ \A q \in Runs : q # r => ~ Effective(q)
    BY <1>3, <2>1, <2>2
  <2> QED BY <2>1, <2>2, <2>3
<1>7. \A r, q \in Runs : Effective(r)' /\ Effective(q)' => r = q
  BY <1>1, <1>3, <1>5, <1>6 DEF Same
<1>8. St' \in {"unspent", "released"} => \A r \in Runs : ~ Effective(r)'
  BY <1>1, <1>2, <1>3, <1>5, <1>6 DEF Same
<1>9. client'.pc \in {"waiting", "concluded"} /\ runs'[client'.run].kind = "action" =>
            St' = "spent" /\ \A r \in Runs : r # client'.run => ~ Effective(r)'
  <2> SUFFICES ASSUME client'.pc \in {"waiting", "concluded"}, runs'[client'.run].kind = "action"
               PROVE  St' = "spent" /\ \A r \in Runs : r # client'.run => ~ Effective(r)'
    OBVIOUS
  <2>1. CASE Claims
    BY <1>2, <1>3, <1>5, <2>1 DEF Same
  <2>2. CASE ~ Claims
    <3>1. /\ client.pc \in {"waiting", "concluded"} /\ client'.run = client.run
          /\ runs[client.run].kind = "action"
      BY <1>1, <2>2 DEF StaysBusy
    <3>2. Passes \/ Acts
      BY <1>1, <1>5, <2>2
    <3> QED BY <1>2, <1>3, <1>5, <1>6, <3>1, <3>2 DEF Same
  <2> QED BY <2>1, <2>2
<1> QED BY <1>2, <1>4, <1>7, <1>8, <1>9 DEF SpendInv, St, Statuses

\* The types of the state, and a spend history that the transition table of the
\* record permits, for any settings and any number of runs (execution/executor.py,
\* ledger/spend.py).
THEOREM SandboxTypeCorrect == Spec => []TypeOK
<1>1. Inv /\ SpendInv /\ [Next]_vars => Inv' /\ SpendInv'
  BY InvStep, SpendInvStep
<1>2. Inv /\ SpendInv => TypeOK
  BY DEF Inv, Types, SpendInv, TypeOK, RunRecords, RunKinds
<1> QED BY <1>1, <1>2, InvInit, SpendInvInit, PTL DEF Spec

-----------------------------------------------------------------------------
(* SandboxRun implements SingleUse.                                         *)

\* The two abstract variables under the mapping.
Record == CASE SpendState(entries).status \in {"unspent", "released"} -> "open"
            [] SpendState(entries).status = "spent" -> "claimed"
            [] OTHER -> "done"
Effects == Cardinality({r \in ActionRuns : Ran(r) /\ runs[r].by # "container"})

\* How often the action has taken effect.
LEMMA CountEffects ==
    /\ (\A r \in Runs : ~ Effective(r)) => Effects = 0
    /\ \A r \in Runs : (\A q \in Runs : Effective(q) <=> q = r) => Effects = 1
<1> DEFINE E == {r \in ActionRuns : Ran(r) /\ runs[r].by # "container"}
<1>1. E = {r \in Runs : Effective(r)}
  BY DEF ActionRuns, Effective
<1>2. ASSUME \A r \in Runs : ~ Effective(r) PROVE Effects = 0
  <2>1. E = {}
    BY <1>1, <1>2
  <2> QED BY <2>1, FS_EmptySet DEF Effects
<1>3. ASSUME NEW r \in Runs, \A q \in Runs : Effective(q) <=> q = r PROVE Effects = 1
  <2>1. E = {r}
    BY <1>1, <1>3
  <2> QED BY <2>1, FS_Singleton DEF Effects
<1> QED BY <1>2, <1>3

\* Effects counts the same runs after a step that changes none of them.
LEMMA CountSame ==
    ASSUME Same PROVE Effects' = Effects
<1>1. {r \in ActionRuns : Ran(r) /\ runs[r].by # "container"} = {r \in Runs : Effective(r)}
  BY DEF ActionRuns, Effective
<1>2. {r \in ActionRuns : Ran(r) /\ runs[r].by # "container"}' = {r \in Runs : Effective(r)'}
  BY DEF ActionRuns, Effective
<1>3. {r \in Runs : Effective(r)'} = {r \in Runs : Effective(r)}
  BY DEF Same
<1>4. {r \in ActionRuns : Ran(r) /\ runs[r].by # "container"}' =
      {r \in ActionRuns : Ran(r) /\ runs[r].by # "container"}
  BY <1>1, <1>2, <1>3
<1> QED BY <1>4 DEF Effects

\* Every step is a step of SingleUse or leaves it alone.
LEMMA SingleUseStep ==
    ASSUME Inv, SpendInv, [Next]_vars
    PROVE  [Abstract!SingleUseNext]_(Abstract!singleUseVars)
<1>1. Passes \/ Claims \/ Acts \/ Gives \/ Settles
  BY SpendStep
<1>2. /\ Passes \/ Acts => St' = St
      /\ Claims => St' = "spent"
      /\ Gives => St' = "released"
      /\ Settles => St' = "completed"
  BY <1>1, StatusStep
<1>3. CASE Passes
  <2>1. Effects' = Effects /\ entries' = entries
    BY <1>3, CountSame DEF Passes
  <2> QED BY <2>1 DEF Abstract!singleUseVars, Effects
<1>4. CASE Claims
  <2>1. Effects' = Effects /\ Record = "open" /\ Record' = "claimed"
    BY <1>2, <1>4, CountSame DEF Claims, Record, St
  <2>2. Abstract!Claim("action")
    BY <2>1 DEF Abstract!Claim, Abstract!Moves, Record, Effects
  <2> QED BY <2>2 DEF Abstract!SingleUseNext
<1>5. CASE Gives
  <2>1. Effects' = Effects /\ Record = "claimed" /\ Record' = "open" /\ Effects = 0
    BY <1>2, <1>5, CountSame, CountEffects DEF Gives, Record, St
  <2>2. Abstract!GiveBack("action")
    BY <2>1 DEF Abstract!GiveBack, Abstract!Moves, Record, Effects
  <2> QED BY <2>2 DEF Abstract!SingleUseNext
<1>6. CASE Settles
  <2>1. Effects' = Effects /\ Record = "claimed" /\ Record' = "done"
    BY <1>2, <1>6, CountSame DEF Settles, Record, St
  <2>2. Abstract!Settle("action")
    BY <2>1 DEF Abstract!Settle, Abstract!Moves, Record, Effects
  <2> QED BY <2>2 DEF Abstract!SingleUseNext
<1>7. CASE Acts
  <2>1. PICK r \in Runs : /\ Waits(r) /\ runs[r].kind = "action" /\ Effective(r)' /\ ~ Effective(r)
                          /\ \A q \in Runs : q # r => (Effective(q)' <=> Effective(q))
    BY <1>7 DEF Acts
  <2>2. St = "spent" /\ entries' = entries /\ \A q \in Runs : q # r => ~ Effective(q)
    BY <1>7, <2>1 DEF SpendInv, Waits, St, Acts
  <2>3. Effects = 0
    BY <2>1, <2>2, CountEffects
  <2>4. Effects' = 1
    <3>1. \A q \in Runs : Effective(q)' <=> q = r
      BY <2>1, <2>2
    <3>2. {q \in ActionRuns : Ran(q) /\ runs[q].by # "container"}' = {r}
      BY <3>1 DEF ActionRuns, Effective
    <3> QED BY <3>2, FS_Singleton DEF Effects
  <2>5. Record = "claimed" /\ entries' = entries
    BY <2>2 DEF Record, St
  <2>6. Abstract!TakeEffect("action")
    BY <2>3, <2>4, <2>5 DEF Abstract!TakeEffect, Record, Effects
  <2> QED BY <2>6 DEF Abstract!SingleUseNext
<1> QED BY <1>1, <1>3, <1>4, <1>5, <1>6, <1>7

\* The run of an authorized action implements SingleUse for any settings and any
\* number of runs: it takes effect at most once and only while its authorization
\* is claimed, which is given back only while it has had no effect, with the
\* adapters whose processes end with the wall clock.
THEOREM SandboxIsSingleUse == Spec => SingleUse
<1>1. Inv /\ SpendInv /\ [Next]_vars => Inv' /\ SpendInv'
  BY InvStep, SpendInvStep
<1>2. Init => Abstract!SingleUseInit
  <2> SUFFICES ASSUME Init PROVE Abstract!SingleUseInit
    OBVIOUS
  <2>1. entries = <<>> /\ \A r \in Runs : ~ Effective(r)
    BY DEF Init, Effective, Ran
  <2>2. SpendState(entries).status = "unspent" /\ Effects = 0
    BY <2>1, SpendStateEmpty, CountEffects DEF Unspent
  <2> QED BY <2>2 DEF Abstract!SingleUseInit, Effects
<1>3. Inv /\ SpendInv /\ [Next]_vars => [Abstract!SingleUseNext]_(Abstract!singleUseVars)
  BY SingleUseStep
<1> QED BY <1>1, <1>2, <1>3, InvInit, SpendInvInit, PTL DEF Spec, SingleUse, Abstract!SingleUseSpec
=============================================================================
