----------------------------- MODULE SandboxRun -----------------------------
(***************************************************************************)
(* Running untrusted code: build_sandbox chooses an adapter; the adapter    *)
(* launches a bootstrap that sets isolation up, says that the candidate is  *)
(* about to start and becomes the candidate; the host waits for its end or  *)
(* for the wall clock and reads what was said; the code verifier, the SQL   *)
(* verifier and the executor draw their conclusion from that.               *)
(*                                                                         *)
(* An action is one authorization, spent through the record of Spend.tla.   *)
(* The candidate writes to the same streams as the bootstrap.               *)
(***************************************************************************)
EXTENDS Spend, FiniteSets

CONSTANTS
    Configs,   \* [name, pin, envPin, allowUnsafe, pinned]: the sandbox settings
    Kinds,     \* "code", "sql", "action": what is asked for
    MaxRuns    \* bound: runs of a sandbox

ASSUME SandboxAssumption ==
    /\ Configs \subseteq [name : {"auto", "namespace", "container", "unsafe"}, pin : BOOLEAN,
                          envPin : BOOLEAN, allowUnsafe : BOOLEAN, pinned : BOOLEAN]
    /\ Kinds \subseteq {"code", "sql", "action"}
    /\ MaxRuns \in Nat
    /\ None \notin {"code", "reference", "query", "action", "namespace", "container", "unsafe",
                    "null", "config_error", "right", "wrong", "garbled", "long", "undecodable",
                    "query_error", "setup_error", "policy_refusal", "infra_fault", "ABSTAIN",
                    "PASS", "FAIL", "sound", "executed", "refused", "raised"}

Runs == 1..MaxRuns
Adapters == {"namespace", "container", "unsafe", "null"}

VARIABLES
    config,    \* the settings the process was started with
    host,      \* the isolation this host offers now: a subset of the adapters
    probe,     \* _AVAILABLE_CACHE: "unknown", "yes" or "no"
    adapter,   \* the adapter built last, None, or "config_error"
    client,    \* [pc, kind, run]: what the host process is doing
    runs,      \* runs[r]: what was asked, the adapter, and the SandboxResult
    proc,      \* proc[r]: how far the launched process is
    said,      \* said[r]: the tokens the bootstrap has written
    ending,    \* ending[r]: how the candidate ended by itself
    entries    \* the spend record of the authorized action

vars == <<config, host, probe, adapter, client, runs, proc, said, ending, entries>>

ProcStates == {"none", "bootstrap", "announced", "running", "exited", "stopped", "dead"}

Ended(r) == proc[r] \in {"exited", "stopped", "dead"}

\* The candidate's first instruction was reached.
Ran(r) == proc[r] \in {"running", "exited", "stopped"}

---------------------------------------------------------------------------
(* The SandboxResult. *)

Blank == [started_ok |-> TRUE, candidate_started |-> FALSE, timed_out |-> FALSE,
          policy_refusal |-> FALSE, exit |-> None, memory |-> FALSE,
          truncated |-> FALSE, reply |-> None]

NotStarted(refusal) == [Blank EXCEPT !.started_ok = FALSE, !.policy_refusal = refusal]

\* results_equivalent and _equal: the answer is the expected one or is not.
Answered == {"right", "wrong"}

\* How a candidate may end by itself: its exit status, what it sent back, a
\* MemoryError on the stderr of one that answered, and a token name without the
\* nonce on the stderr of one that failed.
CodeEndings ==
    [exit : {"zero"}, reply : Answered \cup {"garbled", "long", "undecodable"},
     note : {FALSE}, forged : {FALSE}]
    \cup [exit : {"zero"}, reply : {"right"}, note : {TRUE}, forged : {FALSE}]
    \cup [exit : {"error", "killed"}, reply : {None}, note : {FALSE}, forged : BOOLEAN]

\* The file the SQL runner writes: rows, a query error, a set-up error, or none.
\* It is read whatever the exit status, so a runner may fail or be killed with its
\* file complete; one that returns has written it, and a part of it does not parse.
SqlEndings ==
    [exit : {"zero", "error", "killed"}, reply : Answered \cup {"query_error", "setup_error"},
     note : {FALSE}, forged : {FALSE}]
    \cup [exit : {"error", "killed"}, reply : {None}, note : {FALSE}, forged : {FALSE}]

\* The runner writes to a path of the host, which a container does not have.
Endings(kind, by) ==
    IF kind \in {"code", "action"} THEN CodeEndings
    ELSE {e \in SqlEndings : by = "container" => e.reply = None}

Killed == [exit |-> "killed", reply |-> None, note |-> FALSE, forged |-> FALSE]

\* Mutant: the stream is searched for the token names without their nonce.
SaysStartedUnkeyed(tokens, forged) ==
    "started" \in tokens /\ tokens \cap {"exec_failed", "setup_failed"} = {} /\ ~forged

\* pipe_candidate_started and interpret_stream: a start that was not revoked.
\* Only the bootstrap's tokens count: the candidate has neither the status pipe
\* nor the nonce, so what it forged is not among them.
SaysStarted(tokens, forged) ==
    "started" \in tokens /\ tokens \cap {"exec_failed", "setup_failed"} = {}

\* The unsafe adapter starts the candidate itself.
Started(by, tokens, forged) == by = "unsafe" \/ SaysStarted(tokens, forged)

\* The result of a process that ended within the wall clock.
Finished(by, tokens, e) ==
    LET started == Started(by, tokens, e.forged)
    IN [Blank EXCEPT
            !.started_ok = started,
            !.candidate_started = started,
            !.exit = e.exit,
            !.memory = CASE by = "namespace" -> e.exit = "killed" \/ e.note
                         [] by = "container" -> e.exit = "killed"
                         [] OTHER -> FALSE,
            !.truncated = (e.reply = "long"),
            !.reply = e.reply]

\* The result of one the wall clock cut off: isolation counts as started.
TimedOut(by, tokens) ==
    [Blank EXCEPT !.timed_out = TRUE, !.candidate_started = Started(by, tokens, FALSE)]

---------------------------------------------------------------------------
(* The conclusions. *)

CouldNotRun(res) == IF res.policy_refusal THEN "policy_refusal" ELSE "infra_fault"

\* Mutant: the fault is told from the exit status instead of the start signal.
VerifyCodeByExit(res) ==
    CASE ~res.started_ok /\ res.exit = None           -> CouldNotRun(res)
      [] res.timed_out                                -> "ABSTAIN"
      [] OTHER -> IF res.exit = "zero" /\ res.reply = "right" THEN "PASS" ELSE "FAIL"

\* SubprocessVerifier.verify, for a task with cases it can encode.
VerifyCode(res) ==
    CASE ~res.started_ok                              -> CouldNotRun(res)
      [] res.started_ok /\ ~res.candidate_started     -> "infra_fault"
      [] res.candidate_started /\ res.timed_out       -> "ABSTAIN"
      [] res.candidate_started /\ ~res.timed_out      ->
            IF res.exit = "zero" /\ ~res.memory /\ ~res.truncated /\ res.reply = "right"
            THEN "PASS" ELSE "FAIL"

\* SqlVerifier.verify up to the candidate's query: "sound" goes on.
VerifyReference(res) ==
    CASE ~res.started_ok                                  -> CouldNotRun(res)
      [] res.started_ok /\ (res.timed_out \/ res.reply = None) -> "infra_fault"
      [] res.reply \in {"query_error", "setup_error"}     -> "ABSTAIN"
      [] OTHER                                            -> "sound"

\* The rest of it: equal rows pass, other rows, an error or a crash fail.
VerifyQuery(res) ==
    CASE ~res.started_ok                              -> CouldNotRun(res)
      [] res.started_ok /\ ~res.candidate_started     -> "infra_fault"
      [] res.candidate_started /\ res.timed_out       -> "ABSTAIN"
      [] res.candidate_started /\ ~res.timed_out      ->
            CASE res.reply = "setup_error" -> "infra_fault"
              [] res.reply = "right"       -> "PASS"
              [] OTHER                     -> "FAIL"

\* Mutant: the executor goes by the wall clock instead of the start signal.
ExecuteActionByTimeout(res) ==
    IF res.started_ok /\ ~res.timed_out THEN "executed" ELSE "refused"

\* SandboxExecutor._run.
ExecuteAction(res) ==
    IF res.started_ok /\ res.candidate_started THEN "executed" ELSE "refused"

Conclusion(kind, res) ==
    CASE res.reply = "undecodable" -> "raised"   \* out of subprocess.run(text=True)
      [] res.reply # "undecodable" /\ kind = "code"      -> VerifyCode(res)
      [] res.reply # "undecodable" /\ kind = "reference" -> VerifyReference(res)
      [] res.reply # "undecodable" /\ kind = "query"     -> VerifyQuery(res)
      [] res.reply # "undecodable" /\ kind = "action"    -> ExecuteAction(res)

Conclusions == {None, "policy_refusal", "infra_fault", "ABSTAIN", "PASS", "FAIL",
                "sound", "executed", "refused", "raised"}

---------------------------------------------------------------------------
(* build_sandbox. *)

\* Mutant: the environment is not asked.
PinRequiredByConfig(c) == c.pin

\* A requirement is raised by either of its sources.
PinRequired(c) == c.pin \/ c.envPin

Works(name) == name \in host

\* The adapter build_sandbox returns, where nsWorks is what the namespace probe
\* says; "config_error" where the requirement cannot be honoured.
BuildSandbox(c, nsWorks) ==
    CASE c.name = "unsafe" ->
            IF PinRequired(c) \/ ~c.allowUnsafe THEN "config_error" ELSE "unsafe"
      [] c.name = "container" -> "container"
      [] c.name = "namespace" -> IF PinRequired(c) THEN "config_error" ELSE "namespace"
      [] c.name = "auto" ->
            CASE PinRequired(c) ->
                    IF Works("container") THEN "container" ELSE "config_error"
              [] ~PinRequired(c) /\ nsWorks -> "namespace"
              [] ~PinRequired(c) /\ ~nsWorks /\ Works("container") -> "container"
              [] OTHER -> IF c.allowUnsafe THEN "unsafe" ELSE "null"

Probes(c) == c.name = "auto" /\ ~PinRequired(c)

\* The probe runs once in a process and its answer is kept.
Probed == IF probe # "unknown" THEN probe ELSE IF Works("namespace") THEN "yes" ELSE "no"

Build ==
    /\ client.pc \in {"unbuilt", "idle"}
    /\ adapter' = BuildSandbox(config, Probed = "yes")
    /\ probe' = IF Probes(config) THEN Probed ELSE probe
    /\ client' = [client EXCEPT !.pc = IF adapter' = "config_error" THEN "unbuilt" ELSE "idle"]
    /\ UNCHANGED <<config, host, runs, proc, said, ending, entries>>

\* A daemon is stopped or started, user namespaces are switched off or on.  Only
\* build_sandbox asks, and only where the choice is left to it.
HostChanges ==
    /\ config.name = "auto" /\ client.pc \in {"unbuilt", "idle"}
    /\ host' \in SUBSET {"namespace", "container"}
    /\ host' # host
    /\ UNCHANGED <<config, probe, adapter, client, runs, proc, said, ending, entries>>

---------------------------------------------------------------------------
(* One run of the sandbox. *)

NoRun == [kind |-> None, by |-> None, result |-> Blank, verdict |-> None]

Init ==
    /\ config \in Configs
    /\ host \in SUBSET {"namespace", "container"}
    /\ config.name # "auto" => host = {}    \* nobody asks
    /\ probe = "unknown"
    /\ adapter = None
    /\ client = [pc |-> "unbuilt", run |-> 0]
    /\ runs = [r \in Runs |-> NoRun]
    /\ proc = [r \in Runs |-> "none"]
    /\ said = [r \in Runs |-> {}]
    /\ ending = [r \in Runs |-> Killed]
    /\ entries = <<>>

\* The adapter's run is called: it launches, or gives back one of the results
\* that need no process.  Unshare or a container client may be missing.
Launch(r, kind) ==
    \/ /\ adapter # "null"
       /\ ~(adapter = "container" /\ PinRequired(config) /\ ~config.pinned)
       /\ proc' = [proc EXCEPT ![r] = IF adapter = "unsafe" THEN "running" ELSE "bootstrap"]
       /\ runs' = [runs EXCEPT ![r] = [NoRun EXCEPT !.kind = kind, !.by = adapter]]
       /\ client' = [client EXCEPT !.pc = "waiting", !.run = r]
    \/ /\ adapter # "unsafe"
       /\ LET refuses == adapter = "container" /\ PinRequired(config) /\ ~config.pinned
              res     == NotStarted(refuses)
          IN runs' = [runs EXCEPT ![r] = [kind |-> kind, by |-> adapter, result |-> res,
                                          verdict |-> Conclusion(kind, res)]]
       /\ client' = [client EXCEPT !.pc = "concluded", !.run = r]
       /\ UNCHANGED proc

MayExecute == RetryVerdict(SpendState(entries), None, FALSE) = "may_execute"

\* A verifier or the controller calls for a run.  The controller claims the
\* authorization first; the executor then refuses an adapter that does not isolate.
Call(kind) ==
    /\ client.pc = "idle" /\ client.run < MaxRuns
    /\ kind \in Kinds
    /\ kind = "action" => MayExecute
    /\ entries' = IF kind = "action" THEN Append(entries, SpendEntry(None)) ELSE entries
    /\ LET r == client.run + 1
       IN IF kind = "action" /\ adapter = "unsafe"
          THEN /\ runs' = [runs EXCEPT ![r] = [kind |-> kind, by |-> adapter,
                                               result |-> Blank, verdict |-> "refused"]]
               /\ client' = [client EXCEPT !.pc = "concluded", !.run = r]
               /\ UNCHANGED proc
          ELSE Launch(r, IF kind = "sql" THEN "reference" ELSE kind)
    /\ UNCHANGED <<config, host, probe, adapter, said, ending>>

\* A task without cases is abstained from, and one whose cases are not plain data
\* is refused, without a run.
NothingToRun ==
    /\ client.pc = "idle" /\ client.run < MaxRuns
    /\ "code" \in Kinds
    /\ \E verdict \in {"ABSTAIN", "policy_refusal"} :
          runs' = [runs EXCEPT ![client.run + 1] =
                      [NoRun EXCEPT !.kind = "code", !.verdict = verdict]]
    /\ client' = [client EXCEPT !.pc = "concluded", !.run = @ + 1]
    /\ UNCHANGED <<config, host, probe, adapter, proc, said, ending, entries>>

Step(r, from, to) == proc[r] = from /\ proc' = [proc EXCEPT ![r] = to]

\* The bootstrap cannot isolate: it says so on the pipe, or, in a container
\* that was not created or got no nonce, nothing is said.
SetupFails(r) ==
    /\ Step(r, "bootstrap", "dead")
    /\ said' = IF runs[r].by = "namespace"
               THEN [said EXCEPT ![r] = @ \cup {"setup_failed"}] ELSE said
    /\ UNCHANGED <<config, host, probe, adapter, client, runs, ending, entries>>

\* Isolation stands: the token is written before the exec.
Announce(r) ==
    /\ Step(r, "bootstrap", "announced")
    /\ said' = [said EXCEPT ![r] = @ \cup {"started"}]
    /\ UNCHANGED <<config, host, probe, adapter, client, runs, ending, entries>>

Exec(r) ==
    /\ Step(r, "announced", "running")
    /\ UNCHANGED <<config, host, probe, adapter, client, runs, said, ending, entries>>

\* execv fails: the start is revoked on the same channel.
ExecFails(r) ==
    /\ Step(r, "announced", "dead")
    /\ said' = [said EXCEPT ![r] = @ \cup {"exec_failed"}]
    /\ UNCHANGED <<config, host, probe, adapter, client, runs, ending, entries>>

\* What a candidate leaves.  How one that nobody waits for any more ends is not read.
Leaves(r, endings) ==
    IF client.pc = "waiting" /\ client.run = r
    THEN \E e \in endings : ending' = [ending EXCEPT ![r] = e]
    ELSE UNCHANGED ending

\* The kernel kills the process, before or after the candidate has control: what
\* a SQL runner has written by then stays.
Die(r) ==
    /\ \/ (Step(r, "bootstrap", "dead") \/ Step(r, "announced", "dead")) /\ UNCHANGED ending
       \/ /\ Step(r, "running", "stopped")
          /\ Leaves(r, {e \in Endings(runs[r].kind, runs[r].by) : e.exit = "killed"})
    /\ UNCHANGED <<config, host, probe, adapter, client, runs, said, entries>>

\* The candidate ends.
CandidateEnds(r) ==
    /\ Step(r, "running", "exited")
    /\ Leaves(r, Endings(runs[r].kind, runs[r].by))
    /\ UNCHANGED <<config, host, probe, adapter, client, runs, said, entries>>

Conclude(r, res) ==
    /\ runs' = [runs EXCEPT ![r].result = res, ![r].verdict = Conclusion(runs[r].kind, res)]
    /\ client' = [client EXCEPT !.pc = "concluded"]

\* subprocess.run returns: everything that was said has been read.
Return(r) ==
    /\ client.pc = "waiting" /\ client.run = r
    /\ Ended(r)
    /\ Conclude(r, Finished(runs[r].by, said[r], ending[r]))
    /\ UNCHANGED <<config, host, probe, adapter, proc, said, ending, entries>>

\* The wall clock.  Killing unshare kills the tree below it (--kill-child), and
\* the pipe is read to its end; killing the container client leaves the
\* container to itself, and what it had not relayed is not read.
WallClock(r) ==
    /\ client.pc = "waiting" /\ client.run = r
    /\ \/ /\ runs[r].by = "container"
          /\ \E read \in SUBSET said[r] :
                /\ "exec_failed" \in read => "started" \in read
                /\ Conclude(r, TimedOut("container", read))
          /\ UNCHANGED proc
       \/ /\ runs[r].by # "container"
          /\ proc' = [proc EXCEPT ![r] = CASE Ended(r) -> @
                                            [] @ = "running" -> "stopped"
                                            [] OTHER -> "dead"]
          /\ Conclude(r, TimedOut(runs[r].by, said[r]))
    /\ UNCHANGED <<config, host, probe, adapter, said, ending, entries>>

---------------------------------------------------------------------------
(* What the caller does with the conclusion. *)

\* The SQL verifier goes on with the candidate's query when the reference held.
NextQuery ==
    /\ client.pc = "concluded" /\ client.run < MaxRuns
    /\ runs[client.run].verdict = "sound"
    /\ Launch(client.run + 1, "query")
    /\ UNCHANGED <<config, host, probe, adapter, said, ending, entries>>

\* Mutant: whatever came of it, the authorization is given back.
SettleReleasing(verdict) ==
    IF verdict = "executed"
    THEN entries \o <<ReleaseEntry, CompletedEntry(client.run)>> ELSE Append(entries, ReleaseEntry)

\* The controller settles the spend: a refusal gives it back, a run completes
\* it, and an exception leaves it as it is.
Settle(verdict) ==
    CASE verdict = "refused"  -> Append(entries, ReleaseEntry)
      [] verdict = "executed" -> Append(entries, CompletedEntry(client.run))
      [] verdict \notin {"refused", "executed"} -> entries

\* The caller has its answer and may call again.
Take ==
    /\ client.pc = "concluded"
    /\ runs[client.run].verdict # "sound"
    /\ client' = [client EXCEPT !.pc = "idle"]
    /\ entries' = Settle(runs[client.run].verdict)
    /\ UNCHANGED <<config, host, probe, adapter, runs, proc, said, ending>>

Process(r) ==
    SetupFails(r) \/ Announce(r) \/ Exec(r) \/ ExecFails(r) \/ Die(r) \/ CandidateEnds(r)

Next ==
    \/ Build \/ HostChanges \/ NothingToRun \/ NextQuery \/ Take
    \/ \E kind \in Kinds : Call(kind)
    \/ \E r \in Runs : Process(r) \/ Return(r) \/ WallClock(r)

Spec == Init /\ [][Next]_vars

---------------------------------------------------------------------------
(* Properties. *)

Results ==
    [started_ok : BOOLEAN, candidate_started : BOOLEAN, timed_out : BOOLEAN,
     policy_refusal : BOOLEAN, exit : {None, "zero", "error", "killed"}, memory : BOOLEAN,
     truncated : BOOLEAN,
     reply : {None, "right", "wrong", "garbled", "long", "undecodable", "query_error",
              "setup_error"}]

\* The state is well formed, and the controller never leaves a spend history
\* that the record's own transition table calls impossible.
TypeOK ==
    /\ config \in Configs /\ host \subseteq {"namespace", "container"}
    /\ probe \in {"unknown", "yes", "no"}
    /\ adapter \in Adapters \cup {None, "config_error"}
    /\ client \in [pc : {"unbuilt", "idle", "waiting", "concluded"}, run : 0..MaxRuns]
    /\ runs \in [Runs -> [kind : {None, "code", "reference", "query", "action"},
                          by : Adapters \cup {None}, result : Results,
                          verdict : Conclusions]]
    /\ proc \in [Runs -> ProcStates]
    /\ said \in [Runs -> SUBSET {"started", "exec_failed", "setup_failed"}]
    /\ ending \in [Runs -> CodeEndings \cup SqlEndings]
    /\ SpendState(entries).status \in Statuses \ {"malformed"}

\* The process got as far as the candidate and was not cut off by the wall clock.
Delivered(r) == proc[r] \in {"exited", "stopped"} /\ ~runs[r].result.timed_out

\* A PASS of code means that it ran to its own end, with exit status zero and the
\* right answer.  A PASS of a query means that its runner, however it ended, had
\* written the right rows within the wall clock, and that the run before it had
\* done the same with the rows of the reference: sql.py goes by the file and never
\* by the exit status.  A FAIL or an ABSTAIN about a candidate means that the
\* bootstrap handed over to it.  No fault of the harness becomes a verdict,
\* whenever the process dies or the clock strikes.
VerdictsAreEarned ==
    \A r \in Runs :
        /\ runs[r].verdict = "PASS" =>
              /\ Delivered(r) /\ ending[r].reply = "right"
              /\ runs[r].kind = "code" => proc[r] = "exited" /\ ending[r].exit = "zero"
              /\ runs[r].kind = "query" => /\ r - 1 \in Runs /\ runs[r - 1].kind = "reference"
                                            /\ Delivered(r - 1) /\ ending[r - 1].reply \in Answered
        /\ runs[r].verdict \in {"FAIL", "ABSTAIN"} /\ runs[r].kind # "reference" =>
              \/ runs[r].by \in {"unsafe", None}
              \/ "started" \in said[r] /\ (runs[r].by # "container" => "exec_failed" \notin said[r])

\* A candidate that ended by itself within the wall clock is judged: nothing it
\* writes or returns makes its own failure look like one of the harness.
OwnEndIsJudged ==
    \A r \in Runs :
        /\ proc[r] = "exited" /\ ~runs[r].result.timed_out
        /\ runs[r].kind \in {"code", "action"}
        => runs[r].verdict \notin {"infra_fault", "policy_refusal", "refused"}

\* Whenever a candidate has run, it ran under what the settings ask for: not
\* unisolated unless that was allowed, never so for an action, and, where a
\* digest pin is required by either source, from a pinned image.
IsolationHonoured ==
    \A r \in Runs : Ran(r) =>
        /\ runs[r].by = "unsafe" => config.allowUnsafe /\ runs[r].kind # "action"
        /\ config.pin \/ config.envPin => runs[r].by = "container" /\ config.pinned

ActionRuns == {r \in Runs : runs[r].kind = "action"}

\* The action takes effect at most once and its authorization is given back only
\* when it has not, with the adapters whose processes end with the wall clock.
Abstract == INSTANCE SingleUse WITH
    Authorizations <- {"action"},
    record  <- [a \in {"action"} |->
                   CASE SpendState(entries).status \in {"unspent", "released"} -> "open"
                     [] SpendState(entries).status = "spent" -> "claimed"
                     [] OTHER -> "done"],
    effects <- [a \in {"action"} |->
                   Cardinality({r \in ActionRuns : Ran(r) /\ runs[r].by # "container"})]

SingleUse == Abstract!SingleUseSpec

\* "the candidate never did, so nothing ran" (executor.py): an execution that was
\* refused for a candidate not known to have started has had no effect, nor has one later.
RefusedMeansNothingRan ==
    \A r \in ActionRuns : runs[r].verdict = "refused" => ~Ran(r)
=============================================================================
