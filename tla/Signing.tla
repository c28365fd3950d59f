------------------------------ MODULE Signing ------------------------------
(***************************************************************************)
(* The recorded signing authority.  Each authorize() call of               *)
(* RecordedApprovalAuthority decides, appends the decision to the          *)
(* authorization journal, anchors it, asks the external signer for one     *)
(* signature, appends the result, anchors it, and only then hands the      *)
(* approval out.                                                           *)
(*                                                                         *)
(* Every call draws a fresh id and a fresh nonce, so an approval digest is *)
(* identified with the attempt it belongs to.  The signer and its audit    *)
(* trail are the model of audit_source_model.py: the service may make a    *)
(* signature after its caller gave up or died.                             *)
(*                                                                         *)
(* Two clocks: now is the signing service's, now + drift the gate's.       *)
(***************************************************************************)
EXTENDS Integers, Sequences, FiniteSets

CONSTANTS
    Attempts,       \* authorize() calls
    Defects,        \* the first check an assessment fails, or "none"
    Stranger,       \* a digest no attempt asked for
    TTL,            \* lifetime of an approval
    SignAttempt,    \* bound on how long a Sign request can stay alive
    Skew,           \* bound on the distance between the two clocks
    MaxTime,        \* bound: the last instant modelled
    LastStart,      \* bound: the last instant an attempt may start
    LastStep,       \* bound: the last instant an attempt may be under way
    MaxForeign      \* bound: Sign calls made without the gate

ASSUME TimesAssumption ==
    /\ TTL \in Nat \ {0} /\ SignAttempt \in Nat \ {0} /\ Skew \in Nat
    /\ MaxTime \in Nat /\ LastStart \in Nat /\ LastStep \in Nat /\ MaxForeign \in Nat
    /\ Skew <= MaxTime     \* time starts at Skew, so that no reading is negative
ASSUME StrangerAssumption == Stranger \notin Attempts

VARIABLES
    now,        \* the service's clock
    drift,      \* gate clock minus service clock
    pc,         \* where each authorize() call is
    result,     \* the state its sign result will carry
    flight,     \* Sign requests that may still take effect: [of, since]
    journal,    \* the authorization journal
    anchored,   \* sequence numbers the tip anchor holds
    events      \* the service's audit trail: one record per call served

signingVars == <<now, drift, pc, result, flight, journal, anchored, events>>

PCs == {"idle", "decided", "check", "wait", "result", "resulted", "deliver",
        "delivered", "over"}

\* REASONS: what canonical_record accepts as the reason of a decision.
REASONS == {"authoritative_pass", "verdict_fail", "verifier_unavailable",
            "non_authoritative", "invalid_request", "requester_unavailable",
            "security_configuration_unavailable", "assessment_binding_mismatch"}

\* validate_sign_result: the states a result may carry.
ResultStates == {"signed", "denied", "malformed", "outcome_unknown", "unavailable"}

\* at is the issued_at of the approval; nothing reads the time of a result.
Rows == [kind : {"decision"}, of : Attempts, at : Int, reason : REASONS]
        \cup [kind : {"result"}, of : Attempts, reason : ResultStates]
        \cup [kind : {"other"}]

Digests == Attempts \cup {Stranger}
Outcomes == {"success", "denied", "unknown"}
Principals == {"runner", "other"}
Events == [id : Nat, digest : Digests, at : Nat, outcome : Outcomes,
           by : Principals, made : BOOLEAN, foreign : BOOLEAN]

gateNow == now + drift

(***************************************************************************)
(* The journal.                                                            *)
(***************************************************************************)

Authorised(row) == row.kind = "decision" /\ row.reason = "authoritative_pass"
RowsOf(a) == {n \in DOMAIN journal : journal[n].kind # "other" /\ journal[n].of = a}

\* The row an attempt has appended last.
LastRow(a) == CHOOSE n \in RowsOf(a) : \A m \in RowsOf(a) : m <= n

\* The attempt's own row; its clock reading is the approval's issued_at.
IssuedAt(a) == journal[CHOOSE n \in RowsOf(a) : journal[n].kind = "decision"].at

\* _decisions: no identity twice, no result without a decision or twice.
WellFormed(rows) ==
    \A n \in {k \in DOMAIN rows : rows[k].kind # "other"} :
        /\ \A m \in 1 .. (n - 1) :
              rows[m].kind = rows[n].kind => rows[m].of # rows[n].of
        /\ rows[n].kind = "result" =>
              \E m \in 1 .. (n - 1) : Authorised(rows[m]) /\ rows[m].of = rows[n].of

\* _append up to the commit of record_chained; BEGIN IMMEDIATE makes reading
\* the rows and adding one a single step.
AppendRow(row) == WellFormed(journal) /\ journal' = Append(journal, row)

Goto(a, label) == pc' = [pc EXCEPT ![a] = label]

\* Mutant: an anchor that cannot be written does not stop the attempt.
AnchoredBestEffort(a, next) ==
    /\ Goto(a, next)
    /\ UNCHANGED anchored \/ anchored' = anchored \cup {LastRow(a)}

\* The rest of _append: the anchor write after the commit, which fails when the
\* target is away or already holds a later tip, and the confirmation.
Anchored(a, next) ==
    \/ Goto(a, "over") /\ UNCHANGED anchored
    \/ /\ \A s \in anchored : s < LastRow(a)
       /\ anchored' = anchored \cup {LastRow(a)}
       /\ Goto(a, next)

(***************************************************************************)
(* The decision.                                                           *)
(***************************************************************************)

\* The chain of conditions in authorize() and the signer check after it: the
\* reason a defect is given.
Verdicted(d) ==
    CASE d = "none"       -> "authoritative_pass"
      [] d = "unbound"    -> "unbound_authorization"
      [] d = "binding"    -> "assessment_binding_mismatch"
      [] d = "class"      -> "wrong_action_class"
      [] d = "artifact"   -> "assessment_artifact_mismatch"
      [] d = "target"     -> "assessment_target_mismatch"
      [] d = "unavailable" -> "verifier_unavailable"
      [] d = "advisory"   -> "non_authoritative"
      [] d = "fail"       -> "verdict_fail"
      [] d = "requester"  -> "requester_unavailable"
      [] d = "signer"     -> "security_configuration_unavailable"
      [] OTHER            -> "invalid_request"

\* Mutant: the reason is recorded as it is.
RecordReasonVerbatim(r) == r

\* AuthorizationRecord.create: a reason canonical_record does not know raises,
\* and the bounded refusal is recorded instead.
RecordReason(r) == IF r \in REASONS THEN r ELSE "invalid_request"

SigningInit ==
    /\ now = Skew
    /\ drift \in -Skew .. Skew
    /\ pc = [a \in Attempts |-> "idle"]
    /\ result = [a \in Attempts |-> "unavailable"]
    /\ flight = {}
    /\ journal = <<[kind |-> "other"]>>     \* the ledger's earlier use
    /\ anchored = {1}
    /\ events = {}

\* record_decision: an identity that is recorded is never recorded again.
Decide(a) ==
    /\ pc[a] = "idle"
    /\ now <= LastStart
    /\ RowsOf(a) = {}
    /\ \E d \in Defects :
          AppendRow([kind |-> "decision", of |-> a, at |-> gateNow,
                     reason |-> RecordReason(Verdicted(d))])
    /\ Goto(a, "decided")
    /\ UNCHANGED <<now, drift, result, flight, anchored, events>>

\* The end of record_decision, and the return of None for a refusal.
AnchorDecision(a) ==
    /\ pc[a] = "decided"
    /\ Anchored(a, IF Authorised(journal[LastRow(a)]) THEN "check" ELSE "over")
    /\ UNCHANGED <<now, drift, result, flight, journal, events>>

\* The approval of an attempt, of which only the interval matters here.
Approval(a) == [issued_at |-> IssuedAt(a), expires_at |-> IssuedAt(a) + TTL]

WithinInterval(a) == Approval(a).issued_at <= gateNow /\ gateNow < Approval(a).expires_at

\* The checks between the receipt and the Sign call.  A signer with a public key
\* only refuses without a call, like a check that fails.
CheckThenCall(a) ==
    /\ pc[a] = "check"
    /\ \/ /\ WithinInterval(a)
          /\ flight' = flight \cup {[of |-> a, since |-> now]}
          /\ Goto(a, "wait")
       \/ Goto(a, "result") /\ UNCHANGED flight
    /\ UNCHANGED <<now, drift, result, journal, anchored, events>>

(***************************************************************************)
(* The signing service.                                                    *)
(***************************************************************************)

\* The normalized outcome: code 0, or no error code, is a success, 7, or one of
\* the AccessDenied codes, a denial, anything else unknown.
EventOutcome(code) ==
    IF code = 0 THEN "success" ELSE IF code = 7 THEN "denied" ELSE "unknown"

\* _Medium.sign, for a caller that holds the Sign permission at this moment or
\* not: the event is written either way, with the service's own time.  The log
\* entry of a signature may lack its status.
Serve(d, by, foreign, made) ==
    \E code \in IF made THEN {0, 16} ELSE {7} :
        events' = events \cup
            {[id |-> Cardinality(events) + 1, digest |-> d, at |-> now,
              outcome |-> EventOutcome(code), by |-> by, made |-> made,
              foreign |-> foreign]}

\* An administrator grants and revokes the Sign permission when they like.
CanSign == BOOLEAN

\* The request of an attempt takes effect, whether or not the attempt still
\* waits for it; Tick bounds its life.
ServeSign(f) ==
    /\ \E made \in CanSign : Serve(f.of, "runner", FALSE, made)
    /\ flight' = flight \ {f}
    /\ UNCHANGED <<now, drift, pc, result, journal, anchored>>

ForeignEvents == {e \in events : e.foreign}

\* A signature that no authorize() asked for.
ForeignSign ==
    /\ Cardinality(ForeignEvents) < MaxForeign
    /\ now <= LastStep + 1
    /\ \E d \in Digests, by \in Principals : Serve(d, by, TRUE, TRUE)
    /\ UNCHANGED <<now, drift, pc, result, flight, journal, anchored>>

Served(a) == {e \in events : e.digest = a /\ ~e.foreign}

(***************************************************************************)
(* The answer, as the gate sees it.                                        *)
(***************************************************************************)

\* What the call may come back with: the answer of the service, a signature or
\* bytes that are none, or an error that says nothing of what the service did.
Answers(a) ==
    {"timeout", "unreachable", "failed"}
    \cup UNION {IF e.made THEN {"signature", "garbage"} ELSE {"access_denied"} : e \in Served(a)}

\* _EcdsaP256Verifier.verify, under the key the signer was made with.
Verifies(answer) == answer = "signature"

\* The kind of the SignerUnavailable that KmsSigner.sign raises.
SignerKind(answer) ==
    CASE answer = "access_denied" -> "denied"
      [] answer = "garbage"       -> "malformed"
      [] answer = "failed"        -> "unavailable"
      [] OTHER                    -> answer

\* The state table in authorize().
ClientState(answer) ==
    CASE Verifies(answer) -> "signed"
      [] SignerKind(answer) \in {"denied", "malformed"} -> SignerKind(answer)
      [] OTHER -> "outcome_unknown"

SignReturns(a) ==
    /\ pc[a] = "wait"
    /\ \E answer \in Answers(a) : result' = [result EXCEPT ![a] = ClientState(answer)]
    /\ Goto(a, "result")
    /\ UNCHANGED <<now, drift, flight, journal, anchored, events>>

\* record_sign_result: one result for a recorded, authorised decision.
RecordResult(a) ==
    /\ pc[a] = "result"
    /\ \E n \in RowsOf(a) : Authorised(journal[n])
    /\ \A n \in RowsOf(a) : journal[n].kind # "result"
    /\ AppendRow([kind |-> "result", of |-> a, reason |-> result[a]])
    /\ Goto(a, "resulted")
    /\ UNCHANGED <<now, drift, result, flight, anchored, events>>

\* _result returns, and authorize() raises unless the signature is in hand.
AnchorResult(a) ==
    /\ pc[a] = "resulted"
    /\ Anchored(a, IF result[a] = "signed" THEN "deliver" ELSE "over")
    /\ result' = [result EXCEPT ![a] = "unavailable"]
    /\ UNCHANGED <<now, drift, flight, journal, events>>

\* The last two checks, then the approval leaves the authority.
HandOut(a) ==
    /\ pc[a] = "deliver"
    /\ WithinInterval(a)
    /\ Goto(a, "delivered")
    /\ UNCHANGED <<now, drift, result, flight, journal, anchored, events>>

\* authorize() ends without an approval: the session of the journal cannot be
\* opened, the signer's identity changed, the interval has elapsed, or the
\* gate's process dies.  No entry point takes an attempt up again.
GiveUp(a) ==
    /\ pc[a] \notin {"delivered", "over"}
    /\ Goto(a, "over")
    /\ result' = [result EXCEPT ![a] = "unavailable"]
    /\ UNCHANGED <<now, drift, flight, journal, anchored, events>>

\* A Sign request lives for less than SignAttempt.
Tick ==
    /\ now < MaxTime
    /\ now >= LastStep => \A a \in Attempts : pc[a] \in {"idle", "delivered", "over"}
    /\ now' = now + 1
    /\ flight' = {f \in flight : now + 1 < f.since + SignAttempt}
    /\ UNCHANGED <<drift, pc, result, journal, anchored, events>>

Attempt(a) ==
    \/ Decide(a) \/ AnchorDecision(a) \/ CheckThenCall(a) \/ SignReturns(a)
    \/ RecordResult(a) \/ AnchorResult(a) \/ HandOut(a) \/ GiveUp(a)

SigningNext ==
    \/ \E a \in Attempts : Attempt(a)
    \/ \E f \in flight : ServeSign(f)
    \/ ForeignSign
    \/ Tick

=============================================================================
