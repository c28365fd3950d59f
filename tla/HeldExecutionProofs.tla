------------------------- MODULE HeldExecutionProofs -------------------------
(***************************************************************************)
(* Proofs about HeldExecution, for every set of drivers, holds and keys and *)
(* every bound: types, the single use of an authorization, the truth of its *)
(* spend state, the approval behind every run, the finality of decisions,   *)
(* the refinement of SingleUse, and what a claim that stays means.          *)
(***************************************************************************)
EXTENDS HeldExecution, SpendProofs, FiniteSetTheorems, TLAPS

-----------------------------------------------------------------------------
(* The locals of a call.                                                    *)

\* Phases of a call about a hold, and phases of a call with an authorization.
HoldPhases == {"create", "bind", "review", "lapse", "void", "compare", "resolve", "pinned",
               "recheck", "claim", "observe", "moved", "unclaim"}
KeyPhases  == {"settle", "spend", "spent", "run", "row", "receipt", "release", "retract", "complete"}

\* What the locals of a call look like, by its phase p: the verb v, the hold a,
\* the key k, the decision c to be chained and where the call goes on, t, and what
\* its attempt has come to, g.
ShapeOf(p, v, a, k, c, t, g) ==
    /\ a # None => k = KeyOf[a]
    /\ p = "idle" => a = None /\ k = None
    /\ p \in HoldPhases \/ v = "approve" => a \in Holds
    /\ p \in KeyPhases => k \in Keys
    /\ p \in {"settle", "spend", "spent", "run", "complete", "release", "retract"} /\ a = None =>
          k \in AutoKeys
    /\ p \in {"row", "receipt"} /\ a = None => g = "turned_away" \/ k \in AutoKeys
    /\ p \in {"chain", "visited"} => c \in Holds
    /\ p = "chain" => \/ t \in {"idle", "visited"} /\ g = "none"
                      \/ t = "pinned" /\ a \in Holds /\ g = "none"
                      \/ t = "row" /\ a \in Holds /\ g = "moved"
    /\ p \in {"row", "receipt"} => g # "none" /\ (g \in {"moved", "unread"} => a \in Holds)
    /\ p = "complete" => g = "ran"
    /\ p \in {"release", "retract"} => g = "refused"
    /\ p = "unclaim" => g \in {"refused", "unread"}
    /\ p \notin {"chain", "row", "receipt", "complete", "release", "retract", "unclaim"} => g = "none"

Shape(d) == ShapeOf(pc[d], verb[d], at[d], key[d], cur[d], then[d], got[d])

CallShape == \A d \in Drivers : Shape(d)

-----------------------------------------------------------------------------
(* Invariants.                                                              *)

\* A call that holds the mutex row of its key, and one whose spend entry is on
\* the chain and not settled yet.
Holding(p, g) == p \in {"spent", "run", "complete", "release"}
                 \/ (p \in {"row", "receipt"} /\ g \in {"ran", "refused"})
Chained(p, g) == p \in {"run", "complete", "release", "retract"}
                 \/ (p \in {"row", "receipt"} /\ g \in {"ran", "refused"})

\* The primary key of spent_authorizations: one holder for each key, and a key
\* that was used is never free again.
MutexInv ==
    /\ \A d \in Drivers : Holding(pc[d], got[d]) => key[d] \in mutex
    /\ \A d, e \in Drivers :
          Holding(pc[d], got[d]) /\ Holding(pc[e], got[e]) /\ key[d] = key[e] => d = e
    /\ \A k \in Keys : runs[k] \in {0, 1} /\ (runs[k] = 1 => k \in mutex)
    /\ \A d \in Drivers : Holding(pc[d], got[d]) => runs[key[d]] = IF got[d] = "ran" THEN 1 ELSE 0

\* The execution row a call has written.
OwnRow ==
    \A d \in Drivers : pc[d] \in {"receipt", "complete"} =>
        /\ own[d] \in DOMAIN rows
        /\ rows[own[d]].key = key[d]
        /\ got[d] = "ran" => rows[own[d]].executed
        /\ pc[d] = "complete" => rows[own[d]].receipt

St(k) == SpendState(spends[k]).status

\* What the chain says of a key, and who may still add to it.  Two calls with an
\* unsettled spend entry make a history that does not fold, and it never folds
\* again; that is what keeps a late retraction from freeing a key that was used.
ChainInv ==
    /\ \A d \in Drivers : Chained(pc[d], got[d]) => St(key[d]) \in {"spent", "malformed"}
    /\ \A d, e \in Drivers :
          /\ Chained(pc[d], got[d]) /\ Chained(pc[e], got[e])
          /\ key[d] = key[e] /\ d # e
          => St(key[d]) = "malformed"
    /\ \A k \in Keys : runs[k] = 1 => St(k) \in {"spent", "completed", "malformed"}
    /\ \A d \in Drivers : pc[d] = "retract" /\ runs[key[d]] = 1 => St(key[d]) = "malformed"
    /\ \A k \in Keys : St(k) = "completed" =>
          LET n == SpendState(spends[k]).row
          IN  /\ runs[k] = 1
              /\ n \in DOMAIN rows
              /\ rows[n].key = k /\ rows[n].executed /\ rows[n].receipt

\* A call that has the claim of its hold; one that is past the approval of it;
\* and one that has seen the approval on the chain and not refused it.
Claiming(p, t, g) ==
    \/ p \in {"observe", "moved", "spend", "spent", "run", "complete", "release", "retract", "unclaim"}
    \/ p \in {"row", "receipt"} /\ g \in {"ran", "refused", "moved", "unread"}
    \/ p = "chain" /\ t = "row"
PastApproval(p, t, g) ==
    \/ p \in {"pinned", "settle", "claim"}
    \/ p = "chain" /\ t = "pinned"
    \/ Claiming(p, t, g)
Going(p, g) == p \in {"spend", "spent"} \/ Chained(p, g)

\* A hold is created once, by the call that captured its target, and a call that
\* is about to chain a decision has made one.
CreateInv ==
    \A d \in Drivers :
        /\ pc[d] = "create" => /\ status[at[d]] = "none"
                               /\ \A e \in Drivers : at[e] = at[d] => e = d
        /\ pc[d] = "chain" => status[cur[d]] \in Decisions

\* A call on the way to an execution has claimed its hold, alone.
Claims ==
    /\ \A d \in Drivers : at[d] # None /\ Claiming(pc[d], then[d], got[d]) => at[d] \in claim
    /\ \A d, e \in Drivers :
          /\ Claiming(pc[d], then[d], got[d]) /\ Claiming(pc[e], then[e], got[e])
          /\ at[d] # None /\ at[d] = at[e]
          => d = e

\* A hold is approved while a call acts on its approval; once its target has
\* moved its claim is kept and no call but the one that found out goes on.
Approvals ==
    /\ \A d \in Drivers : at[d] # None /\ PastApproval(pc[d], then[d], got[d]) =>
          status[at[d]] \in {"approved", "state_moved"}
    /\ \A h \in Holds : status[h] = "state_moved" =>
          /\ h \in claim
          /\ \A d \in Drivers : at[d] = h /\ Claiming(pc[d], then[d], got[d]) => got[d] = "moved"

\* The approval is on the chain before the execution, and the claim of an executed
\* hold is never given back.
Executions ==
    /\ \A d \in Drivers : at[d] # None /\ Going(pc[d], got[d]) =>
          at[d] \in held /\ decided[at[d]] = "approved"
    /\ \A h \in Holds : ExecutedUnder(h) =>
          /\ h \in claim /\ h \in held /\ status[h] = "approved" /\ decided[h] = "approved"
          /\ \A d \in Drivers : at[d] = h /\ Claiming(pc[d], then[d], got[d]) =>
                pc[d] \in {"receipt", "complete"} /\ got[d] = "ran"


-----------------------------------------------------------------------------
(* What a step does to the locals of the calls.                             *)

CallTypes ==
    /\ pc \in [Drivers -> Phases]
    /\ verb \in [Drivers -> {"none", "submit", "approve", "reject", "retry", "sweep", "rotate"}]
    /\ at \in [Drivers -> Holds \cup {None}]
    /\ key \in [Drivers -> Keys \cup {None}]
    /\ idem \in [Drivers -> IdemKeys]
    /\ list \in [Drivers -> SUBSET Holds]
    /\ cur \in [Drivers -> Holds \cup {None}]
    /\ then \in [Drivers -> Phases]
    /\ got \in [Drivers -> Results]
    /\ own \in [Drivers -> Nat]

\* The other calls keep their locals.
Others(d) ==
    \A e \in Drivers : e # d =>
        /\ pc'[e] = pc[e] /\ verb'[e] = verb[e] /\ at'[e] = at[e] /\ key'[e] = key[e]
        /\ idem'[e] = idem[e] /\ list'[e] = list[e] /\ cur'[e] = cur[e]
        /\ then'[e] = then[e] /\ got'[e] = got[e] /\ own'[e] = own[e]

\* Where the call d goes, and that it stays about the same hold and key.
Same(d) ==
    /\ verb'[d] = verb[d] /\ at'[d] = at[d] /\ key'[d] = key[d] /\ idem'[d] = idem[d]

\* A call that ends has no locals.
LEMMA ReturnLocals ==
    ASSUME CallTypes, NEW d \in Drivers, Return(d)
    PROVE  /\ CallTypes' /\ Others(d) /\ Shape(d)'
           /\ pc'[d] = "idle" /\ at'[d] = None /\ key'[d] = None /\ got'[d] = "none"
           /\ then'[d] = "idle"
<1>1. CallTypes'
  BY HeldAssumption DEF CallTypes, Return, Goto, Phases, Results
<1>2. Others(d)
  BY DEF CallTypes, Return, Goto, Others
<1>3. /\ pc'[d] = "idle" /\ verb'[d] = "none" /\ at'[d] = None /\ key'[d] = None
      /\ got'[d] = "none" /\ then'[d] = "idle"
  BY DEF CallTypes, Return, Goto
<1>4. Shape(d)'
  BY <1>3 DEF Shape, ShapeOf, HoldPhases, KeyPhases
<1> QED BY <1>1, <1>2, <1>3, <1>4

\* A call that goes on to another phase keeps its locals.
LEMMA GotoLocals ==
    ASSUME CallTypes, NEW d \in Drivers, NEW p \in Phases, Goto(d, p), UNCHANGED localVars
    PROVE  /\ CallTypes' /\ Others(d) /\ Same(d)
           /\ pc'[d] = p /\ cur'[d] = cur[d] /\ then'[d] = then[d] /\ got'[d] = got[d]
           /\ own'[d] = own[d]
BY DEF CallTypes, Goto, localVars, Others, Same

\* A call that has written a decision chains it next.
LEMMA DecideLocals ==
    ASSUME CallTypes, NEW d \in Drivers, NEW h \in Holds, NEW st, NEW cont \in Phases,
           Decide(d, h, st, cont), UNCHANGED <<verb, at, key, idem, own>>,
           list' \in [Drivers -> SUBSET Holds],
           \A e \in Drivers : e # d => list'[e] = list[e],
           got' \in [Drivers -> Results],
           \A e \in Drivers : e # d => got'[e] = got[e]
    PROVE  /\ CallTypes' /\ Others(d) /\ Same(d)
           /\ pc'[d] = "chain" /\ cur'[d] = h /\ then'[d] = cont /\ own'[d] = own[d]
BY DEF CallTypes, Decide, Goto, Others, Same, Phases

\* An attempt that ends with a row goes on to write it.
LEMMA EndsLocals ==
    ASSUME CallTypes, NEW d \in Drivers, NEW result \in Results, Ends(d, result),
           UNCHANGED <<verb, at, key, idem, list, cur, then, own>>
    PROVE  /\ CallTypes' /\ Others(d) /\ Same(d)
           /\ pc'[d] = "row" /\ got'[d] = result /\ cur'[d] = cur[d] /\ then'[d] = then[d]
           /\ own'[d] = own[d]
BY DEF CallTypes, Ends, Goto, Others, Same, Phases

\* A call that begins.
LEMMA CallLocals ==
    ASSUME CallTypes, NEW d \in Drivers,
           NEW v \in {"submit", "approve", "reject", "retry", "sweep", "rotate"},
           NEW h \in Holds \cup {None}, NEW k \in Keys \cup {None}, NEW i \in IdemKeys,
           NEW p \in Phases, Call(d, v, h, k, i, p),
           got' \in [Drivers -> Results],
           \A e \in Drivers : e # d => got'[e] = got[e]
    PROVE  /\ CallTypes' /\ Others(d)
           /\ pc'[d] = p /\ verb'[d] = v /\ at'[d] = h /\ key'[d] = k
           /\ cur'[d] = cur[d] /\ then'[d] = then[d]
BY DEF CallTypes, Call, Goto, Others

\* A call that begins has no result yet.
LEMMA FreshLocals ==
    ASSUME CallTypes, NEW d \in Drivers, Shape(d),
           NEW v \in {"submit", "approve", "reject", "retry", "sweep", "rotate"},
           NEW h \in Holds \cup {None}, NEW k \in Keys \cup {None}, NEW i \in IdemKeys,
           NEW p \in Phases, Call(d, v, h, k, i, p), got' = got
    PROVE  /\ CallTypes' /\ Others(d)
           /\ pc'[d] = p /\ verb'[d] = v /\ at'[d] = h /\ key'[d] = k /\ got'[d] = "none"
<1>1. got[d] = "none"
  BY DEF Call, Shape, ShapeOf
<1>2. got' \in [Drivers -> Results] /\ \A e \in Drivers : e # d => got'[e] = got[e]
  BY DEF CallTypes
<1>3. /\ CallTypes' /\ Others(d)
      /\ pc'[d] = p /\ verb'[d] = v /\ at'[d] = h /\ key'[d] = k
  BY <1>2, CallLocals
<1> QED BY <1>1, <1>3

-----------------------------------------------------------------------------
(* What a step does, in terms of the call that takes it.                    *)

\* The call ends; or it goes on in phase p, to go on in t later, with result g.
Ended(d) ==
    /\ Others(d)
    /\ pc'[d] = "idle" /\ at'[d] = None /\ key'[d] = None /\ got'[d] = "none" /\ then'[d] = "idle"
Goes(d, p, t, g) ==
    /\ Others(d) /\ Same(d)
    /\ pc'[d] = p /\ then'[d] = t /\ got'[d] = g

\* What the properties are about, in the rows of the holds and in the chain.
holdCore == <<status, claim, held, decided>>

\* A call begins, about nothing, about an existing hold or about a new one.
Begins(d) ==
    /\ UNCHANGED <<holdCore, spendVars>> /\ Others(d)
    /\ ~ Holding(pc'[d], got'[d]) /\ ~ Chained(pc'[d], got'[d]) /\ pc'[d] \notin {"receipt", "complete"}
    /\ pc'[d] # "chain"
    /\ at'[d] = None => pc'[d] # "create"
    /\ at'[d] # None =>
          /\ at'[d] \in Holds
          /\ ~ PastApproval(pc'[d], then'[d], got'[d])
          /\ ~ Going(pc'[d], got'[d])
          /\ \/ pc'[d] # "create" /\ status[at'[d]] # "none"
             \/ status[at'[d]] = "none" /\ \A e \in Drivers : at[e] # at'[d]

\* A step on the way, which writes nothing that the properties are about.
Walks(d) ==
    /\ UNCHANGED <<holdCore, spendVars>>
    /\ \/ Ended(d)
       \/ /\ Others(d) /\ Same(d) /\ pc'[d] \notin {"create", "chain"}
          /\ ~ Holding(pc'[d], got'[d]) /\ ~ Chained(pc'[d], got'[d]) /\ pc'[d] \notin {"receipt", "complete"}
          /\ at[d] # None => /\ ~ Claiming(pc'[d], then'[d], got'[d])
                             /\ ~ Going(pc'[d], got'[d])
                             /\ PastApproval(pc'[d], then'[d], got'[d]) =>
                                    \/ PastApproval(pc[d], then[d], got[d])
                                    \/ status[at[d]] = "approved"

Creates(d) ==
    /\ pc[d] = "create" /\ Goes(d, "bind", then[d], "none")
    /\ status' = [status EXCEPT ![at[d]] = "pending"]
    /\ UNCHANGED <<claim, held, decided, spendVars>>

Binds(d) ==
    /\ pc[d] = "bind" /\ Ended(d)
    /\ held' = held \cup {at[d]}
    /\ UNCHANGED <<status, claim, decided, spendVars>>

\* A pending hold is decided.
Decides(d) ==
    \E h \in Holds, st \in {"approved", "rejected", "expired", "invalidated"} :
        /\ status[h] = "pending" /\ status' = [status EXCEPT ![h] = st] /\ cur'[d] = h
        /\ \/ Goes(d, "chain", "visited", "none") \/ Goes(d, "chain", "idle", "none")
           \/ Goes(d, "chain", "pinned", "none") /\ st = "approved" /\ h = at[d]
        /\ UNCHANGED <<claim, held, decided, spendVars>>

ChainsDecision(d) ==
    /\ pc[d] = "chain" /\ cur[d] \in Holds
    /\ decided' = [decided EXCEPT ![cur[d]] = status[cur[d]]]
    /\ \/ Ended(d)
       \/ Goes(d, then[d], then[d], got[d]) /\ then[d] \in {"visited", "pinned", "row"}
    /\ UNCHANGED <<status, claim, held, spendVars>>

TakesHold(d) ==
    /\ pc[d] = "claim" /\ at[d] \notin claim
    /\ claim' = claim \cup {at[d]}
    /\ Goes(d, "observe", then[d], "none")
    /\ UNCHANGED <<status, held, decided, spendVars>>

\* The hold as observed is on the chain when the call goes on to its execution.
Observes(d) ==
    /\ pc[d] = "observe"
    /\ \/ Goes(d, "spend", then[d], "none") /\ Readable(at[d])
       \/ Goes(d, "moved", then[d], "none") \/ Goes(d, "row", then[d], "unread")
    /\ UNCHANGED <<holdCore, spendVars>>

Marks(d) ==
    /\ pc[d] = "moved"
    /\ \/ /\ status[at[d]] = "approved"
          /\ status' = [status EXCEPT ![at[d]] = "state_moved"]
          /\ Goes(d, "chain", "row", "moved") /\ cur'[d] = at[d]
       \/ status[at[d]] # "approved" /\ status' = status /\ Goes(d, "row", then[d], "moved")
    /\ UNCHANGED <<claim, held, decided, spendVars>>

TakesKey(d) ==
    /\ pc[d] = "spend" /\ key[d] \notin mutex
    /\ mutex' = mutex \cup {key[d]}
    /\ Goes(d, "spent", then[d], "none")
    /\ UNCHANGED <<holdCore, spends, rows, runs>>

Spends(d) ==
    /\ pc[d] = "spent"
    /\ AppendSpend(key[d], SpendEntry(idem[d]))
    /\ Goes(d, "run", then[d], "none")
    /\ UNCHANGED <<holdCore, mutex, rows, runs>>

RunsIt(d) ==
    /\ pc[d] = "run"
    /\ \/ Goes(d, "row", then[d], "ran") /\ runs' = [runs EXCEPT ![key[d]] = @ + 1]
       \/ Goes(d, "row", then[d], "refused") /\ runs' = runs
    /\ UNCHANGED <<holdCore, mutex, spends, rows>>

WritesRow(d) ==
    /\ pc[d] = "row"
    /\ rows' = Append(rows, [hold |-> at[d], key |-> key[d],
                             executed |-> got[d] = "ran", receipt |-> FALSE])
    /\ own'[d] = Len(rows) + 1
    /\ Goes(d, "receipt", then[d], got[d])
    /\ UNCHANGED <<holdCore, mutex, spends, runs>>

Receipts(d) ==
    /\ pc[d] = "receipt"
    /\ rows' = [rows EXCEPT ![own[d]].receipt = TRUE]
    /\ own'[d] = own[d] \/ Ended(d)
    /\ \/ Ended(d) /\ got[d] \in {"turned_away", "moved"}
       \/ Goes(d, "complete", then[d], "ran") /\ got[d] = "ran"
       \/ Goes(d, "release", then[d], "refused") /\ got[d] = "refused"
       \/ Goes(d, "unclaim", then[d], "unread") /\ got[d] = "unread"
    /\ UNCHANGED <<holdCore, mutex, spends, runs>>

Completes(d) ==
    /\ pc[d] = "complete" /\ Ended(d)
    /\ AppendSpend(key[d], CompletedEntry(own[d]))
    /\ UNCHANGED <<holdCore, mutex, rows, runs>>

FreesKey(d) ==
    /\ pc[d] = "release"
    /\ mutex' = mutex \ {key[d]}
    /\ Goes(d, "retract", then[d], "refused")
    /\ UNCHANGED <<holdCore, spends, rows, runs>>

Retracts(d) ==
    /\ pc[d] = "retract"
    /\ AppendSpend(key[d], ReleaseEntry)
    /\ Ended(d) \/ Goes(d, "unclaim", then[d], "refused")
    /\ UNCHANGED <<holdCore, mutex, rows, runs>>

FreesHold(d) ==
    /\ pc[d] = "unclaim" /\ Ended(d)
    /\ claim' = claim \ {at[d]}
    /\ UNCHANGED <<status, held, decided, spendVars>>

Effect(d) ==
    \/ Begins(d) \/ Walks(d) \/ Creates(d) \/ Binds(d) \/ Decides(d) \/ ChainsDecision(d)
    \/ TakesHold(d) \/ Observes(d) \/ Marks(d) \/ TakesKey(d) \/ Spends(d) \/ RunsIt(d)
    \/ WritesRow(d) \/ Receipts(d) \/ Completes(d) \/ FreesKey(d) \/ Retracts(d) \/ FreesHold(d)

\* The calls a driver may begin.
Calls(d) ==
    \/ \E h \in Holds : \/ SubmitRouted(d, h) \/ Approve(d, h)
                        \/ Reject(d, h) \/ RetryExecution(d, h)
    \/ \E k \in Keys : SubmitBlocked(d, k)
    \/ \E k \in AutoKeys, i \in IdemKeys : SubmitApproved(d, k, i)
    \/ Sweep(d) \/ InvalidateSuperseded(d)

\* Every call begins with well-shaped locals.
LEMMA CallsEffect ==
    ASSUME TypeOK, CallShape, NEW d \in Drivers, Calls(d)
    PROVE  CallTypes' /\ Shape(d)' /\ Begins(d)
<1>0. CallTypes
  BY DEF TypeOK, CallTypes
<1>1. Shape(d) /\ \A h \in Holds : h # None /\ KeyOf[h] \in Keys
  BY HeldAssumption DEF CallShape
<1>2. None \in IdemKeys /\ AutoKeys \subseteq Keys
  BY HeldAssumption
<1>3. ASSUME NEW h \in Holds, SubmitRouted(d, h) PROVE CallTypes' /\ Shape(d)' /\ Begins(d)
  <2>1. Call(d, "submit", h, KeyOf[h], None, "create") /\ got' = got
    BY <1>3 DEF SubmitRouted
  <2>3. /\ CallTypes' /\ Others(d) /\ pc'[d] = "create" /\ verb'[d] = "submit"
        /\ at'[d] = h /\ key'[d] = KeyOf[h] /\ got'[d] = "none"
    BY <1>0, <1>1, <1>2, <2>1, FreshLocals DEF Phases
  <2>4. Shape(d)'
    BY <1>1, <2>3 DEF Shape, ShapeOf, HoldPhases, KeyPhases
  <2>5. UNCHANGED <<holdCore, spendVars>> /\ status[h] = "none" /\ \A e \in Drivers : at[e] # h
    BY <1>3 DEF SubmitRouted, holdCore, holdVars
  <2> QED BY <1>1, <2>3, <2>4, <2>5 DEF Begins, Holding, Chained, Claiming, PastApproval, Going
<1>4. ASSUME NEW h \in Holds, Approve(d, h) PROVE CallTypes' /\ Shape(d)' /\ Begins(d)
  <2>1. Call(d, "approve", h, KeyOf[h], None, "scan") /\ got' = got
    BY <1>4 DEF Approve
  <2>3. /\ CallTypes' /\ Others(d) /\ pc'[d] = "scan" /\ verb'[d] = "approve"
        /\ at'[d] = h /\ key'[d] = KeyOf[h] /\ got'[d] = "none"
    BY <1>0, <1>1, <1>2, <2>1, FreshLocals DEF Phases
  <2>4. Shape(d)'
    BY <1>1, <2>3 DEF Shape, ShapeOf, HoldPhases, KeyPhases
  <2>5. UNCHANGED <<holdCore, spendVars>> /\ status[h] # "none"
    BY <1>4 DEF Approve, holdCore, holdVars
  <2> QED BY <1>1, <2>3, <2>4, <2>5 DEF Begins, Holding, Chained, Claiming, PastApproval, Going
<1>5. ASSUME NEW h \in Holds, Reject(d, h) PROVE CallTypes' /\ Shape(d)' /\ Begins(d)
  <2>1. Call(d, "reject", h, KeyOf[h], None, "review") /\ got' = got
    BY <1>5 DEF Reject
  <2>3. /\ CallTypes' /\ Others(d) /\ pc'[d] = "review" /\ verb'[d] = "reject"
        /\ at'[d] = h /\ key'[d] = KeyOf[h] /\ got'[d] = "none"
    BY <1>0, <1>1, <1>2, <2>1, FreshLocals DEF Phases
  <2>4. Shape(d)'
    BY <1>1, <2>3 DEF Shape, ShapeOf, HoldPhases, KeyPhases
  <2>5. UNCHANGED <<holdCore, spendVars>> /\ status[h] # "none"
    BY <1>5 DEF Reject, holdCore, holdVars
  <2> QED BY <1>1, <2>3, <2>4, <2>5 DEF Begins, Holding, Chained, Claiming, PastApproval, Going
<1>6. ASSUME NEW h \in Holds, RetryExecution(d, h) PROVE CallTypes' /\ Shape(d)' /\ Begins(d)
  <2>1. Call(d, "retry", h, KeyOf[h], None, "recheck") /\ got' = got
    BY <1>6 DEF RetryExecution
  <2>3. /\ CallTypes' /\ Others(d) /\ pc'[d] = "recheck" /\ verb'[d] = "retry"
        /\ at'[d] = h /\ key'[d] = KeyOf[h] /\ got'[d] = "none"
    BY <1>0, <1>1, <1>2, <2>1, FreshLocals DEF Phases
  <2>4. Shape(d)'
    BY <1>1, <2>3 DEF Shape, ShapeOf, HoldPhases, KeyPhases
  <2>5. UNCHANGED <<holdCore, spendVars>> /\ status[h] # "none"
    BY <1>6 DEF RetryExecution, holdCore, holdVars
  <2> QED BY <1>1, <2>3, <2>4, <2>5 DEF Begins, Holding, Chained, Claiming, PastApproval, Going
<1>7. ASSUME NEW k \in Keys, SubmitBlocked(d, k) PROVE CallTypes' /\ Shape(d)' /\ Begins(d)
  <2>1. Call(d, "submit", None, k, None, "row") /\ got' = [got EXCEPT ![d] = "turned_away"]
    BY <1>7 DEF SubmitBlocked
  <2>2. got' \in [Drivers -> Results] /\ got'[d] = "turned_away"
        /\ \A e \in Drivers : e # d => got'[e] = got[e]
    BY <1>0, <2>1 DEF CallTypes, Results
  <2>3. /\ CallTypes' /\ Others(d) /\ pc'[d] = "row" /\ verb'[d] = "submit"
        /\ at'[d] = None /\ key'[d] = k
    BY <1>0, <1>2, <2>1, <2>2, CallLocals DEF Phases
  <2>4. Shape(d)'
    BY <2>2, <2>3 DEF Shape, ShapeOf, HoldPhases, KeyPhases
  <2>5. UNCHANGED <<holdCore, spendVars>>
    BY <1>7 DEF SubmitBlocked, holdCore, holdVars
  <2> QED BY <2>2, <2>3, <2>4, <2>5 DEF Begins, Holding, Chained, Claiming, PastApproval, Going
<1>8. ASSUME NEW k \in AutoKeys, NEW i \in IdemKeys, SubmitApproved(d, k, i)
      PROVE  CallTypes' /\ Shape(d)' /\ Begins(d)
  <2>1. Call(d, "submit", None, k, i, "settle") /\ got' = got
    BY <1>8 DEF SubmitApproved
  <2>2. k \in Keys
    BY <1>2
  <2>3. /\ CallTypes' /\ Others(d) /\ pc'[d] = "settle" /\ verb'[d] = "submit"
        /\ at'[d] = None /\ key'[d] = k /\ got'[d] = "none"
    BY <1>0, <1>1, <2>1, <2>2, FreshLocals DEF Phases
  <2>4. Shape(d)'
    BY <2>2, <2>3 DEF Shape, ShapeOf, HoldPhases, KeyPhases
  <2>5. UNCHANGED <<holdCore, spendVars>>
    BY <1>8 DEF SubmitApproved, holdCore, holdVars
  <2> QED BY <2>2, <2>3, <2>4, <2>5 DEF Begins, Holding, Chained, Claiming, PastApproval, Going
<1>9. CASE Sweep(d) \/ InvalidateSuperseded(d)
  <2>1. PICK v \in {"sweep", "rotate"} : Call(d, v, None, None, None, "scan") /\ got' = got
    BY <1>9 DEF Sweep, InvalidateSuperseded
  <2>2. /\ "scan" \in Phases /\ v \in {"submit", "approve", "reject", "retry", "sweep", "rotate"}
        /\ None \in Holds \cup {None} /\ None \in Keys \cup {None}
    BY DEF Phases
  <2>3. /\ CallTypes' /\ Others(d) /\ pc'[d] = "scan" /\ verb'[d] = v
        /\ at'[d] = None /\ key'[d] = None /\ got'[d] = "none"
    BY <1>0, <1>1, <1>2, <2>1, <2>2, FreshLocals
  <2>4. Shape(d)'
    BY <2>3 DEF Shape, ShapeOf, HoldPhases, KeyPhases
  <2>5. UNCHANGED <<holdCore, spendVars>>
    BY <1>9 DEF Sweep, InvalidateSuperseded, holdCore, holdVars
  <2> QED BY <2>3, <2>4, <2>5 DEF Begins, Holding, Chained, Claiming, PastApproval, Going
<1> QED BY <1>3, <1>4, <1>5, <1>6, <1>7, <1>8, <1>9 DEF Calls

\* A call that ends, or dies, without writing anything.
LEMMA EndEffect ==
    ASSUME CallTypes, NEW d \in Drivers, Return(d)
    PROVE  CallTypes' /\ Shape(d)' /\ Ended(d)
BY ReturnLocals DEF Ended

\* A call that goes on without a change of its locals.
LEMMA GoEffect ==
    ASSUME CallTypes, NEW d \in Drivers, NEW p \in Phases, Goto(d, p), UNCHANGED localVars,
           ShapeOf(p, verb[d], at[d], key[d], cur[d], then[d], got[d])
    PROVE  CallTypes' /\ Shape(d)' /\ Goes(d, p, then[d], got[d])
<1>1. /\ CallTypes' /\ Others(d) /\ Same(d)
      /\ pc'[d] = p /\ cur'[d] = cur[d] /\ then'[d] = then[d] /\ got'[d] = got[d]
  BY GotoLocals
<1>2. Shape(d)'
  BY <1>1 DEF Shape, Same
<1> QED BY <1>1, <1>2 DEF Goes

\* An attempt that ends with a row.
LEMMA EndsEffect ==
    ASSUME CallTypes, NEW d \in Drivers, NEW result \in Results, Ends(d, result),
           UNCHANGED <<verb, at, key, idem, list, cur, then, own>>,
           ShapeOf("row", verb[d], at[d], key[d], cur[d], then[d], result)
    PROVE  CallTypes' /\ Shape(d)' /\ Goes(d, "row", then[d], result)
<1>1. /\ CallTypes' /\ Others(d) /\ Same(d)
      /\ pc'[d] = "row" /\ got'[d] = result /\ cur'[d] = cur[d] /\ then'[d] = then[d]
  BY EndsLocals
<1>2. Shape(d)'
  BY <1>1 DEF Shape, Same
<1> QED BY <1>1, <1>2 DEF Goes

\* A decision that is written, by a call with no result.
LEMMA DecideEffect ==
    ASSUME CallTypes, NEW d \in Drivers, NEW h \in Holds, NEW st, NEW cont \in Phases,
           Decide(d, h, st, cont), UNCHANGED <<verb, at, key, idem, got, own>>,
           list' \in [Drivers -> SUBSET Holds],
           \A e \in Drivers : e # d => list'[e] = list[e],
           ShapeOf("chain", verb[d], at[d], key[d], h, cont, got[d])
    PROVE  CallTypes' /\ Shape(d)' /\ Goes(d, "chain", cont, got[d]) /\ cur'[d] = h
<1>1. got' \in [Drivers -> Results] /\ \A e \in Drivers : e # d => got'[e] = got[e]
  BY DEF CallTypes
<1>2. /\ CallTypes' /\ Others(d) /\ Same(d)
      /\ pc'[d] = "chain" /\ cur'[d] = h /\ then'[d] = cont /\ got'[d] = got[d]
  BY <1>1, DecideLocals
<1>3. Shape(d)'
  BY <1>2 DEF Shape, Same
<1> QED BY <1>2, <1>3 DEF Goes

\* The phases a call goes through on its way say nothing of a claim.
LEMMA WalkEffect ==
    ASSUME NEW d \in Drivers, UNCHANGED <<holdCore, spendVars>>,
           NEW p, NEW g \in {"none", "turned_away"}, Goes(d, p, then[d], g),
           \/ p \in {"scan", "visit", "visited", "review", "void", "lapse", "compare", "resolve", "bind"}
           \/ p = "row" /\ g = "turned_away"
           \/ p \in {"pinned", "settle", "claim"} /\ at[d] # None
              /\ (PastApproval(pc[d], then[d], got[d]) \/ status[at[d]] = "approved")
           \/ p = "spend" /\ at[d] = None
    PROVE  Walks(d)
BY DEF Walks, Goes, Holding, Chained, Claiming, Going, PastApproval

\* Every step of a call under way is one of the effects, and keeps the shape of
\* its locals.
LEMMA StepEffect ==
    ASSUME TypeOK, CallShape, NEW d \in Drivers, Step(d)
    PROVE  CallTypes' /\ Shape(d)' /\ Effect(d)
<1> USE DEF Effect
<1>0. CallTypes /\ Shape(d)
  BY DEF TypeOK, CallTypes, CallShape
<1>1. ShapeOf(pc[d], verb[d], at[d], key[d], cur[d], then[d], got[d])
  BY <1>0 DEF Shape
<1>2. at[d] \in Holds \cup {None} /\ key[d] \in Keys \cup {None} /\ None \notin Holds /\ None \notin Keys
      /\ \A h \in Holds : KeyOf[h] \in Keys
  BY HeldAssumption DEF TypeOK
<1>3. ASSUME Return(d), UNCHANGED <<holdCore, spendVars>>
      PROVE  CallTypes' /\ Shape(d)' /\ Effect(d)
  BY <1>0, <1>3, EndEffect DEF Walks
<1>4. CASE CreateHold(d)
  <2>1. ShapeOf("bind", verb[d], at[d], key[d], cur[d], then[d], got[d]) /\ "bind" \in Phases
        /\ got[d] = "none"
    BY <1>1, <1>4 DEF CreateHold, ShapeOf, HoldPhases, KeyPhases, Phases
  <2>2. CallTypes' /\ Shape(d)' /\ Goes(d, "bind", then[d], got[d])
    BY <1>0, <1>4, <2>1, GoEffect DEF CreateHold
  <2> QED BY <1>4, <2>1, <2>2 DEF CreateHold, Creates
<1>5. CASE BindHold(d)
  <2>1. CallTypes' /\ Shape(d)' /\ Ended(d)
    BY <1>0, <1>5, EndEffect DEF BindHold
  <2> QED BY <1>5, <2>1 DEF BindHold, ChainRecord, Binds
<1>6. CASE Scan(d)
  <2>0. UNCHANGED <<holdCore, spendVars>>
    BY <1>6 DEF Scan, holdVars, holdCore
  <2>1. CASE Condemned
    BY <1>3, <1>6, <2>0, <2>1 DEF Scan
  <2>2. CASE ~ Condemned
    <3>1. /\ list' = [list EXCEPT ![d] = {h \in Holds : /\ status[h] = "pending"
                                                        /\ verb[d] # "rotate" => ttl[h] = "lapsed"}]
          /\ Goto(d, "visit") /\ UNCHANGED <<verb, at, key, idem, cur, then, got, own>>
          /\ pc[d] = "scan"
      BY <1>6, <2>2 DEF Scan
    <3>2. CallTypes' /\ Goes(d, "visit", then[d], got[d]) /\ cur'[d] = cur[d]
      BY <1>0, <3>1 DEF CallTypes, Goto, Goes, Others, Same, Phases
    <3>3. Shape(d)' /\ got[d] = "none"
      BY <1>1, <3>1, <3>2 DEF Shape, ShapeOf, Goes, Same, HoldPhases, KeyPhases
    <3> QED BY <2>0, <3>2, <3>3, WalkEffect
  <2> QED BY <2>1, <2>2
<1>7. ASSUME NEW h \in Holds, Visit(d, h) PROVE CallTypes' /\ Shape(d)' /\ Effect(d)
  <2>0. pc[d] = "visit" /\ got[d] = "none" /\ UNCHANGED <<claim, held, decided, spendVars>>
    BY <1>1, <1>7 DEF Visit, ShapeOf
  <2>1. CASE status[h] = "pending"
    <3>1. PICK st \in {"invalidated", "expired"} :
              /\ Decide(d, h, st, "visited")
              /\ list' = [list EXCEPT ![d] = @ \ {h}]
              /\ UNCHANGED <<verb, at, key, idem, got, own>>
      BY <1>7, <2>1 DEF Visit
    <3>2. /\ list' \in [Drivers -> SUBSET Holds] /\ \A e \in Drivers : e # d => list'[e] = list[e]
          /\ "visited" \in Phases
      BY <1>0, <3>1 DEF CallTypes, Phases
    <3>3. ShapeOf("chain", verb[d], at[d], key[d], h, "visited", got[d])
      BY <1>1, <2>0 DEF ShapeOf, HoldPhases, KeyPhases
    <3>4. CallTypes' /\ Shape(d)' /\ Goes(d, "chain", "visited", got[d]) /\ cur'[d] = h
      BY <1>0, <3>1, <3>2, <3>3, DecideEffect
    <3> QED BY <2>0, <2>1, <3>1, <3>4 DEF Decides, Decide
  <2>2. CASE status[h] # "pending" /\ verb[d] = "rotate"
    <3>1. /\ list' = [list EXCEPT ![d] = @ \ {h}] /\ cur' = [cur EXCEPT ![d] = h]
          /\ Goto(d, "visited") /\ UNCHANGED <<verb, at, key, idem, then, got, own>>
          /\ UNCHANGED <<holdCore, spendVars>>
      BY <1>7, <2>2 DEF Visit, holdCore
    <3>2. CallTypes' /\ Goes(d, "visited", then[d], got[d]) /\ cur'[d] = h
      BY <1>0, <3>1 DEF CallTypes, Goto, Goes, Others, Same, Phases
    <3>3. Shape(d)'
      BY <1>1, <2>0, <3>2 DEF Shape, ShapeOf, Goes, Same, HoldPhases, KeyPhases
    <3> QED BY <2>0, <3>1, <3>2, <3>3, WalkEffect
  <2>3. CASE status[h] # "pending" /\ verb[d] # "rotate"
    BY <1>3, <1>7, <2>3 DEF Visit, holdCore
  <2> QED BY <2>1, <2>2, <2>3
<1>8. CASE Visited(d)
  <2>0. UNCHANGED <<holdCore, spendVars>> /\ pc[d] = "visited"
    BY <1>8 DEF Visited, holdVars, holdCore
  <2>1. CASE Readable(cur[d])
    <3>1. Goto(d, "visit") /\ cur' = [cur EXCEPT ![d] = None] /\ UNCHANGED <<verb, at, key, idem, list, then, got, own>>
      BY <1>8, <2>1 DEF Visited
    <3>2. CallTypes' /\ Goes(d, "visit", then[d], got[d])
      BY <1>0, <3>1 DEF CallTypes, Goto, Goes, Others, Same, Phases
    <3>3. Shape(d)' /\ got[d] = "none"
      BY <1>1, <2>0, <3>2 DEF Shape, ShapeOf, Goes, Same, HoldPhases, KeyPhases
    <3> QED BY <2>0, <3>2, <3>3, WalkEffect
  <2>2. CASE ~ Readable(cur[d])
    BY <1>3, <1>8, <2>0, <2>2 DEF Visited
  <2> QED BY <2>1, <2>2
<1>9. CASE EndScan(d)
  <2>0. UNCHANGED <<holdCore, spendVars>> /\ pc[d] = "visit"
    BY <1>9 DEF EndScan, holdVars, holdCore
  <2>1. CASE verb[d] = "approve"
    <3>1. Goto(d, "review") /\ UNCHANGED localVars /\ "review" \in Phases
      BY <1>9, <2>1 DEF EndScan, Phases
    <3>2. ShapeOf("review", verb[d], at[d], key[d], cur[d], then[d], got[d]) /\ got[d] = "none"
      BY <1>1, <2>0, <2>1 DEF ShapeOf, HoldPhases, KeyPhases
    <3>3. CallTypes' /\ Shape(d)' /\ Goes(d, "review", then[d], got[d])
      BY <1>0, <3>1, <3>2, GoEffect
    <3> QED BY <2>0, <3>2, <3>3, WalkEffect
  <2>2. CASE verb[d] # "approve"
    BY <1>3, <1>9, <2>0, <2>2 DEF EndScan
  <2> QED BY <2>1, <2>2
<1>10. CASE ChainDecision(d)
  <2>0. /\ pc[d] = "chain" /\ cur[d] \in Holds
        /\ decided' = [decided EXCEPT ![cur[d]] = status[cur[d]]]
        /\ UNCHANGED <<status, claim, held, spendVars>>
    BY <1>1, <1>10 DEF ChainDecision, ShapeOf
  <2>1. CASE then[d] = "idle"
    <3>1. CallTypes' /\ Shape(d)' /\ Ended(d)
      BY <1>0, <1>10, <2>1, EndEffect DEF ChainDecision
    <3> QED BY <2>0, <3>1 DEF ChainsDecision
  <2>2. CASE then[d] # "idle"
    <3>1. Goto(d, then[d]) /\ UNCHANGED localVars /\ then[d] \in Phases /\ then[d] \in {"visited", "pinned", "row"}
      BY <1>0, <1>1, <1>10, <2>0, <2>2 DEF ChainDecision, ShapeOf, CallTypes
    <3>2. PICK p \in Phases : p = then[d]
      BY <3>1
    <3>3. ShapeOf(p, verb[d], at[d], key[d], cur[d], then[d], got[d])
      BY <1>1, <1>2, <2>0, <3>1, <3>2 DEF ShapeOf, HoldPhases, KeyPhases
    <3>4. CallTypes' /\ Shape(d)' /\ Goes(d, p, then[d], got[d])
      BY <1>0, <3>1, <3>2, <3>3, GoEffect
    <3> QED BY <2>0, <3>1, <3>2, <3>4 DEF ChainsDecision
  <2> QED BY <2>1, <2>2
<1>11. CASE Review(d)
  <2>0. UNCHANGED <<holdCore, spendVars>> /\ pc[d] = "review"
    BY <1>11 DEF Review, holdVars, holdCore
  <2>1. CASE ~ Readable(at[d]) \/ status[at[d]] # "pending"
    BY <1>3, <1>11, <2>0, <2>1 DEF Review
  <2>2. CASE ~ (~ Readable(at[d]) \/ status[at[d]] # "pending")
    <3>1. PICK p \in {"resolve", "void", "lapse", "compare"} : Goto(d, p) /\ UNCHANGED localVars
      BY <1>11, <2>2 DEF Review
    <3>2. ShapeOf(p, verb[d], at[d], key[d], cur[d], then[d], got[d]) /\ got[d] = "none" /\ p \in Phases
      BY <1>1, <2>0 DEF ShapeOf, HoldPhases, KeyPhases, Phases
    <3>3. CallTypes' /\ Shape(d)' /\ Goes(d, p, then[d], got[d])
      BY <1>0, <3>1, <3>2, GoEffect
    <3> QED BY <2>0, <3>2, <3>3, WalkEffect
  <2> QED BY <2>1, <2>2
<1>12. CASE RefuseApproval(d)
  <2>0. /\ pc[d] \in {"void", "lapse"} /\ got[d] = "none" /\ at[d] \in Holds
        /\ UNCHANGED <<claim, held, decided, spendVars>>
    BY <1>1, <1>12 DEF RefuseApproval, ShapeOf, HoldPhases
  <2>1. CASE status[at[d]] = "pending"
    <3>1. PICK st \in {"invalidated", "expired"} :
              Decide(d, at[d], st, "idle") /\ UNCHANGED <<verb, at, key, idem, list, got, own>>
      BY <1>12, <2>1 DEF RefuseApproval
    <3>2. PICK h \in Holds : h = at[d]
      BY <2>0
    <3>3. /\ list' \in [Drivers -> SUBSET Holds] /\ \A e \in Drivers : e # d => list'[e] = list[e]
          /\ "idle" \in Phases
      BY <1>0, <3>1 DEF CallTypes, Phases
    <3>4. ShapeOf("chain", verb[d], at[d], key[d], h, "idle", got[d])
      BY <1>1, <2>0 DEF ShapeOf, HoldPhases, KeyPhases
    <3>5. CallTypes' /\ Shape(d)' /\ Goes(d, "chain", "idle", got[d]) /\ cur'[d] = h
      BY <1>0, <3>1, <3>2, <3>3, <3>4, DecideEffect
    <3> QED BY <2>0, <2>1, <3>1, <3>2, <3>5 DEF Decides, Decide
  <2>2. CASE status[at[d]] # "pending"
    BY <1>3, <1>12, <2>2 DEF RefuseApproval, holdCore
  <2> QED BY <2>1, <2>2
<1>13. CASE CompareBeforeApproval(d)
  <2>0. UNCHANGED <<holdCore, spendVars>> /\ pc[d] = "compare"
    BY <1>13 DEF CompareBeforeApproval, holdCore
  <2>1. CASE Return(d)
    BY <1>3, <2>0, <2>1
  <2>2. CASE Goto(d, "resolve") /\ UNCHANGED localVars
    <3>1. ShapeOf("resolve", verb[d], at[d], key[d], cur[d], then[d], got[d]) /\ got[d] = "none"
          /\ "resolve" \in Phases
      BY <1>1, <2>0 DEF ShapeOf, HoldPhases, KeyPhases, Phases
    <3>2. CallTypes' /\ Shape(d)' /\ Goes(d, "resolve", then[d], got[d])
      BY <1>0, <2>2, <3>1, GoEffect
    <3> QED BY <2>0, <3>1, <3>2, WalkEffect
  <2> QED BY <1>13, <2>1, <2>2 DEF CompareBeforeApproval
<1>14. CASE Resolve(d)
  <2>0. /\ pc[d] = "resolve" /\ got[d] = "none" /\ at[d] \in Holds
        /\ UNCHANGED <<claim, held, decided, spendVars>>
    BY <1>1, <1>14 DEF Resolve, ShapeOf, HoldPhases
  <2>1. CASE status[at[d]] = "pending"
    <3>1. PICK st \in {"approved", "rejected"}, cont \in {"pinned", "idle"} :
              /\ Decide(d, at[d], st, cont) /\ UNCHANGED <<verb, at, key, idem, list, got, own>>
              /\ cont = "pinned" => st = "approved"
      BY <1>14, <2>1 DEF Resolve
    <3>2. PICK h \in Holds : h = at[d]
      BY <2>0
    <3>3. /\ list' \in [Drivers -> SUBSET Holds] /\ \A e \in Drivers : e # d => list'[e] = list[e]
          /\ cont \in Phases
      BY <1>0, <3>1 DEF CallTypes, Phases
    <3>4. ShapeOf("chain", verb[d], at[d], key[d], h, cont, got[d])
      BY <1>1, <2>0 DEF ShapeOf, HoldPhases, KeyPhases
    <3>5. CallTypes' /\ Shape(d)' /\ Goes(d, "chain", cont, got[d]) /\ cur'[d] = h
      BY <1>0, <3>1, <3>2, <3>3, <3>4, DecideEffect
    <3> QED BY <2>0, <2>1, <3>1, <3>2, <3>5 DEF Decides, Decide
  <2>2. CASE status[at[d]] # "pending"
    BY <1>3, <1>14, <2>2 DEF Resolve, holdCore
  <2> QED BY <2>1, <2>2
<1>15. CASE Pinned(d)
  <2>0. UNCHANGED <<holdCore, spendVars>> /\ pc[d] = "pinned"
    BY <1>15 DEF Pinned, holdVars, holdCore
  <2>1. CASE Return(d)
    BY <1>3, <2>0, <2>1
  <2>2. CASE Goto(d, "settle") /\ UNCHANGED localVars
    <3>1. ShapeOf("settle", verb[d], at[d], key[d], cur[d], then[d], got[d]) /\ got[d] = "none"
          /\ "settle" \in Phases /\ at[d] \in Holds
      BY <1>1, <1>2, <2>0 DEF ShapeOf, HoldPhases, KeyPhases, Phases
    <3>2. CallTypes' /\ Shape(d)' /\ Goes(d, "settle", then[d], got[d])
      BY <1>0, <2>2, <3>1, GoEffect
    <3>3. at[d] # None /\ PastApproval(pc[d], then[d], got[d])
      BY <1>2, <2>0, <3>1 DEF PastApproval
    <3> QED BY <2>0, <3>1, <3>2, <3>3, WalkEffect
  <2> QED BY <1>15, <2>1, <2>2 DEF Pinned
<1>16. CASE Recheck(d)
  <2>0. UNCHANGED <<holdCore, spendVars>> /\ pc[d] = "recheck" /\ at[d] \in Holds
    BY <1>1, <1>16 DEF Recheck, holdVars, holdCore, ShapeOf, HoldPhases
  <2>1. CASE Return(d)
    BY <1>3, <2>0, <2>1
  <2>2. CASE Ends(d, "turned_away") /\ UNCHANGED <<verb, at, key, idem, list, cur, then, own>>
    <3>1. ShapeOf("row", verb[d], at[d], key[d], cur[d], then[d], "turned_away") /\ "turned_away" \in Results
      BY <1>1, <1>2, <2>0 DEF ShapeOf, HoldPhases, KeyPhases, Results
    <3>2. CallTypes' /\ Shape(d)' /\ Goes(d, "row", then[d], "turned_away")
      BY <1>0, <2>2, <3>1, EndsEffect
    <3> QED BY <2>0, <3>2, WalkEffect
  <2>3. CASE Goto(d, "pinned") /\ UNCHANGED localVars /\ status[at[d]] = "approved"
    <3>1. ShapeOf("pinned", verb[d], at[d], key[d], cur[d], then[d], got[d]) /\ got[d] = "none"
          /\ "pinned" \in Phases /\ at[d] # None
      BY <1>1, <1>2, <2>0 DEF ShapeOf, HoldPhases, KeyPhases, Phases
    <3>2. CallTypes' /\ Shape(d)' /\ Goes(d, "pinned", then[d], got[d])
      BY <1>0, <2>3, <3>1, GoEffect
    <3> QED BY <2>0, <2>3, <3>1, <3>2, WalkEffect
  <2> QED BY <1>16, <2>1, <2>2, <2>3 DEF Recheck
<1>17. CASE Settle(d)
  <2>0. UNCHANGED <<holdCore, spendVars>> /\ pc[d] = "settle" /\ got[d] = "none"
    BY <1>1, <1>17 DEF Settle, holdVars, holdCore, ShapeOf
  <2>1. CASE Return(d)
    BY <1>3, <2>0, <2>1
  <2>2. CASE Goto(d, IF at[d] = None THEN "spend" ELSE "claim") /\ UNCHANGED localVars
    <3>1. PICK p \in Phases : p = IF at[d] = None THEN "spend" ELSE "claim"
      BY DEF Phases
    <3>2. ShapeOf(p, verb[d], at[d], key[d], cur[d], then[d], got[d])
      BY <1>1, <1>2, <2>0, <3>1 DEF ShapeOf, HoldPhases, KeyPhases
    <3>3. CallTypes' /\ Shape(d)' /\ Goes(d, p, then[d], got[d])
      BY <1>0, <2>2, <3>1, <3>2, GoEffect
    <3>4. p = "claim" => at[d] # None /\ PastApproval(pc[d], then[d], got[d])
      BY <2>0, <3>1 DEF PastApproval
    <3> QED BY <2>0, <3>1, <3>3, <3>4, WalkEffect
  <2> QED BY <1>17, <2>1, <2>2 DEF Settle
<1>18. CASE ClaimHold(d)
  <2>0. pc[d] = "claim" /\ at[d] \in Holds /\ UNCHANGED <<status, held, decided, spendVars>> /\ got[d] = "none"
    BY <1>1, <1>18 DEF ClaimHold, ShapeOf, HoldPhases
  <2>1. CASE at[d] \notin claim
    <3>1. ShapeOf("observe", verb[d], at[d], key[d], cur[d], then[d], got[d]) /\ "observe" \in Phases
      BY <1>1, <2>0 DEF ShapeOf, HoldPhases, KeyPhases, Phases
    <3>2. Goto(d, "observe") /\ UNCHANGED localVars /\ claim' = claim \cup {at[d]}
      BY <1>18, <2>1 DEF ClaimHold
    <3>3. CallTypes' /\ Shape(d)' /\ Goes(d, "observe", then[d], got[d])
      BY <1>0, <3>1, <3>2, GoEffect
    <3> QED BY <2>0, <2>1, <3>2, <3>3 DEF TakesHold
  <2>2. CASE at[d] \in claim
    <3>1. ShapeOf("row", verb[d], at[d], key[d], cur[d], then[d], "turned_away") /\ "turned_away" \in Results
      BY <1>1, <1>2, <2>0 DEF ShapeOf, HoldPhases, KeyPhases, Results
    <3>2. /\ Ends(d, "turned_away") /\ UNCHANGED <<verb, at, key, idem, list, cur, then, own>>
          /\ UNCHANGED <<holdCore, spendVars>>
      BY <1>18, <2>0, <2>2 DEF ClaimHold, holdCore
    <3>3. CallTypes' /\ Shape(d)' /\ Goes(d, "row", then[d], "turned_away")
      BY <1>0, <3>1, <3>2, EndsEffect
    <3> QED BY <3>2, <3>3, WalkEffect
  <2> QED BY <2>1, <2>2
<1>19. CASE Observe(d)
  <2>0. /\ pc[d] = "observe" /\ at[d] \in Holds /\ UNCHANGED <<holdCore, spendVars>> /\ got[d] = "none"
        /\ UNCHANGED <<verb, at, key, idem, list, cur, then, own>>
    BY <1>1, <1>19 DEF Observe, ShapeOf, HoldPhases, holdVars, holdCore
  <2>1. \/ Goto(d, "spend") /\ UNCHANGED got /\ Readable(at[d])
        \/ Goto(d, "moved") /\ UNCHANGED got
        \/ Ends(d, "unread")
    BY <1>19 DEF Observe, Compared
  <2>2. ASSUME NEW p \in {"spend", "moved"}, Goto(d, p), UNCHANGED got
        PROVE  CallTypes' /\ Shape(d)' /\ Goes(d, p, then[d], "none")
    <3>1. ShapeOf(p, verb[d], at[d], key[d], cur[d], then[d], got[d]) /\ p \in Phases
      BY <1>1, <1>2, <2>0 DEF ShapeOf, HoldPhases, KeyPhases, Phases
    <3>2. UNCHANGED localVars
      BY <2>0, <2>2 DEF localVars
    <3>3. CallTypes' /\ Shape(d)' /\ Goes(d, p, then[d], got[d])
      BY <1>0, <2>2, <3>1, <3>2, GoEffect
    <3> QED BY <2>0, <3>3
  <2>3. CASE Ends(d, "unread")
    <3>1. ShapeOf("row", verb[d], at[d], key[d], cur[d], then[d], "unread") /\ "unread" \in Results
      BY <1>1, <1>2, <2>0 DEF ShapeOf, HoldPhases, KeyPhases, Results
    <3>2. CallTypes' /\ Shape(d)' /\ Goes(d, "row", then[d], "unread")
      BY <1>0, <2>0, <2>3, <3>1, EndsEffect
    <3> QED BY <2>0, <3>2 DEF Observes
  <2> QED BY <2>0, <2>1, <2>2, <2>3 DEF Observes
<1>20. CASE MarkStateMoved(d)
  <2>0. /\ pc[d] = "moved" /\ at[d] \in Holds /\ UNCHANGED <<claim, held, decided, spendVars>>
        /\ got' = [got EXCEPT ![d] = "moved"] /\ UNCHANGED <<verb, at, key, idem, list, own>>
    BY <1>1, <1>20 DEF MarkStateMoved, ShapeOf, HoldPhases
  <2>1. CASE status[at[d]] = "approved"
    <3>1. Decide(d, at[d], "state_moved", "row")
      BY <1>20, <2>1 DEF MarkStateMoved
    <3>2. PICK h \in Holds : h = at[d]
      BY <2>0
    <3>3. /\ list' \in [Drivers -> SUBSET Holds] /\ \A e \in Drivers : e # d => list'[e] = list[e]
          /\ got' \in [Drivers -> Results] /\ \A e \in Drivers : e # d => got'[e] = got[e]
          /\ got'[d] = "moved" /\ "row" \in Phases
      BY <1>0, <2>0 DEF CallTypes, Phases, Results
    <3>4. /\ CallTypes' /\ Others(d) /\ Same(d)
          /\ pc'[d] = "chain" /\ cur'[d] = h /\ then'[d] = "row"
      BY <1>0, <2>0, <3>1, <3>2, <3>3, DecideLocals
    <3>5. Shape(d)'
      BY <1>1, <2>0, <3>3, <3>4 DEF Shape, ShapeOf, Same, HoldPhases, KeyPhases
    <3> QED BY <2>0, <2>1, <3>1, <3>2, <3>3, <3>4, <3>5 DEF Marks, Decide, Goes
  <2>2. CASE status[at[d]] # "approved"
    <3>1. Ends(d, "moved") /\ UNCHANGED <<status, cur, then>>
      BY <1>20, <2>0, <2>2 DEF MarkStateMoved, Ends
    <3>2. ShapeOf("row", verb[d], at[d], key[d], cur[d], then[d], "moved") /\ "moved" \in Results
      BY <1>1, <1>2, <2>0 DEF ShapeOf, HoldPhases, KeyPhases, Results
    <3>3. CallTypes' /\ Shape(d)' /\ Goes(d, "row", then[d], "moved")
      BY <1>0, <2>0, <3>1, <3>2, EndsEffect
    <3> QED BY <2>0, <2>2, <3>1, <3>3 DEF Marks
  <2> QED BY <2>1, <2>2
<1>21. CASE ClaimAuthorization(d)
  <2>0. pc[d] = "spend" /\ got[d] = "none" /\ UNCHANGED <<holdCore, spends, rows, runs>>
    BY <1>1, <1>21 DEF ClaimAuthorization, ShapeOf, holdVars, holdCore
  <2>1. CASE key[d] \notin mutex
    <3>1. Goto(d, "spent") /\ UNCHANGED localVars /\ mutex' = mutex \cup {key[d]}
      BY <1>21, <2>1 DEF ClaimAuthorization
    <3>2. ShapeOf("spent", verb[d], at[d], key[d], cur[d], then[d], got[d]) /\ "spent" \in Phases
      BY <1>1, <2>0 DEF ShapeOf, HoldPhases, KeyPhases, Phases
    <3>3. CallTypes' /\ Shape(d)' /\ Goes(d, "spent", then[d], got[d])
      BY <1>0, <3>1, <3>2, GoEffect
    <3> QED BY <2>0, <2>1, <3>1, <3>3 DEF TakesKey
  <2>2. CASE key[d] \in mutex
    BY <1>3, <1>21, <2>0, <2>2 DEF ClaimAuthorization, spendVars
  <2> QED BY <2>1, <2>2
<1>22. CASE ChainSpend(d)
  <2>0. pc[d] = "spent" /\ got[d] = "none" /\ UNCHANGED <<holdCore, mutex, rows, runs>>
    BY <1>1, <1>22 DEF ChainSpend, ShapeOf, holdVars, holdCore
  <2>1. ShapeOf("run", verb[d], at[d], key[d], cur[d], then[d], got[d]) /\ "run" \in Phases
    BY <1>1, <2>0 DEF ShapeOf, HoldPhases, KeyPhases, Phases
  <2>2. CallTypes' /\ Shape(d)' /\ Goes(d, "run", then[d], got[d])
    BY <1>0, <1>22, <2>1, GoEffect DEF ChainSpend
  <2> QED BY <1>22, <2>0, <2>2 DEF ChainSpend, Spends
<1>23. CASE Run(d)
  <2>0. /\ pc[d] = "run" /\ got[d] = "none" /\ UNCHANGED <<holdCore, mutex, spends, rows>>
        /\ UNCHANGED <<verb, at, key, idem, list, cur, then, own>>
    BY <1>1, <1>23 DEF Run, ShapeOf, holdVars, holdCore
  <2>1. ASSUME NEW g \in {"ran", "refused"}, Ends(d, g)
        PROVE  CallTypes' /\ Shape(d)' /\ Goes(d, "row", then[d], g)
    <3>1. ShapeOf("row", verb[d], at[d], key[d], cur[d], then[d], g) /\ g \in Results
      BY <1>1, <2>0 DEF ShapeOf, HoldPhases, KeyPhases, Results
    <3> QED BY <1>0, <2>0, <2>1, <3>1, EndsEffect
  <2> QED BY <1>23, <2>0, <2>1 DEF Run, RunsIt
<1>24. CASE RecordRow(d)
  <2>0. /\ pc[d] = "row" /\ UNCHANGED <<holdCore, mutex, spends, runs>>
        /\ UNCHANGED <<verb, at, key, idem, list, cur, then, got>>
    BY <1>24 DEF RecordRow, holdVars, holdCore
  <2>1. /\ CallTypes' /\ Others(d) /\ Same(d) /\ pc'[d] = "receipt" /\ cur'[d] = cur[d]
        /\ then'[d] = then[d] /\ got'[d] = got[d] /\ own'[d] = Len(rows) + 1
    <3>1. Len(rows) + 1 \in Nat
      BY DEF TypeOK
    <3> QED BY <1>0, <1>24, <2>0, <3>1 DEF RecordRow, CallTypes, Goto, Others, Same, Phases
  <2>2. Shape(d)'
    BY <1>1, <2>0, <2>1 DEF Shape, ShapeOf, Same, HoldPhases, KeyPhases
  <2> QED BY <1>24, <2>0, <2>1, <2>2 DEF RecordRow, WritesRow, Goes
<1>25. CASE ChainReceipt(d)
  <2>0. /\ pc[d] = "receipt" /\ UNCHANGED <<holdCore, mutex, spends, runs>>
        /\ rows' = [rows EXCEPT ![own[d]].receipt = TRUE]
        /\ got[d] \in Results /\ got[d] # "none"
    BY <1>0, <1>1, <1>25 DEF ChainReceipt, holdVars, holdCore, ShapeOf, CallTypes
  <2>1. CASE got[d] \in {"turned_away", "moved"}
    <3>1. CallTypes' /\ Shape(d)' /\ Ended(d)
      BY <1>0, <1>25, <2>1, EndEffect DEF ChainReceipt, RetainsClaim
    <3> QED BY <2>0, <2>1, <3>1 DEF Receipts
  <2>2. ASSUME NEW p \in {"complete", "release", "unclaim"}, Goto(d, p), UNCHANGED localVars,
               \/ p = "complete" /\ got[d] = "ran"
               \/ p = "release" /\ got[d] = "refused"
               \/ p = "unclaim" /\ got[d] = "unread"
        PROVE  CallTypes' /\ Shape(d)' /\ Effect(d)
    <3>1. ShapeOf(p, verb[d], at[d], key[d], cur[d], then[d], got[d]) /\ p \in Phases
      BY <1>1, <2>0, <2>2 DEF ShapeOf, HoldPhases, KeyPhases, Phases
    <3>2. CallTypes' /\ Shape(d)' /\ Goes(d, p, then[d], got[d])
      BY <1>0, <2>2, <3>1, GoEffect
    <3>3. own'[d] = own[d]
      BY <2>2 DEF localVars
    <3> QED BY <2>0, <2>2, <3>2, <3>3 DEF Receipts
  <2>3. CASE got[d] = "ran"
    BY <1>25, <2>2, <2>3 DEF ChainReceipt, RetainsClaim
  <2>4. CASE got[d] = "refused"
    BY <1>25, <2>2, <2>4 DEF ChainReceipt, RetainsClaim
  <2>5. CASE got[d] = "unread"
    BY <1>25, <2>2, <2>5 DEF ChainReceipt, RetainsClaim
  <2> QED BY <2>0, <2>1, <2>3, <2>4, <2>5 DEF Results
<1>26. CASE Complete(d)
  <2>1. CallTypes' /\ Shape(d)' /\ Ended(d)
    BY <1>0, <1>26, EndEffect DEF Complete
  <2> QED BY <1>26, <2>1 DEF Complete, Completes, holdVars, holdCore
<1>27. CASE ReleaseAuthorization(d)
  <2>0. pc[d] = "release" /\ got[d] = "refused"
    BY <1>1, <1>27 DEF ReleaseAuthorization, ShapeOf
  <2>1. ShapeOf("retract", verb[d], at[d], key[d], cur[d], then[d], got[d]) /\ "retract" \in Phases
    BY <1>1, <2>0 DEF ShapeOf, HoldPhases, KeyPhases, Phases
  <2>2. CallTypes' /\ Shape(d)' /\ Goes(d, "retract", then[d], got[d])
    BY <1>0, <1>27, <2>1, GoEffect DEF ReleaseAuthorization
  <2> QED BY <1>27, <2>0, <2>2 DEF ReleaseAuthorization, FreesKey, holdVars, holdCore
<1>28. CASE ChainRelease(d)
  <2>0. /\ pc[d] = "retract" /\ got[d] = "refused" /\ UNCHANGED <<holdCore, mutex, rows, runs>>
        /\ AppendSpend(key[d], ReleaseEntry)
    BY <1>1, <1>28 DEF ChainRelease, ShapeOf, holdVars, holdCore
  <2>1. CASE at[d] = None
    <3>1. CallTypes' /\ Shape(d)' /\ Ended(d)
      BY <1>0, <1>28, <2>1, EndEffect DEF ChainRelease
    <3> QED BY <2>0, <3>1 DEF Retracts
  <2>2. CASE at[d] # None
    <3>1. ShapeOf("unclaim", verb[d], at[d], key[d], cur[d], then[d], got[d]) /\ "unclaim" \in Phases
      BY <1>1, <1>2, <2>0, <2>2 DEF ShapeOf, HoldPhases, KeyPhases, Phases
    <3>2. CallTypes' /\ Shape(d)' /\ Goes(d, "unclaim", then[d], got[d])
      BY <1>0, <1>28, <2>2, <3>1, GoEffect DEF ChainRelease
    <3> QED BY <2>0, <3>2 DEF Retracts
  <2> QED BY <2>1, <2>2
<1>29. CASE ReleaseHold(d)
  <2>1. CallTypes' /\ Shape(d)' /\ Ended(d)
    BY <1>0, <1>29, EndEffect DEF ReleaseHold
  <2> QED BY <1>29, <2>1 DEF ReleaseHold, FreesHold
<1> HIDE DEF Effect
<1> QED BY <1>4, <1>5, <1>6, <1>7, <1>8, <1>9, <1>10, <1>11, <1>12, <1>13, <1>14, <1>15, <1>16,
           <1>17, <1>18, <1>19, <1>20, <1>21, <1>22, <1>23, <1>24, <1>25, <1>26, <1>27, <1>28, <1>29
        DEF Step

\* A step of the specification is the step of one call, or of none.
LEMMA NextEffect ==
    ASSUME TypeOK, CallShape, [Next]_vars
    PROVE  \/ \E d \in Drivers : CallTypes' /\ Shape(d)' /\ Effect(d)
           \/ UNCHANGED <<holdCore, spendVars, callVars>>
<1>1. ASSUME NEW d \in Drivers, Calls(d) PROVE CallTypes' /\ Shape(d)' /\ Effect(d)
  BY <1>1, CallsEffect DEF Effect
<1>2. ASSUME NEW d \in Drivers, Step(d) PROVE CallTypes' /\ Shape(d)' /\ Effect(d)
  BY <1>2, StepEffect
<1>3. ASSUME NEW d \in Drivers, Crash(d) PROVE CallTypes' /\ Shape(d)' /\ Effect(d)
  <2>1. Return(d) /\ UNCHANGED <<holdCore, spendVars>> /\ CallTypes
    BY <1>3 DEF Crash, holdVars, holdCore, TypeOK, CallTypes
  <2> QED BY <2>1, EndEffect DEF Walks, Effect
<1>4. CASE \E h \in Holds : Lapse(h)
  BY <1>4 DEF Lapse, holdCore
<1>5. CASE (\E t \in Targets : MoveTarget(t)) \/ RotatePolicy
  BY <1>5 DEF MoveTarget, RotatePolicy, holdVars, holdCore
<1>6. CASE UNCHANGED vars
  BY <1>6 DEF vars, holdVars, holdCore
<1> QED BY <1>1, <1>2, <1>3, <1>4, <1>5, <1>6 DEF Next, Calls

-----------------------------------------------------------------------------
(* Types.                                                                   *)

\* What no property is about keeps its type as well.
LEMMA SceneTypes ==
    ASSUME TypeOK, CallShape, [Next]_vars
    PROVE  /\ pin' \in [Holds -> Targets]
           /\ ttl' \in [Holds -> {"fresh", "lapsed"}]
           /\ observed' \subseteq Holds
           /\ target' \in Targets /\ rotated' \in BOOLEAN
           /\ calls' \in 0..MaxCalls /\ crashes' \in 0..MaxCrashes
<1> DEFINE Typed == /\ pin' \in [Holds -> Targets]
                    /\ ttl' \in [Holds -> {"fresh", "lapsed"}]
                    /\ observed' \subseteq Holds
                    /\ target' \in Targets /\ rotated' \in BOOLEAN
                    /\ calls' \in 0..MaxCalls /\ crashes' \in 0..MaxCrashes
<1> SUFFICES Typed
  OBVIOUS
<1>0. ASSUME UNCHANGED <<pin, ttl, observed, envVars>> PROVE Typed
  BY <1>0 DEF TypeOK, envVars
<1>1. ASSUME NEW d \in Drivers, Calls(d) PROVE Typed
  <2>1. calls' = calls \/ Counted
    BY <1>1 DEF Calls, SubmitRouted, Approve, Reject, RetryExecution, SubmitBlocked, SubmitApproved,
                Sweep, InvalidateSuperseded, envVars
  <2>2. calls' \in 0..MaxCalls
    BY <2>1, HeldAssumption DEF Counted, TypeOK
  <2>3. UNCHANGED <<ttl, observed, target, rotated, crashes>>
    BY <1>1 DEF Calls, SubmitRouted, Approve, Reject, RetryExecution, SubmitBlocked, SubmitApproved,
                Sweep, InvalidateSuperseded, envVars, holdVars
  <2>4. pin' = pin \/ \E h \in Holds : Capture(h)
    BY <1>1 DEF Calls, SubmitRouted, Approve, Reject, RetryExecution, SubmitBlocked, SubmitApproved,
                Sweep, InvalidateSuperseded, holdVars
  <2>5. pin' \in [Holds -> Targets]
    <3>1. CASE pin' = pin
      BY <3>1 DEF TypeOK
    <3>2. ASSUME NEW h \in Holds, Capture(h) PROVE pin' \in [Holds -> Targets]
      <4>1. pin' = [pin EXCEPT ![h] = target]
        BY <3>2 DEF Capture, Readings
      <4> QED BY <4>1 DEF TypeOK
    <3> QED BY <2>4, <3>1, <3>2
  <2> QED BY <2>2, <2>3, <2>5 DEF TypeOK
<1>2. ASSUME NEW d \in Drivers, Step(d) PROVE Typed
  <2>1. CASE CompareBeforeApproval(d)
    <3>1. at[d] \in Holds
      BY <2>1 DEF CompareBeforeApproval, CallShape, Shape, ShapeOf, HoldPhases
    <3> QED BY <2>1, <3>1 DEF CompareBeforeApproval, RecordObservation, TypeOK, envVars
  <2>2. CASE Resolve(d)
    <3>1. at[d] \in Holds
      BY <2>2 DEF Resolve, CallShape, Shape, ShapeOf, HoldPhases
    <3> QED BY <2>2, <3>1 DEF Resolve, TypeOK, envVars
  <2>3. CASE CreateHold(d) \/ BindHold(d) \/ Scan(d) \/ (\E h \in Holds : Visit(d, h)) \/ Visited(d)
             \/ EndScan(d) \/ ChainDecision(d) \/ Review(d) \/ RefuseApproval(d)
    BY <1>0, <2>3 DEF CreateHold, BindHold, Scan, Visit, Visited, EndScan, ChainDecision, Review,
                      RefuseApproval, holdVars
  <2>4. CASE Pinned(d) \/ Recheck(d) \/ Settle(d) \/ ClaimHold(d) \/ Observe(d) \/ MarkStateMoved(d)
             \/ ClaimAuthorization(d) \/ ChainSpend(d) \/ Run(d)
    BY <1>0, <2>4 DEF Pinned, Recheck, Settle, ClaimHold, Observe, MarkStateMoved,
                      ClaimAuthorization, ChainSpend, Run, holdVars
  <2>5. CASE RecordRow(d) \/ ChainReceipt(d) \/ Complete(d) \/ ReleaseAuthorization(d)
             \/ ChainRelease(d) \/ ReleaseHold(d)
    BY <1>0, <2>5 DEF RecordRow, ChainReceipt, Complete, ReleaseAuthorization, ChainRelease,
                      ReleaseHold, holdVars
  <2> QED BY <1>2, <2>1, <2>2, <2>3, <2>4, <2>5 DEF Step
<1>3. ASSUME NEW d \in Drivers, Crash(d) PROVE Typed
  BY <1>3, HeldAssumption DEF Crash, holdVars, TypeOK
<1>4. CASE \E h \in Holds : Lapse(h)
  BY <1>4 DEF Lapse, TypeOK, envVars
<1>5. CASE (\E t \in Targets : MoveTarget(t)) \/ RotatePolicy
  BY <1>5 DEF MoveTarget, RotatePolicy, holdVars, TypeOK
<1>6. CASE UNCHANGED vars
  BY <1>0, <1>6 DEF vars, holdVars
<1> HIDE DEF Typed
<1> QED BY <1>1, <1>2, <1>3, <1>4, <1>5, <1>6 DEF Next, Calls

\* Replacing one row of a table leaves a table of the same length.
LEMMA ReplaceRow ==
    ASSUME NEW S, NEW log \in Seq(S), NEW n \in DOMAIN log, NEW r \in S
    PROVE  [log EXCEPT ![n] = r] \in Seq(S) /\ DOMAIN [log EXCEPT ![n] = r] = DOMAIN log
OBVIOUS

\* What the chained receipt of row n does to the table.
Receipted(log, n) == [log EXCEPT ![n].receipt = TRUE]

\* A receipt is marked in its own row, and nothing else changes there.
LEMMA ReceiptRow ==
    ASSUME NEW log \in Seq(Row), NEW n
    PROVE  /\ Receipted(log, n) \in Seq(Row) /\ DOMAIN Receipted(log, n) = DOMAIN log
           /\ \A m \in DOMAIN log :
                 /\ Receipted(log, n)[m].hold = log[m].hold
                 /\ Receipted(log, n)[m].key = log[m].key
                 /\ Receipted(log, n)[m].executed = log[m].executed
                 /\ m = n => Receipted(log, n)[m].receipt
                 /\ log[m].receipt => Receipted(log, n)[m].receipt
<1>1. ASSUME NEW r \in Row
      PROVE  /\ [r EXCEPT !.receipt = TRUE] \in Row
             /\ [r EXCEPT !.receipt = TRUE].hold = r.hold /\ [r EXCEPT !.receipt = TRUE].key = r.key
             /\ [r EXCEPT !.receipt = TRUE].executed = r.executed
             /\ [r EXCEPT !.receipt = TRUE].receipt
  <2>1. [r EXCEPT !.receipt = TRUE] \in Row
    BY DEF Row
  <2>2. [r EXCEPT !.receipt = TRUE].hold = r.hold /\ [r EXCEPT !.receipt = TRUE].key = r.key
    BY DEF Row
  <2>3. [r EXCEPT !.receipt = TRUE].executed = r.executed
    BY DEF Row
  <2>4. [r EXCEPT !.receipt = TRUE].receipt
    BY DEF Row
  <2> QED BY <2>1, <2>2, <2>3, <2>4
<1>2. CASE n \in DOMAIN log
  <2>1. PICK r \in Row : r = [log[n] EXCEPT !.receipt = TRUE] /\ r.hold = log[n].hold
                         /\ r.key = log[n].key /\ r.executed = log[n].executed /\ r.receipt
    <3>1. log[n] \in Row
      BY <1>2
    <3> QED BY <1>1, <3>1
  <2>2. Receipted(log, n) = [log EXCEPT ![n] = r]
    BY <2>1 DEF Receipted
  <2>3. Receipted(log, n) \in Seq(Row) /\ DOMAIN Receipted(log, n) = DOMAIN log
    BY <1>2, <2>2, ReplaceRow
  <2>4. \A m \in DOMAIN log : Receipted(log, n)[m] = IF m = n THEN r ELSE log[m]
    BY <2>2
  <2>5. ASSUME NEW m \in DOMAIN log
        PROVE  /\ Receipted(log, n)[m].hold = log[m].hold /\ Receipted(log, n)[m].key = log[m].key
               /\ Receipted(log, n)[m].executed = log[m].executed
               /\ m = n => Receipted(log, n)[m].receipt
               /\ log[m].receipt => Receipted(log, n)[m].receipt
    <3>1. CASE m = n
      <4>1. Receipted(log, n)[m] = r
        BY <2>4, <3>1
      <4> QED BY <2>1, <3>1, <4>1
    <3>2. CASE m # n
      <4>1. Receipted(log, n)[m] = log[m]
        BY <2>4, <3>2
      <4> QED BY <3>2, <4>1
    <3> QED BY <3>1, <3>2
  <2> QED BY <2>3, <2>5
<1>3. CASE n \notin DOMAIN log
  <2>1. Receipted(log, n) = log
    BY <1>3 DEF Receipted
  <2> QED BY <1>3, <2>1
<1> QED BY <1>2, <1>3

\* The rows of the holds and the tables of the spends keep their types.
LEMMA CoreTypes ==
    ASSUME TypeOK, CallShape, CreateInv, NEW d \in Drivers, Effect(d)
    PROVE  /\ status' \in [Holds -> Decisions \cup {"none", "pending"}]
           /\ claim' \subseteq Holds /\ held' \subseteq Holds
           /\ decided' \in [Holds -> Decisions \cup {"none"}]
           /\ mutex' \subseteq Keys
           /\ spends' \in [Keys -> Seq(SpendEntries)]
           /\ rows' \in Seq(Row)
           /\ runs' \in [Keys -> Nat]
<1> DEFINE Holds0 == /\ status' \in [Holds -> Decisions \cup {"none", "pending"}]
                     /\ claim' \subseteq Holds /\ held' \subseteq Holds
                     /\ decided' \in [Holds -> Decisions \cup {"none"}]
           Spends0 == /\ mutex' \subseteq Keys
                      /\ spends' \in [Keys -> Seq(SpendEntries)]
                      /\ rows' \in Seq(Row)
                      /\ runs' \in [Keys -> Nat]
<1> SUFFICES Holds0 /\ Spends0
  OBVIOUS
<1>0. /\ pc[d] \in HoldPhases => at[d] \in Holds
      /\ pc[d] \in KeyPhases => key[d] \in Keys
      /\ at[d] \in Holds \cup {None} /\ idem[d] \in IdemKeys /\ own[d] \in Nat /\ None \in IdemKeys
  BY HeldAssumption DEF CallShape, Shape, ShapeOf, TypeOK
<1>1. ASSUME UNCHANGED holdCore PROVE Holds0
  BY <1>1 DEF holdCore, TypeOK
<1>2. ASSUME UNCHANGED spendVars PROVE Spends0
  BY <1>2 DEF spendVars, TypeOK
<1>3. CASE Begins(d) \/ Walks(d) \/ Observes(d)
  BY <1>1, <1>2, <1>3 DEF Begins, Walks, Observes
<1>4. CASE Creates(d) \/ Marks(d) \/ Decides(d)
  <2>1. PICK h \in Holds, st \in Decisions \cup {"pending"} :
            status' = status \/ status' = [status EXCEPT ![h] = st]
    BY <1>0, <1>4 DEF Creates, Marks, Decides, HoldPhases, Decisions
  <2>2. status' \in [Holds -> Decisions \cup {"none", "pending"}]
    BY <2>1 DEF TypeOK
  <2>3. Holds0
    BY <1>4, <2>2 DEF Creates, Marks, Decides, TypeOK
  <2> QED BY <1>2, <1>4, <2>3 DEF Creates, Marks, Decides
<1>5. CASE Binds(d) \/ TakesHold(d) \/ FreesHold(d)
  <2>1. Holds0
    BY <1>0, <1>5 DEF Binds, TakesHold, FreesHold, HoldPhases, TypeOK
  <2> QED BY <1>2, <1>5, <2>1 DEF Binds, TakesHold, FreesHold
<1>6. CASE ChainsDecision(d)
  <2>1. status[cur[d]] \in Decisions
    BY <1>6 DEF ChainsDecision, CreateInv
  <2>2. Holds0
    BY <1>6, <2>1 DEF ChainsDecision, TypeOK
  <2> QED BY <1>2, <1>6, <2>2 DEF ChainsDecision
<1>7. CASE TakesKey(d) \/ FreesKey(d)
  <2>1. key[d] \in Keys
    BY <1>0, <1>7 DEF TakesKey, FreesKey, KeyPhases
  <2>2. Spends0
    BY <1>7, <2>1 DEF TakesKey, FreesKey, TypeOK
  <2> QED BY <1>1, <1>7, <2>2 DEF TakesKey, FreesKey
<1>8. CASE Spends(d) \/ Completes(d) \/ Retracts(d)
  <2>1. PICK entry \in SpendEntries : AppendSpend(key[d], entry)
    BY <1>0, <1>8 DEF Spends, Completes, Retracts, SpendEntry, CompletedEntry, ReleaseEntry, SpendEntries
  <2>2. key[d] \in Keys
    BY <1>0, <1>8 DEF Spends, Completes, Retracts, KeyPhases
  <2>3. Append(spends[key[d]], entry) \in Seq(SpendEntries)
    BY <2>1, <2>2 DEF TypeOK
  <2>4. Spends0
    BY <1>8, <2>1, <2>2, <2>3 DEF AppendSpend, Spends, Completes, Retracts, TypeOK
  <2> QED BY <1>1, <1>8, <2>4 DEF Spends, Completes, Retracts
<1>9. CASE RunsIt(d)
  <2>1. key[d] \in Keys
    BY <1>0, <1>9 DEF RunsIt, KeyPhases
  <2>2. runs' \in [Keys -> Nat]
    <3>1. runs \in [Keys -> Nat] /\ runs[key[d]] + 1 \in Nat
      BY <2>1 DEF TypeOK
    <3> QED BY <1>9, <3>1 DEF RunsIt
  <2>3. Spends0
    BY <1>9, <2>2 DEF RunsIt, TypeOK
  <2> QED BY <1>1, <1>9, <2>3 DEF RunsIt
<1>10. CASE WritesRow(d)
  <2>1. [hold |-> at[d], key |-> key[d], executed |-> got[d] = "ran", receipt |-> FALSE] \in Row
    BY <1>0, <1>10 DEF WritesRow, KeyPhases, Row
  <2>2. rows' \in Seq(Row)
    BY <1>10, <2>1 DEF WritesRow, TypeOK
  <2>3. Spends0
    BY <1>10, <2>2 DEF WritesRow, TypeOK
  <2> QED BY <1>1, <1>10, <2>3 DEF WritesRow
<1>11. CASE Receipts(d)
  <2>1. rows' = Receipted(rows, own[d]) /\ rows \in Seq(Row)
    BY <1>11 DEF Receipts, Receipted, TypeOK
  <2>2. rows' \in Seq(Row)
    BY <2>1, ReceiptRow
  <2>3. Spends0
    BY <1>11, <2>2 DEF Receipts, TypeOK
  <2> QED BY <1>1, <1>11, <2>3 DEF Receipts
<1> HIDE DEF Holds0, Spends0
<1> QED BY <1>3, <1>4, <1>5, <1>6, <1>7, <1>8, <1>9, <1>10, <1>11 DEF Effect

\* Every step keeps the locals of every call well shaped.
LEMMA ShapeStep ==
    ASSUME TypeOK, CallShape, [Next]_vars
    PROVE  CallShape'
<1>1. ASSUME NEW d \in Drivers, Others(d), Shape(d)' PROVE CallShape'
  <2>1. ASSUME NEW e \in Drivers PROVE Shape(e)'
    <3>1. CASE e = d
      BY <1>1, <3>1
    <3>2. CASE e # d
      BY <1>1, <3>2 DEF Others, Shape, CallShape
    <3> QED BY <3>1, <3>2
  <2> QED BY <2>1 DEF CallShape
<1>2. ASSUME NEW d \in Drivers, Effect(d) PROVE Others(d)
  BY <1>2 DEF Effect, Begins, Walks, Creates, Binds, Decides, ChainsDecision, TakesHold, Observes,
              Marks, TakesKey, Spends, RunsIt, WritesRow, Receipts, Completes, FreesKey, Retracts,
              FreesHold, Ended, Goes
<1>3. CASE UNCHANGED <<holdCore, spendVars, callVars>>
  BY <1>3 DEF callVars, CallShape, Shape
<1> QED BY <1>1, <1>2, <1>3, NextEffect

-----------------------------------------------------------------------------
(* Decisions.                                                               *)

\* The transitions of the status column.  Only the call that captured a hold
\* creates it.
StatusMoves(d, h) ==
    \/ status'[h] = status[h]
    \/ pc[d] = "create" /\ h = at[d] /\ status[h] = "none" /\ status'[h] = "pending"
    \/ status[h] = "pending" /\ status'[h] \in Decisions \ {"state_moved"}
    \/ status[h] = "approved" /\ status'[h] = "state_moved"

\* No step writes the status column in another way.
LEMMA StatusStep ==
    ASSUME TypeOK, CallShape, CreateInv, NEW d \in Drivers, Effect(d), NEW h \in Holds
    PROVE  StatusMoves(d, h)
<1>0. status \in [Holds -> Decisions \cup {"none", "pending"}]
  BY DEF TypeOK
<1>1. CASE status' = status
  BY <1>1 DEF StatusMoves
<1>2. CASE Creates(d)
  <2>1. at[d] \in Holds /\ status[at[d]] = "none"
    BY <1>2 DEF Creates, CreateInv, CallShape, Shape, ShapeOf, HoldPhases
  <2> QED BY <1>0, <1>2, <2>1 DEF Creates, StatusMoves
<1>3. CASE Decides(d)
  <2>1. PICK g \in Holds, st \in {"approved", "rejected", "expired", "invalidated"} :
            status[g] = "pending" /\ status' = [status EXCEPT ![g] = st]
    BY <1>3 DEF Decides
  <2> QED BY <1>0, <2>1 DEF StatusMoves, Decisions
<1>4. CASE Marks(d)
  <2>1. at[d] \in Holds
    BY <1>4 DEF Marks, CallShape, Shape, ShapeOf, HoldPhases
  <2> QED BY <1>0, <1>4, <2>1 DEF Marks, StatusMoves
<1> QED BY <1>1, <1>2, <1>3, <1>4
        DEF Effect, Begins, Walks, Binds, ChainsDecision, TakesHold, Observes, TakesKey, Spends,
            RunsIt, WritesRow, Receipts, Completes, FreesKey, Retracts, FreesHold, holdCore

\* The call that takes a step stays about its hold, drops it or has just begun, and
\* writes a decision when it goes on to chain one.
LEMMA EffectLocals ==
    ASSUME TypeOK, CallShape, NEW d \in Drivers, Effect(d)
    PROVE  /\ Others(d)
           /\ at'[d] = at[d] \/ at'[d] = None \/ Begins(d)
           /\ pc'[d] = "create" => Begins(d)
           /\ pc'[d] = "chain" => cur'[d] \in Holds /\ status'[cur'[d]] \in Decisions
<1> DEFINE Moves == /\ Others(d)
                    /\ at'[d] = at[d] \/ at'[d] = None \/ Begins(d)
                    /\ pc'[d] = "create" => Begins(d)
                    /\ pc'[d] = "chain" => cur'[d] \in Holds /\ status'[cur'[d]] \in Decisions
<1> SUFFICES Moves
  OBVIOUS
<1>0. status \in [Holds -> Decisions \cup {"none", "pending"}]
  BY DEF TypeOK
<1>1. CASE Begins(d)
  BY <1>1 DEF Begins
<1>2. CASE Walks(d)
  BY <1>2 DEF Walks, Ended, Same
<1>3. CASE Decides(d)
  <2>1. PICK g \in Holds, st \in {"approved", "rejected", "expired", "invalidated"} :
            /\ status' = [status EXCEPT ![g] = st] /\ cur'[d] = g
            /\ \E t \in {"visited", "idle", "pinned"} : Goes(d, "chain", t, "none")
    BY <1>3 DEF Decides
  <2> QED BY <1>0, <2>1 DEF Goes, Same, Decisions
<1>4. CASE Marks(d)
  <2>1. at[d] \in Holds
    BY <1>4 DEF Marks, CallShape, Shape, ShapeOf, HoldPhases
  <2>2. CASE cur'[d] = at[d] /\ status' = [status EXCEPT ![at[d]] = "state_moved"]
             /\ Goes(d, "chain", "row", "moved")
    BY <1>0, <2>1, <2>2 DEF Goes, Same, Decisions
  <2>3. CASE Goes(d, "row", then[d], "moved")
    BY <2>3 DEF Goes, Same
  <2> QED BY <1>4, <2>2, <2>3 DEF Marks
<1>5. ASSUME \/ Ended(d)
             \/ \E p \in Phases \ {"create", "chain"} : Goes(d, p, then'[d], got'[d])
      PROVE  Moves
  BY <1>5 DEF Ended, Goes, Same
<1>6. CASE Creates(d) \/ Binds(d) \/ ChainsDecision(d) \/ TakesHold(d) \/ Observes(d)
  <2>1. \/ Ended(d)
        \/ \E p \in Phases \ {"create", "chain"} : Goes(d, p, then'[d], got'[d])
    BY <1>6 DEF Creates, Binds, ChainsDecision, TakesHold, Observes, Phases, Goes
  <2> QED BY <1>5, <2>1
<1>7. CASE TakesKey(d) \/ Spends(d) \/ RunsIt(d) \/ WritesRow(d) \/ Receipts(d)
           \/ Completes(d) \/ FreesKey(d) \/ Retracts(d) \/ FreesHold(d)
  <2>1. \/ Ended(d)
        \/ \E p \in Phases \ {"create", "chain"} : Goes(d, p, then'[d], got'[d])
    BY <1>7 DEF TakesKey, Spends, RunsIt, WritesRow, Receipts, Completes, FreesKey, Retracts,
                FreesHold, Phases, Goes
  <2> QED BY <1>5, <2>1
<1> HIDE DEF Moves
<1> QED BY <1>1, <1>2, <1>3, <1>4, <1>6, <1>7 DEF Effect

\* A hold is still created once, and a decision still made before it is chained.
LEMMA CreateStep ==
    ASSUME TypeOK, CallShape, CreateInv, NEW d \in Drivers, Effect(d)
    PROVE  CreateInv'
<1>0. /\ Others(d)
      /\ at'[d] = at[d] \/ at'[d] = None \/ Begins(d)
      /\ pc'[d] = "create" => Begins(d)
      /\ pc'[d] = "chain" => cur'[d] \in Holds /\ status'[cur'[d]] \in Decisions
  BY EffectLocals
<1>1. ASSUME NEW h \in Holds PROVE StatusMoves(d, h)
  BY StatusStep
<1>2. \A e \in Drivers : /\ pc[e] = "create" => at[e] \in Holds /\ at[e] # None
                         /\ pc[e] = "chain" => cur[e] \in Holds
  BY HeldAssumption DEF CallShape, Shape, ShapeOf, HoldPhases
<1>3. ASSUME NEW e \in Drivers, pc'[e] = "create"
      PROVE  status'[at'[e]] = "none" /\ \A f \in Drivers : at'[f] = at'[e] => f = e
  <2>1. CASE e = d
    <3>1. Begins(d) /\ pc'[d] = "create"
      BY <1>0, <1>3, <2>1
    <3>2. status' = status /\ status[at'[d]] = "none" /\ \A f \in Drivers : at[f] # at'[d]
      BY <3>1 DEF Begins, holdCore
    <3> QED BY <1>0, <2>1, <3>2 DEF Others
  <2>2. CASE e # d
    <3>1. /\ pc[e] = "create" /\ at'[e] = at[e] /\ at[e] \in Holds /\ at[e] # None
          /\ status[at[e]] = "none" /\ \A f \in Drivers : at[f] = at[e] => f = e
      BY <1>0, <1>2, <1>3, <2>2 DEF Others, CreateInv
    <3>2. status'[at[e]] = "none"
      <4>1. StatusMoves(d, at[e])
        BY <1>1, <3>1
      <4> QED BY <2>2, <3>1, <4>1 DEF StatusMoves
    <3>3. at'[d] # at[e]
      <4>1. CASE at'[d] = at[d] \/ at'[d] = None
        BY <2>2, <3>1, <4>1
      <4>2. CASE Begins(d) /\ at'[d] # None
        BY <3>1, <4>2 DEF Begins
      <4> QED BY <1>0, <4>1, <4>2
    <3> QED BY <1>0, <3>1, <3>2, <3>3 DEF Others
  <2> QED BY <2>1, <2>2
<1>4. ASSUME NEW e \in Drivers, pc'[e] = "chain" PROVE status'[cur'[e]] \in Decisions
  <2>1. CASE e = d
    BY <1>0, <1>4, <2>1
  <2>2. CASE e # d
    <3>1. pc[e] = "chain" /\ cur'[e] = cur[e] /\ cur[e] \in Holds /\ status[cur[e]] \in Decisions
      BY <1>0, <1>2, <1>4, <2>2 DEF Others, CreateInv
    <3>2. StatusMoves(d, cur[e])
      BY <1>1, <3>1
    <3> QED BY <3>1, <3>2 DEF StatusMoves, Decisions
  <2> QED BY <2>1, <2>2
<1> QED BY <1>3, <1>4 DEF CreateInv

\* What the other proofs of this module build on.
CallsOK == TypeOK /\ CallShape /\ CreateInv

\* A step from such a state is the step of one call, or touches none of this.
LEMMA CallsOKStep ==
    ASSUME CallsOK, [Next]_vars
    PROVE  CallsOK' /\ (\/ \E d \in Drivers : Effect(d)
                        \/ UNCHANGED <<holdCore, spendVars, callVars>>)
<1>0. TypeOK /\ CallShape /\ CreateInv
  BY DEF CallsOK
<1>1. CallShape'
  BY <1>0, ShapeStep
<1>2. /\ pin' \in [Holds -> Targets] /\ ttl' \in [Holds -> {"fresh", "lapsed"}]
      /\ observed' \subseteq Holds /\ target' \in Targets /\ rotated' \in BOOLEAN
      /\ calls' \in 0..MaxCalls /\ crashes' \in 0..MaxCrashes
  BY <1>0, SceneTypes
<1>3. ASSUME NEW d \in Drivers, CallTypes', Effect(d) PROVE TypeOK' /\ CreateInv'
  <2>1. /\ status' \in [Holds -> Decisions \cup {"none", "pending"}]
        /\ claim' \subseteq Holds /\ held' \subseteq Holds
        /\ decided' \in [Holds -> Decisions \cup {"none"}]
        /\ mutex' \subseteq Keys /\ spends' \in [Keys -> Seq(SpendEntries)]
        /\ rows' \in Seq(Row) /\ runs' \in [Keys -> Nat]
    BY <1>0, <1>3, CoreTypes
  <2>2. CreateInv'
    BY <1>0, <1>3, CreateStep
  <2> QED BY <1>2, <1>3, <2>1, <2>2 DEF TypeOK, CallTypes
<1>4. CASE UNCHANGED <<holdCore, spendVars, callVars>>
  <2>1. CreateInv'
    BY <1>0, <1>4 DEF CreateInv, holdCore, callVars
  <2>2. TypeOK'
    BY <1>0, <1>2, <1>4 DEF TypeOK, holdCore, spendVars, callVars
  <2> QED BY <1>1, <1>4, <2>1, <2>2 DEF CallsOK
<1> QED BY <1>0, <1>1, <1>3, <1>4, NextEffect DEF CallsOK

\* Everything is in place at the start.
LEMMA CallsOKInit ==
    ASSUME Init PROVE CallsOK
<1>1. TypeOK
  <2>1. CallTypes
    BY HeldAssumption DEF Init, CallTypes, Phases, Results
  <2>2. /\ status \in [Holds -> Decisions \cup {"none", "pending"}]
        /\ decided \in [Holds -> Decisions \cup {"none"}]
        /\ pin \in [Holds -> Targets] /\ ttl \in [Holds -> {"fresh", "lapsed"}] /\ target \in Targets
        /\ claim \subseteq Holds /\ held \subseteq Holds /\ observed \subseteq Holds /\ rotated \in BOOLEAN
    BY DEF Init
  <2>3. /\ mutex \subseteq Keys /\ rows \in Seq(Row) /\ runs \in [Keys -> Nat]
        /\ calls \in 0..MaxCalls /\ crashes \in 0..MaxCrashes
    BY HeldAssumption DEF Init
  <2>4. spends \in [Keys -> Seq(SpendEntries)]
    <3>1. <<>> \in Seq(SpendEntries)
      OBVIOUS
    <3> QED BY <3>1 DEF Init
  <2> QED BY <2>1, <2>2, <2>3, <2>4 DEF TypeOK, CallTypes
<1>2. CallShape /\ CreateInv
  BY DEF Init, CallShape, Shape, ShapeOf, CreateInv, HoldPhases, KeyPhases
<1> QED BY <1>1, <1>2 DEF CallsOK

\* Every variable keeps its type: no call leaves a row, a chain or its own locals
\* in a form the readers do not expect.
THEOREM HeldTypeCorrect == Spec => []TypeOK
<1>1. Init => CallsOK
  BY CallsOKInit
<1>2. CallsOK /\ [Next]_vars => CallsOK'
  BY CallsOKStep
<1>3. CallsOK => TypeOK
  BY DEF CallsOK
<1> QED BY <1>1, <1>2, <1>3, PTL DEF Spec

\* A decision is never overwritten (resolve_pending_action, mark_state_moved).
THEOREM DecidedOnce == Spec => DecisionsAreFinal
<1> DEFINE Final == \A h \in Holds :
                       status'[h] # status[h] =>
                          \/ status[h] = "none" /\ status'[h] = "pending"
                          \/ status[h] = "pending" /\ status'[h] \in Decisions \ {"state_moved"}
                          \/ status[h] = "approved" /\ status'[h] = "state_moved"
<1>1. Init => CallsOK
  BY CallsOKInit
<1>2. CallsOK /\ [Next]_vars => CallsOK'
  BY CallsOKStep
<1>3. CallsOK /\ [Next]_vars => [Final]_vars
  <2> SUFFICES ASSUME CallsOK, [Next]_vars PROVE Final
    OBVIOUS
  <2>1. ASSUME NEW d \in Drivers, Effect(d), NEW h \in Holds PROVE StatusMoves(d, h)
    BY <2>1, StatusStep DEF CallsOK
  <2>2. CASE \E d \in Drivers : Effect(d)
    BY <2>1, <2>2 DEF StatusMoves
  <2>3. CASE UNCHANGED <<holdCore, spendVars, callVars>>
    BY <2>3 DEF holdCore
  <2> QED BY <2>2, <2>3, CallsOKStep
<1> QED BY <1>1, <1>2, <1>3, PTL DEF Spec, DecisionsAreFinal

-----------------------------------------------------------------------------
(* The single use of an authorization.                                      *)

\* A step that leaves the table and the world alone, and whose call holds a row of
\* it only if it held the same one before.
LEMMA MutexKept ==
    ASSUME MutexInv, NEW d \in Drivers, Others(d), UNCHANGED <<mutex, runs>>,
           Holding(pc'[d], got'[d]) =>
               Holding(pc[d], got[d]) /\ key'[d] = key[d] /\ (got'[d] = "ran" <=> got[d] = "ran")
    PROVE  MutexInv'
<1> DEFINE Kept(e) == Holding(pc'[e], got'[e]) =>
                /\ Holding(pc[e], got[e]) /\ key'[e] = key[e] /\ (got'[e] = "ran" <=> got[e] = "ran")
<1>1. ASSUME NEW e \in Drivers PROVE Kept(e)
  BY DEF Others
<1>2. \A e \in Drivers : Kept(e)
  BY <1>1
<1>3. \A e \in Drivers : Holding(pc'[e], got'[e]) => key'[e] \in mutex'
  BY <1>2 DEF MutexInv
<1>4. \A e, f \in Drivers :
          Holding(pc'[e], got'[e]) /\ Holding(pc'[f], got'[f]) /\ key'[e] = key'[f] => e = f
  BY <1>2 DEF MutexInv
<1>5. \A e \in Drivers : Holding(pc'[e], got'[e]) =>
          runs'[key'[e]] = IF got'[e] = "ran" THEN 1 ELSE 0
  BY <1>2 DEF MutexInv
<1>6. \A k \in Keys : runs'[k] \in {0, 1} /\ (runs'[k] = 1 => k \in mutex')
  BY DEF MutexInv
<1> QED BY <1>3, <1>4, <1>5, <1>6 DEF MutexInv

\* The insert decides the race, the delete follows a refusal only, and a run is
\* that of the one holder.
LEMMA MutexStep ==
    ASSUME CallsOK, MutexInv, NEW d \in Drivers, Effect(d)
    PROVE  MutexInv'
<1>0. TypeOK /\ CallShape /\ Shape(d) /\ Others(d)
  BY EffectLocals DEF CallsOK, CallShape
<1>1. CASE Begins(d)
  BY <1>0, <1>1, MutexKept DEF Begins, spendVars
<1>2. CASE Walks(d)
  <2>1. ~ Holding(pc'[d], got'[d]) /\ UNCHANGED <<mutex, runs>>
    BY <1>2 DEF Walks, Ended, Holding, spendVars
  <2> QED BY <1>0, <2>1, MutexKept
<1>3. CASE Creates(d) \/ Binds(d) \/ Decides(d) \/ TakesHold(d) \/ Observes(d) \/ Marks(d)
           \/ Completes(d) \/ Retracts(d) \/ FreesHold(d)
  <2>1. UNCHANGED <<mutex, runs>>
    BY <1>3 DEF Creates, Binds, Decides, TakesHold, Observes, Marks, Completes, Retracts, FreesHold,
                spendVars
  <2>2. ~ Holding(pc'[d], got'[d])
    BY <1>3 DEF Creates, Binds, Decides, TakesHold, Observes, Marks, Completes, Retracts, FreesHold,
                Ended, Goes, Holding
  <2> QED BY <1>0, <2>1, <2>2, MutexKept
<1>4. CASE ChainsDecision(d)
  <2>1. pc[d] = "chain" /\ UNCHANGED <<mutex, runs>>
    BY <1>4 DEF ChainsDecision, spendVars
  <2>2. then[d] = "row" => got[d] = "moved"
    BY <1>0, <2>1 DEF Shape, ShapeOf
  <2>3. ~ Holding(pc'[d], got'[d])
    BY <1>4, <2>2 DEF ChainsDecision, Ended, Goes, Holding
  <2> QED BY <1>0, <2>1, <2>3, MutexKept
<1>5. CASE Spends(d) \/ WritesRow(d) \/ Receipts(d)
  <2>1. UNCHANGED <<mutex, runs>>
    BY <1>5 DEF Spends, WritesRow, Receipts
  <2>2. pc[d] = "spent" => got[d] = "none"
    BY <1>0 DEF Shape, ShapeOf
  <2>3. Holding(pc'[d], got'[d]) =>
            Holding(pc[d], got[d]) /\ key'[d] = key[d] /\ (got'[d] = "ran" <=> got[d] = "ran")
    BY <1>5, <2>2 DEF Spends, WritesRow, Receipts, Ended, Goes, Same, Holding
  <2> QED BY <1>0, <2>1, <2>3, MutexKept
<1>6. CASE TakesKey(d)
  <2>1. /\ key[d] \in Keys /\ key[d] \notin mutex /\ mutex' = mutex \cup {key[d]} /\ runs' = runs
        /\ key'[d] = key[d] /\ got'[d] = "none"
    BY <1>0, <1>6 DEF TakesKey, Goes, Same, Shape, ShapeOf, KeyPhases
  <2>2. \A e \in Drivers : e # d /\ Holding(pc'[e], got'[e]) =>
            /\ Holding(pc[e], got[e]) /\ key'[e] = key[e] /\ got'[e] = got[e] /\ key[e] # key[d]
    BY <1>0, <2>1 DEF Others, MutexInv
  <2>3. runs[key[d]] = 0
    BY <2>1 DEF MutexInv
  <2>4. \A e \in Drivers : Holding(pc'[e], got'[e]) => key'[e] \in mutex'
    BY <2>1, <2>2 DEF MutexInv
  <2>5. \A e, f \in Drivers :
            Holding(pc'[e], got'[e]) /\ Holding(pc'[f], got'[f]) /\ key'[e] = key'[f] => e = f
    BY <2>1, <2>2 DEF MutexInv
  <2>6. \A e \in Drivers : Holding(pc'[e], got'[e]) =>
            runs'[key'[e]] = IF got'[e] = "ran" THEN 1 ELSE 0
    BY <2>1, <2>2, <2>3 DEF MutexInv
  <2>7. \A k \in Keys : runs'[k] \in {0, 1} /\ (runs'[k] = 1 => k \in mutex')
    BY <2>1 DEF MutexInv
  <2> QED BY <2>4, <2>5, <2>6, <2>7 DEF MutexInv
<1>7. CASE RunsIt(d) /\ runs' = [runs EXCEPT ![key[d]] = @ + 1] /\ got'[d] = "ran"
  <2>1. /\ pc[d] = "run" /\ got[d] = "none" /\ key[d] \in Keys /\ mutex' = mutex
        /\ key'[d] = key[d] /\ runs \in [Keys -> Nat]
    BY <1>0, <1>7 DEF RunsIt, Goes, Same, Shape, ShapeOf, KeyPhases, TypeOK
  <2>2. Holding(pc[d], got[d]) /\ key[d] \in mutex /\ runs[key[d]] = 0
    BY <2>1 DEF Holding, MutexInv
  <2>3. \A e \in Drivers : e # d /\ Holding(pc'[e], got'[e]) =>
            /\ Holding(pc[e], got[e]) /\ key'[e] = key[e] /\ got'[e] = got[e] /\ key[e] # key[d]
    BY <1>0, <2>2 DEF Others, MutexInv
  <2>4. \A k \in Keys : runs'[k] = IF k = key[d] THEN 1 ELSE runs[k]
    BY <1>7, <2>1, <2>2
  <2>5. \A e \in Drivers : Holding(pc'[e], got'[e]) => key'[e] \in mutex'
    BY <2>1, <2>2, <2>3 DEF MutexInv
  <2>6. \A e, f \in Drivers :
            Holding(pc'[e], got'[e]) /\ Holding(pc'[f], got'[f]) /\ key'[e] = key'[f] => e = f
    BY <2>1, <2>3 DEF MutexInv
  <2>7. ASSUME NEW e \in Drivers, Holding(pc'[e], got'[e])
        PROVE  runs'[key'[e]] = IF got'[e] = "ran" THEN 1 ELSE 0
    <3>1. CASE e = d
      BY <1>7, <2>1, <2>4, <3>1
    <3>2. CASE e # d
      <4>1. key'[e] = key[e] /\ key[e] # key[d] /\ got'[e] = got[e] /\ Holding(pc[e], got[e])
        BY <2>3, <2>7, <3>2
      <4>2. key[e] \in Keys
        BY <4>1 DEF MutexInv, CallsOK, TypeOK
      <4> QED BY <2>4, <4>1, <4>2 DEF MutexInv
    <3> QED BY <3>1, <3>2
  <2>8. \A k \in Keys : runs'[k] \in {0, 1} /\ (runs'[k] = 1 => k \in mutex')
    BY <2>1, <2>2, <2>4 DEF MutexInv
  <2> QED BY <2>5, <2>6, <2>7, <2>8 DEF MutexInv
<1>8. CASE RunsIt(d) /\ runs' = runs /\ got'[d] = "refused"
  <2>1. Holding(pc[d], got[d]) /\ got[d] = "none" /\ key'[d] = key[d] /\ mutex' = mutex
    BY <1>0, <1>8 DEF RunsIt, Goes, Same, Holding, Shape, ShapeOf
  <2> QED BY <1>0, <1>8, <2>1, MutexKept
<1>9. CASE FreesKey(d)
  <2>1. /\ pc[d] = "release" /\ got[d] = "refused" /\ mutex' = mutex \ {key[d]} /\ runs' = runs
        /\ ~ Holding(pc'[d], got'[d])
    BY <1>0, <1>9 DEF FreesKey, Goes, Holding, Shape, ShapeOf
  <2>2. Holding(pc[d], got[d]) /\ runs[key[d]] = 0
    BY <2>1 DEF Holding, MutexInv
  <2>3. \A e \in Drivers : Holding(pc'[e], got'[e]) =>
            /\ Holding(pc[e], got[e]) /\ key'[e] = key[e] /\ got'[e] = got[e] /\ key[e] # key[d]
    BY <1>0, <2>1, <2>2 DEF Others, MutexInv
  <2>4. \A e \in Drivers : Holding(pc'[e], got'[e]) => key'[e] \in mutex'
    BY <2>1, <2>3 DEF MutexInv
  <2>5. \A e, f \in Drivers :
            Holding(pc'[e], got'[e]) /\ Holding(pc'[f], got'[f]) /\ key'[e] = key'[f] => e = f
    BY <2>3 DEF MutexInv
  <2>6. \A e \in Drivers : Holding(pc'[e], got'[e]) =>
            runs'[key'[e]] = IF got'[e] = "ran" THEN 1 ELSE 0
    BY <2>1, <2>3 DEF MutexInv
  <2>7. \A k \in Keys : runs'[k] \in {0, 1} /\ (runs'[k] = 1 => k \in mutex')
    BY <2>1, <2>2 DEF MutexInv
  <2> QED BY <2>4, <2>5, <2>6, <2>7 DEF MutexInv
<1>10. RunsIt(d) => \/ runs' = [runs EXCEPT ![key[d]] = @ + 1] /\ got'[d] = "ran"
                    \/ runs' = runs /\ got'[d] = "refused"
  BY DEF RunsIt, Goes
<1> QED BY <1>1, <1>2, <1>3, <1>4, <1>5, <1>6, <1>7, <1>8, <1>9, <1>10 DEF Effect

\* An authorization is used at most once, whatever mixture of calls presents it and
\* whatever crashes (claim_authorization): the row of the mutex has one holder, a
\* key that was used keeps its row, and only a refusal gives one back.
THEOREM UsedAtMostOnce == Spec => []RunsAtMostOnce
<1>1. Init => CallsOK /\ MutexInv
  <2>1. ASSUME Init PROVE MutexInv
    BY <2>1 DEF Init, MutexInv, Holding
  <2> QED BY <2>1, CallsOKInit
<1>2. CallsOK /\ MutexInv /\ [Next]_vars => CallsOK' /\ MutexInv'
  <2> SUFFICES ASSUME CallsOK, MutexInv, [Next]_vars PROVE CallsOK' /\ MutexInv'
    OBVIOUS
  <2>1. CASE UNCHANGED <<holdCore, spendVars, callVars>>
    BY <2>1, CallsOKStep DEF MutexInv, spendVars, callVars
  <2> QED BY <2>1, CallsOKStep, MutexStep
<1>3. CallsOK /\ MutexInv => RunsAtMostOnce
  BY DEF MutexInv, RunsAtMostOnce
<1> QED BY <1>1, <1>2, <1>3, PTL DEF Spec

-----------------------------------------------------------------------------
(* The truth of the spend state.                                            *)

\* The table of executions only grows, and a row of it only gains its receipt.
RowsGrow ==
    \A n \in DOMAIN rows :
        /\ n \in DOMAIN rows'
        /\ rows'[n].key = rows[n].key /\ rows'[n].hold = rows[n].hold
        /\ rows'[n].executed <=> rows[n].executed
        /\ rows[n].receipt => rows'[n].receipt

\* No step rewrites an execution row.
LEMMA RowsStep ==
    ASSUME TypeOK, NEW d \in Drivers, Effect(d)
    PROVE  RowsGrow
<1>0. rows \in Seq(Row)
  BY DEF TypeOK
<1>1. CASE rows' = rows
  BY <1>1 DEF RowsGrow
<1>2. CASE WritesRow(d)
  <2>1. PICK r : rows' = Append(rows, r)
    BY <1>2 DEF WritesRow
  <2>2. \A n \in DOMAIN rows : n \in DOMAIN rows' /\ rows'[n] = rows[n]
    BY <1>0, <2>1
  <2> QED BY <2>2 DEF RowsGrow
<1>3. CASE Receipts(d)
  <2>1. rows' = Receipted(rows, own[d])
    BY <1>3 DEF Receipts, Receipted
  <2> QED BY <1>0, <2>1, ReceiptRow DEF RowsGrow
<1> QED BY <1>1, <1>2, <1>3
        DEF Effect, Begins, Walks, Creates, Binds, Decides, ChainsDecision, TakesHold, Observes, Marks,
            TakesKey, Spends, RunsIt, Completes, FreesKey, Retracts, FreesHold, spendVars

\* A call keeps track of the row it wrote.
LEMMA OwnRowStep ==
    ASSUME CallsOK, OwnRow, NEW d \in Drivers, Effect(d)
    PROVE  OwnRow'
<1>0. TypeOK /\ CallShape /\ Others(d) /\ RowsGrow /\ rows \in Seq(Row)
  BY EffectLocals, RowsStep DEF CallsOK, TypeOK
<1> DEFINE Owns(e) == pc'[e] \in {"receipt", "complete"} =>
               /\ own'[e] \in DOMAIN rows'
               /\ rows'[own'[e]].key = key'[e]
               /\ got'[e] = "ran" => rows'[own'[e]].executed
               /\ pc'[e] = "complete" => rows'[own'[e]].receipt
<1>1. ASSUME NEW e \in Drivers, e # d PROVE Owns(e)
  BY <1>0, <1>1 DEF Others, OwnRow, RowsGrow
<1>2. Owns(d)
  <2>1. CASE pc'[d] \notin {"receipt", "complete"}
    BY <2>1
  <2>2. CASE WritesRow(d)
    <3>1. PICK r : r = [hold |-> at[d], key |-> key[d], executed |-> got[d] = "ran", receipt |-> FALSE]
      OBVIOUS
    <3>2. rows' = Append(rows, r) /\ own'[d] = Len(rows) + 1 /\ key'[d] = key[d] /\ got'[d] = got[d]
          /\ pc'[d] = "receipt"
      BY <2>2, <3>1 DEF WritesRow, Goes, Same
    <3>3. own'[d] \in DOMAIN rows' /\ rows'[own'[d]] = r
      BY <1>0, <3>2
    <3>4. r.key = key[d] /\ (got[d] = "ran" => r.executed)
      BY <3>1
    <3> QED BY <3>2, <3>3, <3>4
  <2>3. CASE Receipts(d) /\ Goes(d, "complete", then[d], "ran")
    <3>1. rows' = Receipted(rows, own[d]) /\ pc[d] = "receipt"
      BY <2>3 DEF Receipts, Receipted
    <3>2. own'[d] = own[d] /\ got[d] = "ran" /\ got'[d] = "ran" /\ key'[d] = key[d]
      BY <2>3 DEF Receipts, Goes, Same, Ended
    <3>3. own[d] \in DOMAIN rows /\ rows[own[d]].key = key[d] /\ rows[own[d]].executed
      BY <3>1, <3>2 DEF OwnRow
    <3>4. rows'[own[d]].receipt
      BY <1>0, <3>1, <3>3, ReceiptRow
    <3> QED BY <1>0, <3>2, <3>3, <3>4 DEF RowsGrow
  <2>4. CASE Begins(d) \/ Walks(d) \/ Creates(d) \/ Binds(d) \/ Decides(d) \/ ChainsDecision(d)
             \/ TakesHold(d) \/ Observes(d) \/ Marks(d)
    <3>1. pc'[d] \notin {"receipt", "complete"}
      BY <2>4 DEF Begins, Walks, Creates, Binds, Decides, ChainsDecision, TakesHold, Observes, Marks,
                  Ended, Goes
    <3> QED BY <3>1
  <2>5. CASE TakesKey(d) \/ Spends(d) \/ RunsIt(d) \/ Completes(d) \/ FreesKey(d) \/ Retracts(d)
             \/ FreesHold(d)
    <3>1. pc'[d] \notin {"receipt", "complete"}
      BY <2>5 DEF TakesKey, Spends, RunsIt, Completes, FreesKey, Retracts, FreesHold, Ended, Goes
    <3> QED BY <3>1
  <2>6. Receipts(d) => pc'[d] \notin {"receipt", "complete"} \/ Goes(d, "complete", then[d], "ran")
    BY DEF Receipts, Ended, Goes
  <2> HIDE DEF Owns
  <2> QED BY <2>1, <2>2, <2>3, <2>4, <2>5, <2>6 DEF Effect
<1> QED BY <1>1, <1>2 DEF OwnRow

\* An entry for one key is one step of the fold of that key, and of no other.
LEMMA AppendFolds ==
    ASSUME TypeOK, NEW k \in Keys, NEW e \in SpendEntries, AppendSpend(k, e)
    PROVE  \A j \in Keys : SpendState(spends'[j]) =
               IF j = k THEN Fold(SpendState(spends[j]), e) ELSE SpendState(spends[j])
<1>1. spends \in [Keys -> Seq(SpendEntries)] /\ spends[k] \in Seq(SpendEntries)
  BY DEF TypeOK
<1>2. spends'[k] = Append(spends[k], e) /\ \A j \in Keys : j # k => spends'[j] = spends[j]
  BY <1>1 DEF AppendSpend
<1>3. SpendState(spends'[k]) = Fold(SpendState(spends[k]), e)
  BY <1>1, <1>2, SpendStateAppend
<1> QED BY <1>2, <1>3

\* What the chain says of key k after a step.
StAfter(k) == SpendState(spends'[k]).status

\* A step that adds nothing to a record, runs nothing and whose call has an
\* unsettled spend only if it had it before.
LEMMA ChainKept ==
    ASSUME ChainInv, NEW d \in Drivers, Others(d), UNCHANGED <<spends, runs>>, RowsGrow,
           Chained(pc'[d], got'[d]) => Chained(pc[d], got[d]) /\ key'[d] = key[d],
           pc'[d] = "retract" => runs[key[d]] = 0
    PROVE  ChainInv'
<1>1. \A e \in Drivers : Chained(pc'[e], got'[e]) => Chained(pc[e], got[e]) /\ key'[e] = key[e]
  <2>1. ASSUME NEW e \in Drivers, e # d
        PROVE  Chained(pc'[e], got'[e]) => Chained(pc[e], got[e]) /\ key'[e] = key[e]
    BY <2>1 DEF Others
  <2> QED BY <2>1
<1>2. \A e \in Drivers : pc'[e] = "retract" =>
          (pc[e] = "retract" /\ key'[e] = key[e]) \/ runs[key'[e]] = 0
  BY <1>1 DEF Others, Chained
<1>3. \A k : StAfter(k) = St(k) /\ SpendState(spends'[k]) = SpendState(spends[k])
  BY DEF St, StAfter
<1>4. \A e \in Drivers : Chained(pc'[e], got'[e]) => StAfter(key'[e]) \in {"spent", "malformed"}
  BY <1>1, <1>3 DEF ChainInv
<1>5. \A e, f \in Drivers :
          /\ Chained(pc'[e], got'[e]) /\ Chained(pc'[f], got'[f]) /\ key'[e] = key'[f] /\ e # f
          => StAfter(key'[e]) = "malformed"
  BY <1>1, <1>3 DEF ChainInv
<1>6. \A k \in Keys : runs'[k] = 1 => StAfter(k) \in {"spent", "completed", "malformed"}
  BY <1>3 DEF ChainInv
<1>7. \A e \in Drivers : pc'[e] = "retract" /\ runs'[key'[e]] = 1 => StAfter(key'[e]) = "malformed"
  BY <1>2, <1>3 DEF ChainInv
<1>8. \A k \in Keys : StAfter(k) = "completed" =>
          LET n == SpendState(spends'[k]).row
          IN  /\ runs'[k] = 1
              /\ n \in DOMAIN rows'
              /\ rows'[n].key = k /\ rows'[n].executed /\ rows'[n].receipt
  BY <1>3 DEF ChainInv, RowsGrow
<1> QED BY <1>4, <1>5, <1>6, <1>7, <1>8 DEF ChainInv, St, StAfter

\* Each step keeps what the chain says of a key true.
LEMMA ChainStep ==
    ASSUME CallsOK, MutexInv, OwnRow, ChainInv, NEW d \in Drivers, Effect(d)
    PROVE  ChainInv'
<1>0. TypeOK /\ CallShape /\ Shape(d) /\ Others(d) /\ RowsGrow
  BY EffectLocals, RowsStep DEF CallsOK, CallShape
<1>1. CASE Begins(d)
  <2>1. UNCHANGED <<spends, runs>> /\ ~ Chained(pc'[d], got'[d])
    BY <1>1 DEF Begins, spendVars
  <2> QED BY <1>0, <2>1, ChainKept DEF Chained
<1>2. CASE Walks(d)
  <2>1. UNCHANGED <<spends, runs>> /\ ~ Chained(pc'[d], got'[d])
    BY <1>2 DEF Walks, Ended, Chained, spendVars
  <2> QED BY <1>0, <2>1, ChainKept DEF Chained
<1>3. CASE Creates(d) \/ Binds(d) \/ Decides(d) \/ ChainsDecision(d) \/ TakesHold(d) \/ Observes(d)
           \/ Marks(d) \/ TakesKey(d) \/ FreesHold(d)
  <2>1. UNCHANGED <<spends, runs>>
    BY <1>3 DEF Creates, Binds, Decides, ChainsDecision, TakesHold, Observes, Marks, TakesKey,
                FreesHold, spendVars
  <2>2. pc[d] = "chain" /\ then[d] = "row" => got[d] = "moved"
    BY <1>0 DEF Shape, ShapeOf
  <2>3. ~ Chained(pc'[d], got'[d])
    BY <1>3, <2>2 DEF Creates, Binds, Decides, ChainsDecision, TakesHold, Observes, Marks, TakesKey,
                      FreesHold, Ended, Goes, Chained
  <2> QED BY <1>0, <2>1, <2>3, ChainKept DEF Chained
<1>4. CASE WritesRow(d) \/ Receipts(d)
  <2>1. UNCHANGED <<spends, runs>>
    BY <1>4 DEF WritesRow, Receipts
  <2>2. pc'[d] # "retract" /\
        (Chained(pc'[d], got'[d]) => Chained(pc[d], got[d]) /\ key'[d] = key[d])
    BY <1>4 DEF WritesRow, Receipts, Ended, Goes, Same, Chained
  <2> QED BY <1>0, <2>1, <2>2, ChainKept
<1>5. CASE FreesKey(d)
  <2>1. /\ UNCHANGED <<spends, runs>> /\ key'[d] = key[d] /\ pc[d] = "release" /\ got[d] = "refused"
        /\ Chained(pc[d], got[d]) /\ Holding(pc[d], got[d])
    BY <1>0, <1>5 DEF FreesKey, Goes, Same, Chained, Holding, Shape, ShapeOf
  <2>2. runs[key[d]] = 0
    BY <2>1 DEF MutexInv
  <2> QED BY <1>0, <2>1, <2>2, ChainKept
<1>6. CASE RunsIt(d) /\ runs' = runs
  <2>1. /\ spends' = spends /\ pc'[d] = "row" /\ key'[d] = key[d] /\ Chained(pc[d], got[d])
    BY <1>6 DEF RunsIt, Goes, Same, Chained
  <2> QED BY <1>0, <1>6, <2>1, ChainKept
<1>7. CASE RunsIt(d) /\ runs' = [runs EXCEPT ![key[d]] = @ + 1]
  <2>1. /\ pc[d] = "run" /\ got[d] = "none" /\ key[d] \in Keys /\ UNCHANGED <<spends, rows>>
        /\ pc'[d] = "row" /\ key'[d] = key[d] /\ runs \in [Keys -> Nat]
    BY <1>0, <1>7 DEF RunsIt, Goes, Same, Shape, ShapeOf, KeyPhases, TypeOK
  <2>2. Chained(pc[d], got[d]) /\ St(key[d]) \in {"spent", "malformed"}
    BY <2>1 DEF Chained, ChainInv
  <2>3. \A e \in Drivers : Chained(pc'[e], got'[e]) => Chained(pc[e], got[e]) /\ key'[e] = key[e]
    BY <1>0, <2>1, <2>2 DEF Others
  <2>4. \A k : StAfter(k) = St(k) /\ SpendState(spends'[k]) = SpendState(spends[k])
    BY <2>1 DEF St, StAfter
  <2>5. \A k \in Keys : k # key[d] => runs'[k] = runs[k]
    BY <1>7, <2>1
  <2>6. \A e \in Drivers : Chained(pc'[e], got'[e]) => StAfter(key'[e]) \in {"spent", "malformed"}
    BY <2>3, <2>4 DEF ChainInv
  <2>7. \A e, f \in Drivers :
            /\ Chained(pc'[e], got'[e]) /\ Chained(pc'[f], got'[f]) /\ key'[e] = key'[f] /\ e # f
            => StAfter(key'[e]) = "malformed"
    BY <2>3, <2>4 DEF ChainInv
  <2>8. \A k \in Keys : runs'[k] = 1 => StAfter(k) \in {"spent", "completed", "malformed"}
    BY <2>2, <2>4, <2>5 DEF ChainInv
  <2>9. ASSUME NEW e \in Drivers, pc'[e] = "retract", runs'[key'[e]] = 1
        PROVE  StAfter(key'[e]) = "malformed"
    <3>1. e # d /\ pc[e] = "retract" /\ key'[e] = key[e] /\ Chained(pc[e], got[e])
      BY <1>0, <2>1, <2>9 DEF Others, Chained
    <3>2. key[e] \in Keys
      BY <1>0, <3>1 DEF CallShape, Shape, ShapeOf, KeyPhases
    <3>3. CASE key[e] = key[d]
      BY <2>2, <2>4, <3>1, <3>3 DEF ChainInv
    <3>4. CASE key[e] # key[d]
      BY <2>4, <2>5, <2>9, <3>1, <3>2, <3>4 DEF ChainInv
    <3> QED BY <3>3, <3>4
  <2>10. \A k \in Keys : StAfter(k) = "completed" =>
            LET n == SpendState(spends'[k]).row
            IN  /\ runs'[k] = 1
                /\ n \in DOMAIN rows'
                /\ rows'[n].key = k /\ rows'[n].executed /\ rows'[n].receipt
    BY <2>1, <2>2, <2>4, <2>5 DEF ChainInv
  <2> QED BY <2>6, <2>7, <2>8, <2>9, <2>10 DEF ChainInv, St, StAfter
<1>8. CASE Spends(d) \/ Completes(d) \/ Retracts(d)
  <2>0. /\ key[d] \in Keys /\ UNCHANGED <<runs, rows>>
        /\ idem[d] \in IdemKeys /\ own[d] \in Nat /\ None \in IdemKeys
    BY <1>0, <1>8, HeldAssumption DEF Spends, Completes, Retracts, Shape, ShapeOf, KeyPhases, TypeOK
  <2> DEFINE Event == CASE pc[d] = "spent"    -> "spent"
                        [] pc[d] = "complete" -> "completed"
                        [] OTHER              -> "released"
  \* The state of the key after the entry.
  <2>1. /\ \A k \in Keys : k # key[d] => StAfter(k) = St(k) /\ SpendState(spends'[k]) = SpendState(spends[k])
        /\ StAfter(key[d]) = IF St(key[d]) \in (IF pc[d] = "spent" THEN {"unspent", "released"} ELSE {"spent"})
                         THEN Event ELSE "malformed"
        /\ pc[d] = "complete" /\ St(key[d]) = "spent" => SpendState(spends'[key[d]]).row = own[d]
    <3>1. CASE Spends(d)
      <4>1. SpendEntry(idem[d]) \in SpendEntries /\ AppendSpend(key[d], SpendEntry(idem[d])) /\ pc[d] = "spent"
        BY <2>0, <3>1 DEF Spends, SpendEntry, SpendEntries
      <4>2. \A j \in Keys : SpendState(spends'[j]) =
                IF j = key[d] THEN Fold(SpendState(spends[j]), SpendEntry(idem[d])) ELSE SpendState(spends[j])
        BY <1>0, <2>0, <4>1, AppendFolds
      <4> QED BY <2>0, <4>1, <4>2, FoldStatus DEF St, StAfter
    <3>2. CASE Completes(d)
      <4>1. CompletedEntry(own[d]) \in SpendEntries /\ AppendSpend(key[d], CompletedEntry(own[d])) /\ pc[d] = "complete"
        BY <2>0, <3>2 DEF Completes, CompletedEntry, SpendEntries
      <4>2. \A j \in Keys : SpendState(spends'[j]) =
                IF j = key[d] THEN Fold(SpendState(spends[j]), CompletedEntry(own[d])) ELSE SpendState(spends[j])
        BY <1>0, <2>0, <4>1, AppendFolds
      <4> QED BY <2>0, <4>1, <4>2, FoldStatus DEF St, StAfter
    <3>3. CASE Retracts(d)
      <4>1. ReleaseEntry \in SpendEntries /\ AppendSpend(key[d], ReleaseEntry) /\ pc[d] = "retract"
        BY <2>0, <3>3 DEF Retracts, ReleaseEntry, SpendEntries
      <4>2. \A j \in Keys : SpendState(spends'[j]) =
                IF j = key[d] THEN Fold(SpendState(spends[j]), ReleaseEntry) ELSE SpendState(spends[j])
        BY <1>0, <2>0, <4>1, AppendFolds
      <4> QED BY <2>0, <4>1, <4>2, FoldStatus DEF St, StAfter
    <3> QED BY <1>8, <3>1, <3>2, <3>3
  \* Where the call stands before and after it.
  <2>2. /\ pc[d] \in {"spent", "complete", "retract"} /\ pc'[d] # "retract"
        /\ pc[d] # "spent" => Chained(pc[d], got[d]) /\ ~ Chained(pc'[d], got'[d])
        /\ pc[d] = "spent" => key'[d] = key[d]
        /\ pc[d] = "complete" => Holding(pc[d], got[d]) /\ got[d] = "ran"
    BY <1>0, <1>8 DEF Spends, Completes, Retracts, Ended, Goes, Same, Chained, Holding, Shape, ShapeOf
  <2>3. \A e \in Drivers : e # d => /\ Chained(pc'[e], got'[e]) <=> Chained(pc[e], got[e])
                                    /\ key'[e] = key[e] /\ pc'[e] = pc[e]
    BY <1>0 DEF Others
  \* Another unsettled spend of the same key leaves a record that does not fold.
  <2>4. ASSUME NEW e \in Drivers, e # d, Chained(pc[e], got[e]), key[e] = key[d]
        PROVE  StAfter(key[d]) = "malformed"
    BY <2>0, <2>1, <2>2, <2>4 DEF ChainInv
  <2>5. \A e \in Drivers : Chained(pc[e], got[e]) => key[e] \in Keys
    BY <1>0 DEF CallShape, Shape, ShapeOf, Chained, KeyPhases
  <2>6. ASSUME NEW e \in Drivers, Chained(pc'[e], got'[e]) PROVE StAfter(key'[e]) \in {"spent", "malformed"}
    <3>1. CASE e = d
      <4>1. pc[d] = "spent" /\ key'[d] = key[d]
        BY <2>2, <2>6, <3>1
      <4> QED BY <2>1, <3>1, <4>1
    <3>2. CASE e # d /\ key[e] = key[d]
      BY <2>3, <2>4, <2>6, <3>2
    <3>3. CASE e # d /\ key[e] # key[d]
      BY <2>1, <2>3, <2>5, <2>6, <3>3 DEF ChainInv
    <3> QED BY <3>1, <3>2, <3>3
  <2>7. ASSUME NEW e \in Drivers, NEW f \in Drivers, e # f,
               Chained(pc'[e], got'[e]), Chained(pc'[f], got'[f]), key'[e] = key'[f]
        PROVE  StAfter(key'[e]) = "malformed"
    <3>1. CASE e = d
      <4>1. key'[d] = key[d]
        BY <2>2, <2>7, <3>1
      <4> QED BY <2>3, <2>4, <2>7, <3>1, <4>1
    <3>2. CASE f = d
      <4>1. key'[d] = key[d]
        BY <2>2, <2>7, <3>2
      <4> QED BY <2>3, <2>4, <2>7, <3>2, <4>1
    <3>3. CASE e # d /\ f # d /\ key[e] = key[d]
      BY <2>3, <2>4, <2>7, <3>3
    <3>4. CASE e # d /\ f # d /\ key[e] # key[d]
      BY <2>1, <2>3, <2>5, <2>7, <3>4 DEF ChainInv
    <3> QED BY <3>1, <3>2, <3>3, <3>4
  <2>8. ASSUME NEW k \in Keys, runs'[k] = 1 PROVE StAfter(k) \in {"spent", "completed", "malformed"}
    <3>1. CASE k # key[d]
      BY <2>0, <2>1, <2>8, <3>1 DEF ChainInv
    <3>2. CASE k = key[d]
      <4>1. pc[d] = "retract" => St(k) = "malformed"
        BY <2>0, <2>8, <3>2 DEF ChainInv
      <4> QED BY <2>1, <2>2, <3>2, <4>1
    <3> QED BY <3>1, <3>2
  <2>9. ASSUME NEW e \in Drivers, pc'[e] = "retract", runs'[key'[e]] = 1 PROVE StAfter(key'[e]) = "malformed"
    <3>1. e # d /\ pc[e] = "retract" /\ key'[e] = key[e] /\ Chained(pc[e], got[e]) /\ key[e] \in Keys
      BY <2>2, <2>3, <2>5, <2>9 DEF Chained
    <3>2. CASE key[e] = key[d]
      BY <2>4, <3>1, <3>2
    <3>3. CASE key[e] # key[d]
      BY <2>0, <2>1, <2>9, <3>1, <3>3 DEF ChainInv
    <3> QED BY <3>2, <3>3
  <2>10. ASSUME NEW k \in Keys, StAfter(k) = "completed"
         PROVE  LET n == SpendState(spends'[k]).row
                IN  /\ runs'[k] = 1
                    /\ n \in DOMAIN rows'
                    /\ rows'[n].key = k /\ rows'[n].executed /\ rows'[n].receipt
    <3>1. CASE k # key[d]
      BY <2>0, <2>1, <2>10, <3>1 DEF ChainInv
    <3>2. CASE k = key[d]
      <4>1. pc[d] = "complete" /\ St(k) = "spent" /\ SpendState(spends'[k]).row = own[d]
        BY <2>1, <2>2, <2>10, <3>2
      <4>2. runs[k] = 1
        BY <2>2, <3>2, <4>1 DEF MutexInv
      <4>3. own[d] \in DOMAIN rows /\ rows[own[d]].key = k /\ rows[own[d]].executed /\ rows[own[d]].receipt
        BY <2>2, <3>2, <4>1 DEF OwnRow
      <4> QED BY <2>0, <4>1, <4>2, <4>3
    <3> QED BY <3>1, <3>2
  <2> QED BY <2>6, <2>7, <2>8, <2>9, <2>10 DEF ChainInv, St, StAfter
<1>9. RunsIt(d) => runs' = runs \/ runs' = [runs EXCEPT ![key[d]] = @ + 1]
  BY DEF RunsIt
<1> QED BY <1>1, <1>2, <1>3, <1>4, <1>5, <1>6, <1>7, <1>8, <1>9 DEF Effect

\* The fold of the chain is right about the world: a record that reads unused has
\* not run, and one that reads completed names the receipted row of its one run
\* (spend_state, complete_authorization, release_authorization).
THEOREM ChainTellsTheTruth == Spec => []SpendStateTruthful
<1> DEFINE I == CallsOK /\ MutexInv /\ OwnRow /\ ChainInv
<1>1. Init => I
  <2> SUFFICES ASSUME Init PROVE I
    OBVIOUS
  <2>1. \A k \in Keys : St(k) = "unspent"
    BY SpendStateEmpty DEF Init, St, Unspent
  <2>2. ChainInv
    BY <2>1 DEF Init, ChainInv, Chained
  <2>3. MutexInv /\ OwnRow
    BY DEF Init, MutexInv, OwnRow, Holding
  <2> QED BY <2>2, <2>3, CallsOKInit
<1>2. I /\ [Next]_vars => I'
  <2> SUFFICES ASSUME CallsOK, MutexInv, OwnRow, ChainInv, [Next]_vars PROVE I'
    OBVIOUS
  <2>1. CASE UNCHANGED <<holdCore, spendVars, callVars>>
    <3>1. MutexInv' /\ OwnRow'
      BY <2>1 DEF MutexInv, OwnRow, spendVars, callVars
    <3>2. ChainInv'
      BY <2>1 DEF ChainInv, St, spendVars, callVars
    <3> QED BY <3>1, <3>2, CallsOKStep
  <2>2. ASSUME NEW d \in Drivers, Effect(d) PROVE MutexInv' /\ OwnRow' /\ ChainInv'
    BY <2>2, MutexStep, OwnRowStep, ChainStep
  <2> QED BY <2>1, <2>2, CallsOKStep
<1>3. I => SpendStateTruthful
  BY DEF MutexInv, ChainInv, St, SpendStateTruthful
<1> QED BY <1>1, <1>2, <1>3, PTL DEF Spec

-----------------------------------------------------------------------------
(* The approval behind an execution.                                        *)

ApprovalInv == Claims /\ Approvals /\ Executions

\* The holds with an executed row after a step.
ExecutedAfter(h) == \E n \in DOMAIN rows' : rows'[n].hold = h /\ rows'[n].executed

\* Only the row of a run makes a hold executed.
LEMMA ExecutedStep ==
    ASSUME TypeOK, NEW d \in Drivers, Effect(d), NEW h \in Holds, ExecutedAfter(h)
    PROVE  ExecutedUnder(h) \/ (WritesRow(d) /\ got[d] = "ran" /\ h = at[d])
<1>0. rows \in Seq(Row)
  BY DEF TypeOK
<1>1. CASE rows' = rows
  BY <1>1 DEF ExecutedAfter, ExecutedUnder
<1>2. CASE WritesRow(d)
  <2>1. PICK r : r = [hold |-> at[d], key |-> key[d], executed |-> got[d] = "ran", receipt |-> FALSE]
    OBVIOUS
  <2>2. rows' = Append(rows, r)
    BY <1>2, <2>1 DEF WritesRow
  <2>3. \A n \in DOMAIN rows' : (n \in DOMAIN rows /\ rows'[n] = rows[n]) \/ rows'[n] = r
    BY <1>0, <2>2
  <2>4. r.hold = at[d] /\ (r.executed => got[d] = "ran")
    BY <2>1
  <2> QED BY <1>2, <2>3, <2>4 DEF ExecutedAfter, ExecutedUnder
<1>3. CASE Receipts(d)
  <2>1. rows' = Receipted(rows, own[d])
    BY <1>3 DEF Receipts, Receipted
  <2>2. DOMAIN rows' = DOMAIN rows
        /\ \A n \in DOMAIN rows : rows'[n].hold = rows[n].hold /\ rows'[n].executed = rows[n].executed
    BY <1>0, <2>1, ReceiptRow
  <2> QED BY <2>2 DEF ExecutedAfter, ExecutedUnder
<1> QED BY <1>1, <1>2, <1>3
        DEF Effect, Begins, Walks, Creates, Binds, Decides, ChainsDecision, TakesHold, Observes, Marks,
            TakesKey, Spends, RunsIt, Completes, FreesKey, Retracts, FreesHold, spendVars

\* Until its row is written, the hold of a call that has claimed it and does not
\* know better is approved and unexecuted.
LEMMA CleanClaim ==
    ASSUME CallsOK, ApprovalInv, NEW d \in Drivers, at[d] # None,
           Claiming(pc[d], then[d], got[d]), got[d] # "moved"
    PROVE  /\ at[d] \in Holds /\ at[d] \in claim /\ status[at[d]] = "approved"
           /\ (pc[d] \in {"receipt", "complete"} /\ got[d] = "ran") \/ ~ ExecutedUnder(at[d])
<1>1. at[d] \in Holds
  BY DEF CallsOK, TypeOK
<1>2. PastApproval(pc[d], then[d], got[d])
  BY DEF PastApproval
<1>3. status[at[d]] \in {"approved", "state_moved"} /\ status[at[d]] # "state_moved" /\ at[d] \in claim
  BY <1>1, <1>2 DEF ApprovalInv, Approvals, Claims
<1>4. ExecutedUnder(at[d]) => pc[d] \in {"receipt", "complete"} /\ got[d] = "ran"
  BY <1>1 DEF ApprovalInv, Executions
<1> QED BY <1>1, <1>3, <1>4

\* What the other calls know stays as it was when the step is not about the holds.
LEMMA ApprovalKept ==
    ASSUME CallsOK, ApprovalInv, NEW d \in Drivers, Others(d), UNCHANGED holdCore,
           \A h \in Holds : ExecutedAfter(h) => ExecutedUnder(h),
           at'[d] # None /\ Claiming(pc'[d], then'[d], got'[d]) =>
               /\ at'[d] = at[d] /\ Claiming(pc[d], then[d], got[d])
               /\ status[at[d]] = "state_moved" => got'[d] = "moved"
               /\ ExecutedUnder(at[d]) => pc'[d] \in {"receipt", "complete"} /\ got'[d] = "ran",
           at'[d] # None /\ PastApproval(pc'[d], then'[d], got'[d]) =>
               \/ at'[d] = at[d] /\ PastApproval(pc[d], then[d], got[d])
               \/ status[at'[d]] = "approved",
           at'[d] # None /\ Going(pc'[d], got'[d]) => at'[d] \in held /\ decided[at'[d]] = "approved"
    PROVE  ApprovalInv'
<1>0. UNCHANGED <<status, claim, held, decided>>
  BY DEF holdCore
<1>1. \A e \in Drivers : e # d => /\ pc'[e] = pc[e] /\ then'[e] = then[e] /\ got'[e] = got[e]
                                  /\ at'[e] = at[e]
  BY DEF Others
<1>2. \A e \in Drivers : at'[e] # None /\ Claiming(pc'[e], then'[e], got'[e]) =>
          at'[e] = at[e] /\ Claiming(pc[e], then[e], got[e])
  BY <1>1
<1>3. Claims'
  BY <1>0, <1>2 DEF ApprovalInv, Claims
<1>4. \A e \in Drivers : at'[e] # None /\ PastApproval(pc'[e], then'[e], got'[e]) =>
          status'[at'[e]] \in {"approved", "state_moved"}
  BY <1>0, <1>1 DEF ApprovalInv, Approvals
<1>5. \A h \in Holds : h # None
  BY HeldAssumption
<1>6. ASSUME NEW h \in Holds, status'[h] = "state_moved"
      PROVE  /\ h \in claim'
             /\ \A e \in Drivers : at'[e] = h /\ Claiming(pc'[e], then'[e], got'[e]) => got'[e] = "moved"
  BY <1>0, <1>1, <1>5, <1>6 DEF ApprovalInv, Approvals
<1>7. Approvals'
  BY <1>4, <1>6 DEF Approvals
<1>8. \A e \in Drivers : at'[e] # None /\ Going(pc'[e], got'[e]) =>
          at'[e] \in held' /\ decided'[at'[e]] = "approved"
  BY <1>0, <1>1 DEF ApprovalInv, Executions
<1>9. ASSUME NEW h \in Holds, ExecutedAfter(h)
      PROVE  /\ h \in claim' /\ h \in held' /\ status'[h] = "approved" /\ decided'[h] = "approved"
             /\ \A e \in Drivers : at'[e] = h /\ Claiming(pc'[e], then'[e], got'[e]) =>
                   pc'[e] \in {"receipt", "complete"} /\ got'[e] = "ran"
  BY <1>0, <1>1, <1>5, <1>9 DEF ApprovalInv, Executions
<1>10. Executions'
  BY <1>8, <1>9 DEF Executions, ExecutedUnder, ExecutedAfter
<1> QED BY <1>3, <1>7, <1>10 DEF ApprovalInv

\* Steps on the way, and the steps of a call that has claimed its hold.
LEMMA ApprovalCallStep ==
    ASSUME CallsOK, ApprovalInv, NEW d \in Drivers, Effect(d),
           \/ Begins(d) \/ Walks(d) \/ Observes(d) \/ TakesKey(d) \/ Spends(d) \/ RunsIt(d) \/ Receipts(d)
           \/ Completes(d) \/ FreesKey(d) \/ Retracts(d)
           \/ WritesRow(d) /\ (got[d] # "ran" \/ at[d] = None)
    PROVE  ApprovalInv'
<1>0. TypeOK /\ CallShape /\ Shape(d) /\ Others(d)
  BY EffectLocals DEF CallsOK, CallShape
<1>1. UNCHANGED holdCore
  BY DEF Begins, Walks, Observes, TakesKey, Spends, RunsIt, Receipts, Completes, FreesKey, Retracts,
         WritesRow
<1>2. \A h \in Holds : ExecutedAfter(h) => ExecutedUnder(h)
  <2>1. ASSUME NEW h \in Holds, ExecutedAfter(h) PROVE ExecutedUnder(h)
    <3>1. ExecutedUnder(h) \/ (WritesRow(d) /\ got[d] = "ran" /\ h = at[d])
      BY <1>0, <2>1, ExecutedStep
    <3>2. WritesRow(d) => got[d] # "ran" \/ at[d] = None
      BY DEF Begins, Walks, Observes, TakesKey, Spends, RunsIt, Receipts, Completes, FreesKey, Retracts,
             WritesRow, Ended, Goes
    <3> QED BY <3>1, <3>2, HeldAssumption
  <2> QED BY <2>1
<1>3. CASE Begins(d)
  <2>1. at'[d] # None => ~ Claiming(pc'[d], then'[d], got'[d])
                         /\ ~ PastApproval(pc'[d], then'[d], got'[d]) /\ ~ Going(pc'[d], got'[d])
    BY <1>3 DEF Begins, PastApproval
  <2> QED BY <1>0, <1>1, <1>2, <2>1, ApprovalKept
<1>4. CASE Walks(d)
  <2>1. at'[d] # None => /\ at'[d] = at[d] /\ ~ Claiming(pc'[d], then'[d], got'[d])
                         /\ ~ Going(pc'[d], got'[d])
                         /\ PastApproval(pc'[d], then'[d], got'[d]) =>
                                \/ PastApproval(pc[d], then[d], got[d])
                                \/ status[at[d]] = "approved"
    BY <1>4 DEF Walks, Ended, Same
  <2> QED BY <1>0, <1>1, <1>2, <2>1, ApprovalKept
<1>5. CASE Ended(d)
  BY <1>0, <1>1, <1>2, <1>5, ApprovalKept DEF Ended
\* A call that holds the claim and goes on.
<1>6. ASSUME Same(d), at[d] # None => Claiming(pc[d], then[d], got[d]), got[d] # "moved",
             got[d] = "ran" => pc'[d] \in {"receipt", "complete"} /\ got'[d] = "ran",
             at[d] # None /\ Going(pc'[d], got'[d]) => at[d] \in held /\ decided[at[d]] = "approved"
      PROVE  ApprovalInv'
  <2>1. at'[d] = at[d]
    BY <1>6 DEF Same
  <2>2. at[d] # None => /\ status[at[d]] = "approved" /\ Claiming(pc[d], then[d], got[d])
                        /\ ExecutedUnder(at[d]) => got[d] = "ran"
    BY <1>6, CleanClaim
  <2> QED BY <1>0, <1>1, <1>2, <1>6, <2>1, <2>2, ApprovalKept
<1>7. CASE Observes(d)
  <2>1. Same(d) /\ Claiming(pc[d], then[d], got[d]) /\ got[d] = "none" /\ at[d] \in Holds
    BY <1>0, <1>7 DEF Observes, Goes, Claiming, Shape, ShapeOf, HoldPhases
  <2>2. Going(pc'[d], got'[d]) => Readable(at[d])
    BY <1>7 DEF Observes, Goes, Going, Chained
  <2>3. status[at[d]] = "approved"
    BY <2>1, CleanClaim, HeldAssumption
  <2>4. Readable(at[d]) => at[d] \in held /\ decided[at[d]] = "approved"
    BY <2>1, <2>3 DEF Readable, Condemned, DecisionUnreceipted, Decisions
  <2> QED BY <1>6, <2>1, <2>2, <2>4
<1>8. CASE TakesKey(d) \/ Spends(d) \/ RunsIt(d) \/ FreesKey(d)
  <2>1. /\ Same(d) /\ Claiming(pc[d], then[d], got[d]) /\ Going(pc[d], got[d])
        /\ got[d] \in {"none", "refused"}
    BY <1>0, <1>8 DEF TakesKey, Spends, RunsIt, FreesKey, Goes, Claiming, Going, Chained, Shape, ShapeOf
  <2>2. at[d] # None => at[d] \in held /\ decided[at[d]] = "approved"
    BY <2>1 DEF ApprovalInv, Executions
  <2> QED BY <1>6, <2>1, <2>2
<1>9. CASE Retracts(d) /\ ~ Ended(d)
  <2>1. /\ Same(d) /\ Claiming(pc[d], then[d], got[d]) /\ got[d] = "refused" /\ pc'[d] = "unclaim"
    BY <1>0, <1>9 DEF Retracts, Goes, Claiming, Shape, ShapeOf
  <2> QED BY <1>6, <2>1 DEF Going, Chained
<1>10. CASE Receipts(d) /\ ~ Ended(d)
  <2>1. /\ Same(d) /\ pc[d] = "receipt" /\ got[d] \in {"ran", "refused", "unread"} /\ got'[d] = got[d]
        /\ pc'[d] = CASE got[d] = "ran" -> "complete" [] got[d] = "refused" -> "release" [] OTHER -> "unclaim"
    BY <1>10 DEF Receipts, Goes
  <2>2. Claiming(pc[d], then[d], got[d]) /\ (Going(pc'[d], got'[d]) => Going(pc[d], got[d]))
    BY <2>1 DEF Claiming, Going, Chained
  <2>3. at[d] # None /\ Going(pc'[d], got'[d]) => at[d] \in held /\ decided[at[d]] = "approved"
    BY <2>2 DEF ApprovalInv, Executions
  <2> QED BY <1>6, <2>1, <2>2, <2>3
<1>11. CASE WritesRow(d) /\ at[d] = None
  <2>1. at'[d] = None
    BY <1>11 DEF WritesRow, Goes, Same
  <2> QED BY <1>0, <1>1, <1>2, <2>1, ApprovalKept
<1>12. CASE WritesRow(d) /\ at[d] # None /\ got[d] # "ran"
  <2>1. /\ at'[d] = at[d] /\ pc[d] = "row" /\ pc'[d] = "receipt" /\ got'[d] = got[d]
    BY <1>12 DEF WritesRow, Goes, Same
  <2>2. Claiming(pc'[d], then'[d], got'[d]) => Claiming(pc[d], then[d], got[d])
    BY <2>1 DEF Claiming
  <2>3. Going(pc'[d], got'[d]) => Going(pc[d], got[d])
    BY <2>1 DEF Going, Chained
  <2>4. PastApproval(pc'[d], then'[d], got'[d]) => PastApproval(pc[d], then[d], got[d])
    BY <2>1, <2>2 DEF PastApproval
  <2>5. at[d] \in Holds
    BY <1>0, <1>12 DEF TypeOK
  <2>6. Claiming(pc[d], then[d], got[d]) =>
            /\ ~ ExecutedUnder(at[d])
            /\ status[at[d]] = "state_moved" => got'[d] = "moved"
    BY <2>1, <2>5 DEF ApprovalInv, Executions, Approvals
  <2>7. Going(pc[d], got[d]) => at[d] \in held /\ decided[at[d]] = "approved"
    BY <1>12 DEF ApprovalInv, Executions
  <2> QED BY <1>0, <1>1, <1>2, <2>1, <2>2, <2>3, <2>4, <2>6, <2>7, ApprovalKept
<1> QED BY <1>3, <1>4, <1>5, <1>7, <1>8, <1>9, <1>10, <1>11, <1>12 DEF Completes

\* The steps that write to a hold.
LEMMA ApprovalHoldStep ==
    ASSUME CallsOK, ApprovalInv, NEW d \in Drivers, Effect(d),
           \/ Creates(d) \/ Binds(d) \/ Decides(d) \/ ChainsDecision(d) \/ TakesHold(d) \/ Marks(d)
           \/ FreesHold(d)
           \/ WritesRow(d) /\ got[d] = "ran" /\ at[d] # None
    PROVE  ApprovalInv'
<1>0. TypeOK /\ CallShape /\ CreateInv /\ Shape(d) /\ Others(d)
  BY EffectLocals DEF CallsOK, CallShape
<1>1. \A e \in Drivers : e # d => /\ pc'[e] = pc[e] /\ then'[e] = then[e] /\ got'[e] = got[e]
                                  /\ at'[e] = at[e]
  BY <1>0 DEF Others
<1>2. /\ status \in [Holds -> Decisions \cup {"none", "pending"}]
      /\ decided \in [Holds -> Decisions \cup {"none"}]
      /\ \A e \in Drivers : at[e] # None => at[e] \in Holds
      /\ \A h \in Holds : h # None
  BY <1>0, HeldAssumption DEF TypeOK
<1>3. \A e \in Drivers : /\ Claiming(pc[e], then[e], got[e]) => PastApproval(pc[e], then[e], got[e])
                         /\ Going(pc[e], got[e]) => Claiming(pc[e], then[e], got[e])
                                                    /\ got[e] # "moved"
  <2>1. ASSUME NEW e \in Drivers
        PROVE  /\ Claiming(pc[e], then[e], got[e]) => PastApproval(pc[e], then[e], got[e])
               /\ Going(pc[e], got[e]) => Claiming(pc[e], then[e], got[e]) /\ got[e] # "moved"
    <3>1. Shape(e)
      BY <1>0 DEF CallShape
    <3> QED BY <3>1 DEF PastApproval, Going, Chained, Claiming, Shape, ShapeOf
  <2> QED BY <2>1
<1>4. ASSUME NEW h \in Holds, ExecutedAfter(h)
      PROVE  ExecutedUnder(h) \/ (pc[d] = "row" /\ got[d] = "ran" /\ h = at[d])
  BY <1>0, <1>4, ExecutedStep DEF WritesRow
\* The parts of the invariant after the step.
<1> DEFINE C(e) == at'[e] # None /\ Claiming(pc'[e], then'[e], got'[e])
           I1 == \A e \in Drivers : C(e) => at'[e] \in claim'
           I2 == \A e, f \in Drivers : C(e) /\ C(f) /\ at'[e] = at'[f] => e = f
           I3 == \A e \in Drivers : at'[e] # None /\ PastApproval(pc'[e], then'[e], got'[e]) =>
                     status'[at'[e]] \in {"approved", "state_moved"}
           I4 == \A h \in Holds : status'[h] = "state_moved" =>
                     h \in claim' /\ \A e \in Drivers : C(e) /\ at'[e] = h => got'[e] = "moved"
           I5 == \A e \in Drivers : at'[e] # None /\ Going(pc'[e], got'[e]) =>
                     at'[e] \in held' /\ decided'[at'[e]] = "approved"
           I6 == \A h \in Holds : ExecutedAfter(h) =>
                     /\ h \in claim' /\ h \in held' /\ status'[h] = "approved" /\ decided'[h] = "approved"
                     /\ \A e \in Drivers : C(e) /\ at'[e] = h =>
                           pc'[e] \in {"receipt", "complete"} /\ got'[e] = "ran"
<1>5. ASSUME I1, I2, I3, I4, I5, I6 PROVE ApprovalInv'
  <2>1. Claims'
    BY <1>5 DEF Claims
  <2>2. Approvals'
    BY <1>2, <1>5 DEF Approvals
  <2>3. Executions'
    BY <1>2, <1>5 DEF Executions, ExecutedUnder, ExecutedAfter
  <2> QED BY <2>1, <2>2, <2>3 DEF ApprovalInv
<1>6. CASE Creates(d)
  <2>1. /\ pc'[d] = "bind" /\ got'[d] = "none" /\ status' = [status EXCEPT ![at[d]] = "pending"]
        /\ UNCHANGED <<claim, held, decided>> /\ at[d] \in Holds /\ status[at[d]] = "none" /\ pc[d] = "create"
    BY <1>0, <1>6 DEF Creates, Goes, Shape, ShapeOf, HoldPhases, CreateInv
  <2>2. ~ Claiming(pc'[d], then'[d], got'[d]) /\ ~ PastApproval(pc'[d], then'[d], got'[d])
        /\ ~ Going(pc'[d], got'[d])
    BY <2>1 DEF Claiming, PastApproval, Going, Chained
  <2>3. \A h \in Holds : status'[h] = IF h = at[d] THEN "pending" ELSE status[h]
    BY <1>2, <2>1
  <2>4. I1 /\ I2
    BY <1>1, <2>1, <2>2 DEF ApprovalInv, Claims
  <2>5. I3
    BY <1>1, <1>2, <2>1, <2>2, <2>3 DEF ApprovalInv, Approvals
  <2>6. I4
    BY <1>1, <2>1, <2>2, <2>3 DEF ApprovalInv, Approvals
  <2>7. I5
    BY <1>1, <2>1, <2>2 DEF ApprovalInv, Executions
  <2>8. I6
    BY <1>1, <1>4, <2>1, <2>2, <2>3 DEF ApprovalInv, Executions
  <2> QED BY <1>5, <2>4, <2>5, <2>6, <2>7, <2>8
<1>7. CASE Binds(d)
  <2>1. at'[d] = None /\ held' = held \cup {at[d]} /\ UNCHANGED <<status, claim, decided>> /\ pc[d] = "bind"
    BY <1>7 DEF Binds, Ended
  <2>4. I1 /\ I2
    BY <1>1, <2>1 DEF ApprovalInv, Claims
  <2>5. I3 /\ I4
    BY <1>1, <1>2, <2>1 DEF ApprovalInv, Approvals
  <2>7. I5
    BY <1>1, <2>1 DEF ApprovalInv, Executions
  <2>8. I6
    BY <1>1, <1>2, <1>4, <2>1 DEF ApprovalInv, Executions
  <2> QED BY <1>5, <2>4, <2>5, <2>7, <2>8
<1>8. CASE Decides(d)
  <2>1. PICK g \in Holds, st \in {"approved", "rejected", "expired", "invalidated"} :
            /\ status[g] = "pending" /\ status' = [status EXCEPT ![g] = st]
            /\ \/ Goes(d, "chain", "visited", "none") \/ Goes(d, "chain", "idle", "none")
               \/ Goes(d, "chain", "pinned", "none") /\ st = "approved" /\ g = at[d]
            /\ UNCHANGED <<claim, held, decided>> /\ rows' = rows
    BY <1>8 DEF Decides, spendVars
  <2>2. /\ ~ Claiming(pc'[d], then'[d], got'[d]) /\ ~ Going(pc'[d], got'[d]) /\ at'[d] = at[d]
        /\ PastApproval(pc'[d], then'[d], got'[d]) => st = "approved" /\ g = at[d]
    BY <2>1 DEF Goes, Same, Claiming, PastApproval, Going, Chained
  <2>3. \A h \in Holds : status'[h] = IF h = g THEN st ELSE status[h]
    BY <1>2, <2>1
  <2>4. I1 /\ I2
    BY <1>1, <2>1, <2>2 DEF ApprovalInv, Claims
  <2>5. ASSUME NEW e \in Drivers, at'[e] # None, PastApproval(pc'[e], then'[e], got'[e])
        PROVE  status'[at'[e]] \in {"approved", "state_moved"}
    <3>1. CASE e = d
      BY <2>1, <2>2, <2>3, <2>5, <3>1
    <3>2. CASE e # d
      <4>1. at'[e] = at[e] /\ at[e] \in Holds /\ status[at[e]] \in {"approved", "state_moved"}
        BY <1>1, <1>2, <2>5, <3>2 DEF ApprovalInv, Approvals
      <4> QED BY <2>1, <2>3, <4>1
    <3> QED BY <3>1, <3>2
  <2>6. I4
    BY <1>1, <2>1, <2>2, <2>3 DEF ApprovalInv, Approvals
  <2>7. I5
    BY <1>1, <2>1, <2>2 DEF ApprovalInv, Executions
  <2>8. I6
    <3>1. \A h \in Holds : ExecutedAfter(h) => ExecutedUnder(h)
      BY <2>1 DEF ExecutedAfter, ExecutedUnder
    <3> QED BY <1>1, <2>1, <2>2, <2>3, <3>1 DEF ApprovalInv, Executions
  <2> QED BY <1>5, <2>4, <2>5, <2>6, <2>7, <2>8
<1>9. CASE ChainsDecision(d)
  <2>1. /\ pc[d] = "chain" /\ cur[d] \in Holds /\ UNCHANGED <<status, claim, held>>
        /\ decided' = [decided EXCEPT ![cur[d]] = status[cur[d]]]
    BY <1>9 DEF ChainsDecision
  <2>2. \A h \in Holds : decided'[h] = IF h = cur[d] THEN status[h] ELSE decided[h]
    BY <1>2, <2>1
  <2>3. /\ at'[d] # None => at'[d] = at[d]
        /\ at'[d] # None /\ Claiming(pc'[d], then'[d], got'[d]) =>
               Claiming(pc[d], then[d], got[d]) /\ got'[d] = "moved"
        /\ at'[d] # None /\ PastApproval(pc'[d], then'[d], got'[d]) => PastApproval(pc[d], then[d], got[d])
        /\ ~ Going(pc'[d], got'[d])
    BY <1>0, <1>9, <2>1 DEF ChainsDecision, Ended, Goes, Same, Claiming, PastApproval, Going, Chained,
                            Shape, ShapeOf
  <2>4. \A e \in Drivers : C(e) => at'[e] = at[e] /\ Claiming(pc[e], then[e], got[e])
    BY <1>1, <2>3
  <2>5. I1 /\ I2
    BY <2>1, <2>4 DEF ApprovalInv, Claims
  <2>6. I3 /\ I4
    BY <1>1, <2>1, <2>3, <1>2 DEF ApprovalInv, Approvals
  <2>7. ASSUME NEW e \in Drivers, at'[e] # None, Going(pc'[e], got'[e])
        PROVE  at'[e] \in held' /\ decided'[at'[e]] = "approved"
    <3>1. e # d /\ at'[e] = at[e] /\ at[e] \in Holds /\ Going(pc[e], got[e])
      BY <1>1, <1>2, <2>3, <2>7
    <3>2. status[at[e]] = "approved"
      BY <1>2, <1>3, <3>1 DEF ApprovalInv, Approvals
    <3>3. at[e] \in held /\ decided[at[e]] = "approved"
      BY <1>2, <3>1 DEF ApprovalInv, Executions
    <3> QED BY <2>1, <2>2, <3>1, <3>2, <3>3
  <2>8. I6
    <3>1. ASSUME NEW h \in Holds, ExecutedAfter(h) PROVE ExecutedUnder(h)
      BY <1>4, <2>1, <3>1
    <3>2. ~ ExecutedUnder(at[d]) \/ ~ Claiming(pc[d], then[d], got[d]) \/ at[d] = None
      BY <1>2, <2>1 DEF ApprovalInv, Executions
    <3> QED BY <1>1, <1>2, <2>1, <2>2, <2>3, <3>1, <3>2 DEF ApprovalInv, Executions
  <2> QED BY <1>5, <2>5, <2>6, <2>7, <2>8
<1>10. CASE TakesHold(d)
  <2>1. /\ pc[d] = "claim" /\ at[d] \in Holds /\ at[d] \notin claim /\ claim' = claim \cup {at[d]}
        /\ at'[d] = at[d] /\ pc'[d] = "observe" /\ got'[d] = "none" /\ UNCHANGED <<status, held, decided>>
    BY <1>0, <1>10 DEF TakesHold, Goes, Same, Shape, ShapeOf, HoldPhases
  <2>2. PastApproval(pc[d], then[d], got[d]) /\ ~ Going(pc'[d], got'[d])
    BY <2>1 DEF PastApproval, Going, Chained
  <2>3. I1
    BY <1>1, <2>1 DEF ApprovalInv, Claims
  <2>4. \A e \in Drivers : e # d /\ C(e) => at'[e] # at'[d]
    BY <1>1, <2>1 DEF ApprovalInv, Claims
  <2>5. I2
    BY <1>1, <2>4 DEF ApprovalInv, Claims
  <2>6. I3
    BY <1>1, <1>2, <2>1, <2>2 DEF ApprovalInv, Approvals
  <2>7. status[at[d]] # "state_moved" /\ ~ ExecutedUnder(at[d])
    BY <2>1 DEF ApprovalInv, Approvals, Executions
  <2>8. I4
    BY <1>1, <2>1, <2>7 DEF ApprovalInv, Approvals
  <2>9. I5
    BY <1>1, <2>1, <2>2 DEF ApprovalInv, Executions
  <2>10. I6
    <3>1. ASSUME NEW h \in Holds, ExecutedAfter(h) PROVE ExecutedUnder(h)
      BY <1>4, <2>1, <3>1
    <3> QED BY <1>1, <2>1, <2>7, <3>1 DEF ApprovalInv, Executions
  <2> QED BY <1>5, <2>3, <2>5, <2>6, <2>8, <2>9, <2>10
<1>11. CASE Marks(d)
  <2>1. /\ pc[d] = "moved" /\ at[d] \in Holds /\ at'[d] = at[d] /\ got[d] = "none" /\ got'[d] = "moved"
        /\ UNCHANGED <<claim, held, decided>>
        /\ pc'[d] = "row" \/ (pc'[d] = "chain" /\ then'[d] = "row")
    BY <1>0, <1>11 DEF Marks, Goes, Same, Shape, ShapeOf, HoldPhases
  <2>2. Claiming(pc[d], then[d], got[d]) /\ ~ Going(pc'[d], got'[d])
    BY <2>1 DEF Claiming, Going, Chained
  <2>3. status[at[d]] = "approved" /\ ~ ExecutedUnder(at[d]) /\ at[d] \in claim
    BY <1>2, <2>1, <2>2, CleanClaim
  <2>4. \A h \in Holds : status'[h] = status[h] \/ (h = at[d] /\ status'[h] = "state_moved")
    BY <1>2, <1>11, <2>1 DEF Marks
  <2>5. \A e \in Drivers : e # d /\ C(e) => at'[e] = at[e] /\ Claiming(pc[e], then[e], got[e])
                                             /\ at[e] # at[d]
    BY <1>1, <2>1, <2>2 DEF ApprovalInv, Claims
  <2>6. I1 /\ I2
    BY <2>1, <2>3, <2>5 DEF ApprovalInv, Claims
  <2>7. ASSUME NEW e \in Drivers, at'[e] # None, PastApproval(pc'[e], then'[e], got'[e])
        PROVE  status'[at'[e]] \in {"approved", "state_moved"}
    <3>1. at'[e] = at[e] /\ at[e] \in Holds /\ status[at[e]] \in {"approved", "state_moved"}
      BY <1>1, <1>2, <2>1, <2>3, <2>7 DEF ApprovalInv, Approvals
    <3> QED BY <2>4, <3>1
  <2>8. I4
    BY <1>1, <2>1, <2>3, <2>4, <2>5 DEF ApprovalInv, Approvals
  <2>9. I5
    BY <1>1, <2>1, <2>2 DEF ApprovalInv, Executions
  <2>10. I6
    <3>1. ASSUME NEW h \in Holds, ExecutedAfter(h) PROVE ExecutedUnder(h) /\ h # at[d]
      BY <1>4, <2>1, <2>3, <3>1
    <3> QED BY <1>1, <2>1, <2>4, <3>1 DEF ApprovalInv, Executions
  <2> QED BY <1>5, <2>6, <2>7, <2>8, <2>9, <2>10
<1>12. CASE FreesHold(d)
  <2>1. /\ pc[d] = "unclaim" /\ at[d] \in Holds /\ at'[d] = None /\ got[d] \in {"refused", "unread"}
        /\ claim' = claim \ {at[d]} /\ UNCHANGED <<status, held, decided>>
    BY <1>0, <1>12 DEF FreesHold, Ended, Shape, ShapeOf, HoldPhases
  <2>2. Claiming(pc[d], then[d], got[d])
    BY <2>1 DEF Claiming
  <2>3. status[at[d]] = "approved" /\ ~ ExecutedUnder(at[d])
    BY <1>2, <2>1, <2>2, CleanClaim
  <2>4. \A e \in Drivers : C(e) => e # d /\ at'[e] = at[e] /\ Claiming(pc[e], then[e], got[e])
                                   /\ at[e] # at[d]
    BY <1>1, <1>2, <2>1, <2>2 DEF ApprovalInv, Claims
  <2>5. I1 /\ I2
    BY <2>1, <2>4 DEF ApprovalInv, Claims
  <2>6. I3
    BY <1>1, <2>1 DEF ApprovalInv, Approvals
  <2>7. I4
    BY <1>1, <2>1, <2>3, <2>4 DEF ApprovalInv, Approvals
  <2>8. I5
    BY <1>1, <2>1 DEF ApprovalInv, Executions
  <2>9. I6
    <3>1. ASSUME NEW h \in Holds, ExecutedAfter(h) PROVE ExecutedUnder(h) /\ h # at[d]
      BY <1>4, <2>1, <2>3, <3>1
    <3> QED BY <1>1, <2>1, <2>4, <3>1 DEF ApprovalInv, Executions
  <2> QED BY <1>5, <2>5, <2>6, <2>7, <2>8, <2>9
<1>13. CASE WritesRow(d) /\ got[d] = "ran" /\ at[d] # None
  <2>1. /\ pc[d] = "row" /\ pc'[d] = "receipt" /\ got'[d] = "ran" /\ at'[d] = at[d] /\ at[d] \in Holds
        /\ UNCHANGED <<status, claim, held, decided>>
    BY <1>2, <1>13 DEF WritesRow, Goes, Same, holdCore
  <2>2. Claiming(pc[d], then[d], got[d]) /\ Going(pc[d], got[d])
    BY <1>13, <2>1 DEF Claiming, Going, Chained
  <2>3. status[at[d]] = "approved" /\ at[d] \in claim
    BY <1>13, <2>1, <2>2, CleanClaim
  <2>4. at[d] \in held /\ decided[at[d]] = "approved"
    BY <1>13, <2>2 DEF ApprovalInv, Executions
  <2>5. \A e \in Drivers : e # d /\ C(e) => at'[e] = at[e] /\ Claiming(pc[e], then[e], got[e])
                                             /\ at[e] # at[d]
    BY <1>1, <1>13, <2>2 DEF ApprovalInv, Claims
  <2>6. I1 /\ I2
    BY <2>1, <2>3, <2>5 DEF ApprovalInv, Claims
  <2>7. I3
    BY <1>1, <2>1, <2>3 DEF ApprovalInv, Approvals
  <2>8. I4
    BY <1>1, <2>1, <2>3, <2>5 DEF ApprovalInv, Approvals
  <2>9. I5
    BY <1>1, <2>1, <2>4 DEF ApprovalInv, Executions
  <2>10. I6
    BY <1>1, <1>4, <2>1, <2>3, <2>4, <2>5 DEF ApprovalInv, Executions
  <2> QED BY <1>5, <2>6, <2>7, <2>8, <2>9, <2>10
<1> HIDE DEF I1, I2, I3, I4, I5, I6
<1> QED BY <1>6, <1>7, <1>8, <1>9, <1>10, <1>11, <1>12, <1>13

\* Every step keeps what the calls know of the approvals.
LEMMA ApprovalStep ==
    ASSUME CallsOK, ApprovalInv, [Next]_vars
    PROVE  ApprovalInv'
<1>1. CASE UNCHANGED <<holdCore, spendVars, callVars>>
  <2>1. ApprovalInv'
    BY <1>1 DEF ApprovalInv, Claims, Approvals, Executions, ExecutedUnder, holdCore, spendVars, callVars
  <2> QED BY <2>1, CallsOKStep
<1>2. ASSUME NEW d \in Drivers, Effect(d) PROVE ApprovalInv'
  <2>1. CASE WritesRow(d) /\ got[d] = "ran" /\ at[d] # None
    BY <1>2, <2>1, ApprovalHoldStep
  <2>2. CASE WritesRow(d) /\ (got[d] # "ran" \/ at[d] = None)
    BY <1>2, <2>2, ApprovalCallStep
  <2>3. CASE Creates(d) \/ Binds(d) \/ Decides(d) \/ ChainsDecision(d) \/ TakesHold(d) \/ Marks(d)
             \/ FreesHold(d)
    BY <1>2, <2>3, ApprovalHoldStep
  <2>4. CASE Begins(d) \/ Walks(d) \/ Observes(d) \/ TakesKey(d) \/ Spends(d) \/ RunsIt(d)
             \/ Receipts(d) \/ Completes(d) \/ FreesKey(d) \/ Retracts(d)
    BY <1>2, <2>4, ApprovalCallStep
  <2> QED BY <1>2, <2>1, <2>2, <2>3, <2>4 DEF Effect
<1> QED BY <1>1, <1>2, CallsOKStep

\* Nothing executes for a hold without an approval that is on the chain, and a
\* hold whose target moved after its approval never runs (claim_pending_execution,
\* mark_state_moved, refusal_retains_claim).
THEOREM ApprovedBeforeRun == Spec => []RunsOnRecordedApproval
<1> DEFINE I == CallsOK /\ ApprovalInv
<1>1. Init => I
  <2> SUFFICES ASSUME Init PROVE I
    OBVIOUS
  <2>1. Claims /\ Approvals
    BY DEF Init, Claims, Approvals
  <2>2. DOMAIN rows = {} /\ \A d \in Drivers : at[d] = None
    BY DEF Init
  <2>3. Executions
    BY <2>2 DEF Executions, ExecutedUnder
  <2>4. ApprovalInv
    BY <2>1, <2>3 DEF ApprovalInv
  <2> QED BY <2>4, CallsOKInit
<1>2. I /\ [Next]_vars => I'
  BY CallsOKStep, ApprovalStep
<1>3. I => RunsOnRecordedApproval
  <2> SUFFICES ASSUME CallsOK, ApprovalInv, NEW h \in Holds,
                      ExecutedUnder(h) \/ \E d \in Drivers : at[d] = h /\ pc[d] = "run"
               PROVE  h \in held /\ status[h] = "approved" /\ decided[h] = "approved"
    BY DEF RunsOnRecordedApproval
  <2>1. CASE ExecutedUnder(h)
    BY <2>1 DEF ApprovalInv, Executions
  <2>2. ASSUME NEW d \in Drivers, at[d] = h, pc[d] = "run"
        PROVE  h \in held /\ status[h] = "approved" /\ decided[h] = "approved"
    <3>1. h # None /\ got[d] = "none"
      BY <2>2, HeldAssumption DEF CallsOK, CallShape, Shape, ShapeOf
    <3>2. Claiming(pc[d], then[d], got[d]) /\ Going(pc[d], got[d])
      BY <2>2 DEF Claiming, Going, Chained
    <3>3. status[h] = "approved"
      BY <2>2, <3>1, <3>2, CleanClaim
    <3> QED BY <2>2, <3>1, <3>2, <3>3 DEF ApprovalInv, Executions
  <2> QED BY <2>1, <2>2
<1> QED BY <1>1, <1>2, <1>3, PTL DEF Spec
-----------------------------------------------------------------------------
(* The promise of an authorization.                                         *)

\* The spend record of a key as its promise sees it: an outcome on the chain is
\* the end of it, a row in spent_authorizations a claim.
HasOutcome(k) == \E n \in DOMAIN spends[k] : spends[k][n].event = "outcome"
SpendRecord == [k \in Keys |-> IF HasOutcome(k) THEN "done"
                               ELSE IF k \in mutex THEN "claimed" ELSE "open"]

Promise == INSTANCE SingleUse WITH Authorizations <- Keys, record <- SpendRecord, effects <- runs

\* An outcome is the last word of the one holder of a key, which stays spent.
OutcomeInv ==
    \A k \in Keys : HasOutcome(k) =>
        k \in mutex /\ \A d \in Drivers : Holding(pc[d], got[d]) => key[d] # k

\* The outcomes after a step, in terms of the step.
HasOutcomeAfter(k) == \E n \in DOMAIN spends'[k] : spends'[k][n].event = "outcome"

\* An entry for one key adds an outcome to it or to none.
LEMMA OutcomeAppended ==
    ASSUME TypeOK, NEW k \in Keys, NEW e \in SpendEntries, AppendSpend(k, e), NEW j \in Keys
    PROVE  HasOutcomeAfter(j) <=> HasOutcome(j) \/ (j = k /\ e.event = "outcome")
<1>1. spends \in [Keys -> Seq(SpendEntries)] /\ spends[k] \in Seq(SpendEntries)
  BY DEF TypeOK
<1>2. spends'[k] = Append(spends[k], e) /\ (j # k => spends'[j] = spends[j])
  BY <1>1 DEF AppendSpend
<1>3. CASE j # k
  BY <1>2, <1>3 DEF HasOutcome, HasOutcomeAfter
<1>4. CASE j = k
  <2>1. /\ DOMAIN spends'[k] = 1..(Len(spends[k]) + 1) /\ DOMAIN spends[k] = 1..Len(spends[k])
        /\ Len(spends[k]) \in Nat
        /\ \A n \in 1..Len(spends[k]) : spends'[k][n] = spends[k][n]
        /\ spends'[k][Len(spends[k]) + 1] = e
    BY <1>1, <1>2
  <2> QED BY <1>4, <2>1 DEF HasOutcome, HasOutcomeAfter
<1> QED BY <1>3, <1>4

\* What a step does to the outcomes: the holder of a key completes it, or nobody
\* adds one.
LEMMA OutcomesStep ==
    ASSUME CallsOK, NEW d \in Drivers, Effect(d)
    PROVE  \/ \A k \in Keys : HasOutcomeAfter(k) <=> HasOutcome(k)
           \/ /\ Completes(d) /\ key[d] \in Keys
              /\ \A k \in Keys : HasOutcomeAfter(k) <=> HasOutcome(k) \/ k = key[d]
<1>0. TypeOK /\ Shape(d)
  BY DEF CallsOK, CallShape
<1>1. CASE spends' = spends
  BY <1>1 DEF HasOutcome, HasOutcomeAfter
<1>2. CASE Spends(d)
  <2>1. key[d] \in Keys /\ SpendEntry(idem[d]) \in SpendEntries /\ SpendEntry(idem[d]).event # "outcome"
    BY <1>0, <1>2 DEF Spends, Shape, ShapeOf, KeyPhases, TypeOK, SpendEntry, SpendEntries
  <2> QED BY <1>0, <1>2, <2>1, OutcomeAppended DEF Spends
<1>3. CASE Retracts(d)
  <2>1. key[d] \in Keys /\ ReleaseEntry \in SpendEntries /\ ReleaseEntry.event # "outcome"
    BY <1>0, <1>3, HeldAssumption DEF Retracts, Shape, ShapeOf, KeyPhases, ReleaseEntry, SpendEntries
  <2> QED BY <1>0, <1>3, <2>1, OutcomeAppended DEF Retracts
<1>4. CASE Completes(d)
  <2>1. /\ key[d] \in Keys /\ CompletedEntry(own[d]) \in SpendEntries
        /\ CompletedEntry(own[d]).event = "outcome"
    BY <1>0, <1>4, HeldAssumption DEF Completes, Shape, ShapeOf, KeyPhases, TypeOK, CompletedEntry,
                                      SpendEntries
  <2> QED BY <1>0, <1>4, <2>1, OutcomeAppended DEF Completes
<1> QED BY <1>1, <1>2, <1>3, <1>4
        DEF Effect, Begins, Walks, Creates, Binds, Decides, ChainsDecision, TakesHold, Observes, Marks,
            TakesKey, RunsIt, WritesRow, Receipts, FreesKey, FreesHold, spendVars

\* A call that holds a row of the mutex held it before, or has just inserted it.
LEMMA HolderStep ==
    ASSUME CallsOK, NEW d \in Drivers, Effect(d), NEW e \in Drivers, Holding(pc'[e], got'[e])
    PROVE  \/ Holding(pc[e], got[e]) /\ key'[e] = key[e]
           \/ TakesKey(d) /\ e = d /\ key'[e] = key[d]
<1>0. TypeOK /\ CallShape /\ Shape(d) /\ Others(d)
  BY EffectLocals DEF CallsOK, CallShape
<1>1. CASE e # d
  BY <1>0, <1>1 DEF Others
<1>2. CASE e = d
  <2>1. ~ Begins(d) /\ ~ Walks(d)
    BY <1>2 DEF Begins, Walks, Ended, Holding
  <2>2. ~ (Creates(d) \/ Binds(d) \/ Decides(d) \/ TakesHold(d) \/ Observes(d) \/ Marks(d)
           \/ Completes(d) \/ FreesKey(d) \/ Retracts(d) \/ FreesHold(d))
    BY <1>2 DEF Creates, Binds, Decides, TakesHold, Observes, Marks, Completes, FreesKey, Retracts,
                FreesHold, Ended, Goes, Holding
  <2>3. ~ ChainsDecision(d)
    BY <1>0, <1>2 DEF ChainsDecision, Ended, Goes, Holding, Shape, ShapeOf
  <2>4. CASE Spends(d) \/ RunsIt(d) \/ WritesRow(d) \/ Receipts(d)
    BY <1>2, <2>4 DEF Spends, RunsIt, WritesRow, Receipts, Ended, Goes, Same, Holding
  <2>5. CASE TakesKey(d)
    BY <1>2, <2>5 DEF TakesKey, Goes, Same
  <2> QED BY <2>1, <2>2, <2>3, <2>4, <2>5 DEF Effect
<1> QED BY <1>1, <1>2

\* A completed key stays completed: nobody holds it and nobody frees it.
LEMMA OutcomeStep ==
    ASSUME CallsOK, MutexInv, OutcomeInv, NEW d \in Drivers, Effect(d)
    PROVE  OutcomeInv'
<1>0. TypeOK /\ CallShape /\ Shape(d) /\ Others(d)
  BY EffectLocals DEF CallsOK, CallShape
<1>1. \A e \in Drivers : Holding(pc'[e], got'[e]) =>
          \/ Holding(pc[e], got[e]) /\ key'[e] = key[e]
          \/ TakesKey(d) /\ e = d /\ key'[e] = key[d]
  BY HolderStep
<1>2. \/ mutex' = mutex
      \/ TakesKey(d) /\ mutex' = mutex \cup {key[d]}
      \/ FreesKey(d) /\ mutex' = mutex \ {key[d]} /\ Holding(pc[d], got[d])
  BY DEF Effect, Begins, Walks, Creates, Binds, Decides, ChainsDecision, TakesHold, Observes, Marks,
         TakesKey, Spends, RunsIt, WritesRow, Receipts, Completes, FreesKey, Retracts, FreesHold,
         Holding, spendVars
<1>3. ASSUME NEW k \in Keys, HasOutcome(k)
      PROVE  k \in mutex' /\ \A e \in Drivers : Holding(pc'[e], got'[e]) => key'[e] # k
  <2>1. k \in mutex /\ \A e \in Drivers : Holding(pc[e], got[e]) => key[e] # k
    BY <1>3 DEF OutcomeInv
  <2>2. TakesKey(d) => key[d] \notin mutex
    BY DEF TakesKey
  <2> QED BY <1>1, <1>2, <2>1, <2>2
<1>4. CASE \A k \in Keys : HasOutcomeAfter(k) <=> HasOutcome(k)
  <2>1. \A k \in Keys : HasOutcomeAfter(k) =>
            k \in mutex' /\ \A e \in Drivers : Holding(pc'[e], got'[e]) => key'[e] # k
    BY <1>3, <1>4
  <2> QED BY <2>1 DEF OutcomeInv, HasOutcome, HasOutcomeAfter
<1>5. CASE /\ Completes(d) /\ key[d] \in Keys
           /\ \A k \in Keys : HasOutcomeAfter(k) <=> HasOutcome(k) \/ k = key[d]
  <2>1. /\ Holding(pc[d], got[d]) /\ ~ Holding(pc'[d], got'[d]) /\ mutex' = mutex /\ ~ TakesKey(d)
    BY <1>5 DEF Completes, Ended, Holding, TakesKey
  <2>2. key[d] \in mutex' /\ \A e \in Drivers : Holding(pc'[e], got'[e]) => key'[e] # key[d]
    BY <1>0, <1>1, <2>1 DEF MutexInv
  <2>3. \A k \in Keys : HasOutcomeAfter(k) =>
            k \in mutex' /\ \A e \in Drivers : Holding(pc'[e], got'[e]) => key'[e] # k
    BY <1>3, <1>5, <2>2
  <2> QED BY <2>3 DEF OutcomeInv, HasOutcome, HasOutcomeAfter
<1> QED BY <1>4, <1>5, OutcomesStep

\* The record of a key after a step.
RecordAfter == [k \in Keys |-> IF HasOutcomeAfter(k) THEN "done"
                               ELSE IF k \in mutex' THEN "claimed" ELSE "open"]

\* Each step is a step of the promise or leaves it alone: the insert is the claim,
\* a run the effect, the outcome entry the settlement, the delete the return.
LEMMA PromiseStep ==
    ASSUME CallsOK, MutexInv, OutcomeInv, NEW d \in Drivers, Effect(d)
    PROVE  [Promise!SingleUseNext]_(Promise!singleUseVars)
<1>0. TypeOK /\ CallShape /\ Shape(d) /\ runs \in [Keys -> Nat]
  BY DEF CallsOK, CallShape, TypeOK
<1>1. SpendRecord' = RecordAfter
  BY DEF SpendRecord, RecordAfter, HasOutcome, HasOutcomeAfter
<1>2. ASSUME RecordAfter = SpendRecord, runs' = runs
      PROVE  [Promise!SingleUseNext]_(Promise!singleUseVars)
  BY <1>1, <1>2 DEF Promise!singleUseVars
<1>3. ASSUME NEW k \in Keys,
             \/ /\ SpendRecord[k] = "open" /\ RecordAfter = [SpendRecord EXCEPT ![k] = "claimed"]
                /\ runs' = runs
             \/ /\ SpendRecord[k] = "claimed" /\ runs[k] = 0 /\ runs' = [runs EXCEPT ![k] = 1]
                /\ RecordAfter = SpendRecord
             \/ /\ SpendRecord[k] = "claimed" /\ RecordAfter = [SpendRecord EXCEPT ![k] = "open"]
                /\ runs[k] = 0 /\ runs' = runs
             \/ /\ SpendRecord[k] = "claimed" /\ RecordAfter = [SpendRecord EXCEPT ![k] = "done"]
                /\ runs' = runs
      PROVE  [Promise!SingleUseNext]_(Promise!singleUseVars)
  <2>1. Promise!Claim(k) \/ Promise!TakeEffect(k) \/ Promise!GiveBack(k) \/ Promise!Settle(k)
    BY <1>1, <1>3 DEF Promise!Claim, Promise!TakeEffect, Promise!GiveBack, Promise!Settle, Promise!Moves
  <2> QED BY <2>1 DEF Promise!SingleUseNext
<1>4. CASE TakesKey(d)
  <2>1. key[d] \in Keys /\ key[d] \notin mutex /\ mutex' = mutex \cup {key[d]} /\ runs' = runs
    BY <1>0, <1>4 DEF TakesKey, Shape, ShapeOf, KeyPhases
  <2>2. \A k \in Keys : HasOutcomeAfter(k) <=> HasOutcome(k)
    BY <1>4 DEF TakesKey, HasOutcome, HasOutcomeAfter
  <2>3. ~ HasOutcome(key[d])
    BY <2>1 DEF OutcomeInv
  <2>4. SpendRecord[key[d]] = "open" /\ RecordAfter = [SpendRecord EXCEPT ![key[d]] = "claimed"]
    BY <2>1, <2>2, <2>3 DEF SpendRecord, RecordAfter
  <2> QED BY <1>3, <2>1, <2>4
<1>5. ASSUME Holding(pc[d], got[d]), key[d] \in Keys
      PROVE  SpendRecord[key[d]] = "claimed" /\ ~ HasOutcome(key[d])
  BY <1>5 DEF SpendRecord, OutcomeInv, MutexInv
<1>6. CASE RunsIt(d)
  <2>1. key[d] \in Keys /\ mutex' = mutex /\ Holding(pc[d], got[d]) /\ got[d] = "none"
    BY <1>0, <1>6 DEF RunsIt, Shape, ShapeOf, KeyPhases, Holding
  <2>2. \A k \in Keys : HasOutcomeAfter(k) <=> HasOutcome(k)
    BY <1>6 DEF RunsIt, HasOutcome, HasOutcomeAfter
  <2>3. RecordAfter = SpendRecord
    BY <2>1, <2>2 DEF SpendRecord, RecordAfter
  <2>4. runs[key[d]] = 0
    BY <2>1 DEF MutexInv
  <2>5. runs' = runs \/ runs' = [runs EXCEPT ![key[d]] = 1]
    BY <1>0, <1>6, <2>1, <2>4 DEF RunsIt
  <2> QED BY <1>2, <1>3, <1>5, <2>1, <2>3, <2>4, <2>5
<1>7. CASE FreesKey(d)
  <2>1. /\ key[d] \in Keys /\ mutex' = mutex \ {key[d]} /\ runs' = runs /\ got[d] = "refused"
        /\ Holding(pc[d], got[d])
    BY <1>0, <1>7 DEF FreesKey, Shape, ShapeOf, KeyPhases, Holding
  <2>2. \A k \in Keys : HasOutcomeAfter(k) <=> HasOutcome(k)
    BY <1>7 DEF FreesKey, HasOutcome, HasOutcomeAfter
  <2>3. runs[key[d]] = 0 /\ SpendRecord[key[d]] = "claimed" /\ ~ HasOutcome(key[d])
    BY <1>5, <2>1 DEF MutexInv
  <2>4. RecordAfter = [SpendRecord EXCEPT ![key[d]] = "open"]
    BY <2>1, <2>2, <2>3 DEF SpendRecord, RecordAfter
  <2> QED BY <1>3, <2>1, <2>3, <2>4
<1>8. CASE Completes(d)
  <2>1. key[d] \in Keys /\ mutex' = mutex /\ runs' = runs /\ Holding(pc[d], got[d])
    BY <1>0, <1>8 DEF Completes, Shape, ShapeOf, KeyPhases, Holding
  <2>2. SpendRecord[key[d]] = "claimed"
    BY <1>5, <2>1
  <2>3. CASE \A k \in Keys : HasOutcomeAfter(k) <=> HasOutcome(k)
    <3>1. RecordAfter = SpendRecord
      BY <2>1, <2>3 DEF SpendRecord, RecordAfter
    <3> QED BY <1>2, <2>1, <3>1
  <2>4. CASE \A k \in Keys : HasOutcomeAfter(k) <=> HasOutcome(k) \/ k = key[d]
    <3>1. RecordAfter = [SpendRecord EXCEPT ![key[d]] = "done"]
      BY <2>1, <2>4 DEF SpendRecord, RecordAfter
    <3> QED BY <1>3, <2>1, <2>2, <3>1
  <2> QED BY <2>3, <2>4, OutcomesStep
<1>9. CASE Begins(d) \/ Walks(d) \/ Creates(d) \/ Binds(d) \/ Decides(d) \/ ChainsDecision(d)
           \/ TakesHold(d) \/ Observes(d) \/ Marks(d) \/ Spends(d) \/ WritesRow(d) \/ Receipts(d)
           \/ Retracts(d) \/ FreesHold(d)
  <2>1. mutex' = mutex /\ runs' = runs
    BY <1>9 DEF Begins, Walks, Creates, Binds, Decides, ChainsDecision, TakesHold, Observes, Marks, Spends,
                WritesRow, Receipts, Retracts, FreesHold, spendVars
  <2>2. CASE \A k \in Keys : HasOutcomeAfter(k) <=> HasOutcome(k)
    <3>1. RecordAfter = SpendRecord
      BY <2>1, <2>2 DEF SpendRecord, RecordAfter
    <3> QED BY <1>2, <2>1, <3>1
  <2> QED BY <1>8, <2>2, OutcomesStep
<1> QED BY <1>4, <1>6, <1>7, <1>8, <1>9 DEF Effect

\* The gateway keeps the promise of an authorization (ledger/spend.py), whatever
\* its drivers, their crashes and their holds: a key is claimed before anything is
\* done in its name, takes effect at most once, is given back only unused, and its
\* outcome settles it for good.
THEOREM HeldKeepsPromise == Spec => Promise!SingleUseSpec
<1> DEFINE I == CallsOK /\ MutexInv /\ OutcomeInv
<1>1. Init => I /\ Promise!SingleUseInit
  <2> SUFFICES ASSUME Init PROVE I /\ Promise!SingleUseInit
    OBVIOUS
  <2>1. \A k \in Keys : ~ HasOutcome(k)
    BY DEF Init, HasOutcome
  <2>2. MutexInv /\ OutcomeInv
    BY <2>1 DEF Init, MutexInv, OutcomeInv, Holding
  <2>3. Promise!SingleUseInit
    BY <2>1 DEF Init, Promise!SingleUseInit, SpendRecord
  <2> QED BY <2>2, <2>3, CallsOKInit
<1>2. I /\ [Next]_vars => I' /\ [Promise!SingleUseNext]_(Promise!singleUseVars)
  <2> SUFFICES ASSUME CallsOK, MutexInv, OutcomeInv, [Next]_vars
               PROVE  I' /\ [Promise!SingleUseNext]_(Promise!singleUseVars)
    OBVIOUS
  <2>1. CASE UNCHANGED <<holdCore, spendVars, callVars>>
    <3>1. MutexInv' /\ OutcomeInv'
      BY <2>1 DEF MutexInv, OutcomeInv, HasOutcome, spendVars, callVars
    <3>2. UNCHANGED Promise!singleUseVars
      BY <2>1 DEF Promise!singleUseVars, SpendRecord, HasOutcome, spendVars
    <3> QED BY <3>1, <3>2, CallsOKStep
  <2>2. ASSUME NEW d \in Drivers, Effect(d)
        PROVE  MutexInv' /\ OutcomeInv' /\ [Promise!SingleUseNext]_(Promise!singleUseVars)
    BY <2>2, MutexStep, OutcomeStep, PromiseStep
  <2> QED BY <2>1, <2>2, CallsOKStep
<1> QED BY <1>1, <1>2, PTL DEF Spec, Promise!SingleUseSpec

-----------------------------------------------------------------------------
(* What a claim that stays means.                                           *)

\* Where the call d, which has claimed its hold, goes when it does not die: on, with
\* its claim and with its row of the mutex unless it gives that back, or to one of
\* the ends of an attempt.
Attempt(d) ==
    \/ /\ at'[d] = at[d] /\ key'[d] = key[d] /\ Claiming(pc'[d], then'[d], got'[d])
       /\ Holding(pc[d], got[d]) => Holding(pc'[d], got'[d]) \/ key[d] \notin mutex'
    \/ pc[d] = "spend" /\ key[d] \in mutex'
    \/ pc[d] = "receipt" /\ got[d] = "moved"
    \/ pc[d] = "complete"
    \/ pc[d] = "retract" /\ at[d] = None
    \/ pc[d] = "unclaim" /\ at[d] \notin claim'

\* The steps of such a call.
LEMMA AttemptStep ==
    ASSUME CallsOK, NEW d \in Drivers, Step(d), Claiming(pc[d], then[d], got[d])
    PROVE  Attempt(d)
<1>0. CallTypes /\ Shape(d)
  BY DEF CallsOK, TypeOK, CallTypes, CallShape
<1>1. pc[d] \in {"observe", "moved", "spend", "spent", "run", "complete", "release", "retract", "unclaim",
                 "row", "receipt", "chain"}
  BY DEF Claiming
<1>2. \/ ChainDecision(d) \/ Observe(d) \/ MarkStateMoved(d) \/ ClaimAuthorization(d) \/ ChainSpend(d)
      \/ Run(d) \/ RecordRow(d) \/ ChainReceipt(d) \/ Complete(d) \/ ReleaseAuthorization(d)
      \/ ChainRelease(d) \/ ReleaseHold(d)
  BY <1>1 DEF Step, CreateHold, BindHold, Scan, Visit, Visited, EndScan, Review, RefuseApproval,
              CompareBeforeApproval, Resolve, Pinned, Recheck, Settle, ClaimHold
<1>3. ASSUME NEW p \in Phases, Goto(d, p), UNCHANGED <<at, key, then>>
      PROVE  pc'[d] = p /\ at'[d] = at[d] /\ key'[d] = key[d] /\ then'[d] = then[d]
  BY <1>0, <1>3 DEF Goto, CallTypes
<1>4. CASE ChainDecision(d)
  <2>1. pc[d] = "chain" /\ then[d] = "row" /\ got[d] = "moved"
    BY <1>0, <1>4 DEF ChainDecision, Claiming, Shape, ShapeOf
  <2>2. Goto(d, "row") /\ UNCHANGED localVars
    BY <1>4, <2>1 DEF ChainDecision
  <2>3. pc'[d] = "row" /\ at'[d] = at[d] /\ key'[d] = key[d] /\ got'[d] = "moved"
    BY <1>3, <2>1, <2>2 DEF Phases, localVars
  <2> QED BY <2>1, <2>3 DEF Attempt, Claiming, Holding
<1>5. CASE Observe(d)
  <2>1. /\ pc[d] = "observe" /\ UNCHANGED <<at, key, then>>
        /\ Goto(d, "spend") \/ Goto(d, "moved") \/ Ends(d, "unread")
    BY <1>5 DEF Observe
  <2>2. /\ at'[d] = at[d] /\ key'[d] = key[d]
        /\ pc'[d] \in {"spend", "moved"} \/ (pc'[d] = "row" /\ got'[d] = "unread")
    BY <1>0, <1>3, <2>1 DEF Phases, Ends, CallTypes
  <2> QED BY <2>1, <2>2 DEF Attempt, Claiming, Holding
<1>6. CASE MarkStateMoved(d)
  <2>1. /\ pc[d] = "moved" /\ got'[d] = "moved" /\ UNCHANGED <<at, key>>
        /\ (Goto(d, "chain") /\ then'[d] = "row") \/ Goto(d, "row")
    BY <1>0, <1>6 DEF MarkStateMoved, Decide, CallTypes
  <2>2. (pc'[d] = "chain" /\ then'[d] = "row") \/ pc'[d] = "row"
    BY <1>0, <2>1 DEF Goto, CallTypes
  <2> QED BY <2>1, <2>2 DEF Attempt, Claiming, Holding
<1>7. CASE ClaimAuthorization(d)
  <2>1. CASE key[d] \in mutex
    BY <1>7, <2>1 DEF ClaimAuthorization, Attempt
  <2>2. CASE key[d] \notin mutex
    <3>1. pc[d] = "spend" /\ Goto(d, "spent") /\ UNCHANGED <<at, key, then>>
      BY <1>7, <2>2 DEF ClaimAuthorization, localVars
    <3>2. pc'[d] = "spent" /\ at'[d] = at[d] /\ key'[d] = key[d]
      BY <1>3, <3>1 DEF Phases
    <3> QED BY <3>1, <3>2 DEF Attempt, Claiming, Holding
  <2> QED BY <2>1, <2>2
<1>8. CASE ChainSpend(d)
  <2>1. Goto(d, "run") /\ UNCHANGED <<at, key, then>>
    BY <1>8 DEF ChainSpend, localVars
  <2>2. pc'[d] = "run" /\ at'[d] = at[d] /\ key'[d] = key[d]
    BY <1>3, <2>1 DEF Phases
  <2> QED BY <2>2 DEF Attempt, Claiming, Holding
<1>9. CASE Run(d)
  <2>1. Goto(d, "row") /\ UNCHANGED <<at, key, then>> /\ got'[d] \in {"ran", "refused"}
    BY <1>0, <1>9 DEF Run, Ends, CallTypes
  <2>2. pc'[d] = "row" /\ at'[d] = at[d] /\ key'[d] = key[d]
    BY <1>3, <2>1 DEF Phases
  <2> QED BY <2>1, <2>2 DEF Attempt, Claiming, Holding
<1>10. CASE RecordRow(d)
  <2>1. pc[d] = "row" /\ Goto(d, "receipt") /\ UNCHANGED <<at, key, then, got>>
    BY <1>10 DEF RecordRow
  <2>2. pc'[d] = "receipt" /\ at'[d] = at[d] /\ key'[d] = key[d] /\ got'[d] = got[d]
    BY <1>3, <2>1 DEF Phases
  <2> QED BY <2>1, <2>2 DEF Attempt, Claiming, Holding
<1>11. CASE ChainReceipt(d)
  <2>1. pc[d] = "receipt" /\ got[d] \in {"ran", "refused", "moved", "unread"}
    BY <1>11 DEF ChainReceipt, Claiming
  <2>2. CASE got[d] = "moved"
    BY <2>1, <2>2 DEF Attempt
  <2>3. CASE got[d] # "moved"
    <3>1. PICK p \in {"complete", "release", "unclaim"} :
              /\ Goto(d, p) /\ UNCHANGED localVars
              /\ p = CASE got[d] = "ran" -> "complete" [] got[d] = "refused" -> "release"
                       [] got[d] = "unread" -> "unclaim"
      BY <1>11, <2>1, <2>3 DEF ChainReceipt, RetainsClaim
    <3>2. pc'[d] = p /\ at'[d] = at[d] /\ key'[d] = key[d] /\ (got[d] = "unread" <=> p = "unclaim")
      BY <1>3, <2>1, <2>3, <3>1 DEF Phases, localVars
    <3> QED BY <2>1, <3>2 DEF Attempt, Claiming, Holding
  <2> QED BY <2>2, <2>3
<1>12. CASE Complete(d)
  BY <1>12 DEF Complete, Attempt
<1>13. CASE ReleaseAuthorization(d)
  <2>1. Goto(d, "retract") /\ UNCHANGED <<at, key, then>> /\ mutex' = mutex \ {key[d]}
    BY <1>13 DEF ReleaseAuthorization, localVars
  <2>2. pc'[d] = "retract" /\ at'[d] = at[d] /\ key'[d] = key[d]
    BY <1>3, <2>1 DEF Phases
  <2> QED BY <2>1, <2>2 DEF Attempt, Claiming
<1>14. CASE ChainRelease(d)
  <2>1. pc[d] = "retract"
    BY <1>14 DEF ChainRelease
  <2>2. CASE at[d] = None
    BY <2>1, <2>2 DEF Attempt
  <2>3. CASE at[d] # None
    <3>1. Goto(d, "unclaim") /\ UNCHANGED <<at, key, then>>
      BY <1>14, <2>3 DEF ChainRelease, localVars
    <3>2. pc'[d] = "unclaim" /\ at'[d] = at[d] /\ key'[d] = key[d]
      BY <1>3, <3>1 DEF Phases
    <3> QED BY <2>1, <3>2 DEF Attempt, Claiming, Holding
  <2> QED BY <2>2, <2>3
<1>15. CASE ReleaseHold(d)
  BY <1>15 DEF ReleaseHold, Attempt
<1> QED BY <1>2, <1>4, <1>5, <1>6, <1>7, <1>8, <1>9, <1>10, <1>11, <1>12, <1>13, <1>14, <1>15

\* Any step of the specification in which no call dies.
LEMMA AttemptNext ==
    ASSUME CallsOK, [Next]_vars, crashes' = crashes, NEW d \in Drivers, Claiming(pc[d], then[d], got[d])
    PROVE  Attempt(d)
<1>0. TypeOK /\ CallShape /\ CallTypes
  BY DEF CallsOK, TypeOK, CallTypes
<1>1. ASSUME /\ pc'[d] = pc[d] /\ then'[d] = then[d] /\ got'[d] = got[d]
             /\ at'[d] = at[d] /\ key'[d] = key[d]
      PROVE  Attempt(d)
  BY <1>1 DEF Attempt
<1>2. ASSUME NEW e \in Drivers, e # d, Others(e) PROVE Attempt(d)
  BY <1>1, <1>2 DEF Others
<1>3. ASSUME NEW e \in Drivers, Step(e) PROVE Attempt(d)
  <2>1. CASE e = d
    BY <1>3, <2>1, AttemptStep
  <2>2. CASE e # d
    <3>1. Others(e)
      BY <1>0, <1>3, StepEffect, EffectLocals
    <3> QED BY <1>2, <2>2, <3>1
  <2> QED BY <2>1, <2>2
<1>4. ASSUME NEW e \in Drivers, Calls(e) PROVE Attempt(d)
  <2>1. pc[e] = "idle"
    BY <1>4 DEF Calls, SubmitRouted, Approve, Reject, RetryExecution, SubmitBlocked, SubmitApproved, Sweep,
                InvalidateSuperseded, Call
  <2>2. e # d
    BY <2>1 DEF Claiming
  <2>3. Others(e)
    BY <1>0, <1>4, CallsEffect DEF Begins
  <2> QED BY <1>2, <2>2, <2>3
<1>5. ASSUME NEW e \in Drivers PROVE ~ Crash(e)
  BY <1>0, HeldAssumption DEF Crash, TypeOK
<1>6. CASE (\E h \in Holds : Lapse(h)) \/ (\E t \in Targets : MoveTarget(t)) \/ RotatePolicy
           \/ UNCHANGED vars
  <2>1. UNCHANGED <<pc, then, got, at, key>>
    BY <1>6 DEF Lapse, MoveTarget, RotatePolicy, vars, callVars
  <2> QED BY <1>1, <2>1
<1> QED BY <1>3, <1>4, <1>5, <1>6 DEF Next, Calls

\* A call that found the target moved has made its hold terminal.
MovedInv == \A d \in Drivers : got[d] = "moved" => at[d] \in Holds /\ status[at[d]] = "state_moved"

\* A call that is about to give its key back has left a row under its own hold.
Listed ==
    \A d \in Drivers : pc[d] \in {"receipt", "release"} =>
        /\ own[d] \in DOMAIN rows
        /\ rows[own[d]].key = key[d] /\ rows[own[d]].hold = at[d]

\* The hold of a call that found its target moved stays terminal.
LEMMA MovedStep ==
    ASSUME CallsOK, CallsOK', ApprovalInv, MovedInv, NEW d \in Drivers, Effect(d)
    PROVE  MovedInv'
<1>0. TypeOK /\ CallShape /\ CreateInv /\ Shape(d) /\ Others(d)
  BY EffectLocals DEF CallsOK, CallShape
<1>1. \A h \in Holds : status[h] = "state_moved" => status'[h] = "state_moved"
  BY <1>0, StatusStep DEF StatusMoves
<1>2. ASSUME NEW e \in Drivers, e # d, got'[e] = "moved"
      PROVE  at'[e] \in Holds /\ status'[at'[e]] = "state_moved"
  <2>1. at'[e] = at[e] /\ got[e] = "moved"
    BY <1>0, <1>2 DEF Others
  <2> QED BY <1>1, <2>1 DEF MovedInv
<1>3. ASSUME got'[d] = "moved" PROVE at'[d] \in Holds /\ status'[at'[d]] = "state_moved"
  <2>1. pc'[d] \in {"chain", "row", "receipt"} /\ at'[d] \in Holds /\ Claiming(pc'[d], then'[d], got'[d])
    <3>1. ShapeOf(pc'[d], verb'[d], at'[d], key'[d], cur'[d], then'[d], got'[d])
      BY DEF CallsOK, CallShape, Shape
    <3> QED BY <1>3, <3>1 DEF ShapeOf, Claiming
  <2>2. at'[d] # None
    BY <2>1, HeldAssumption
  <2>3. ~ Begins(d)
    BY <2>1, <2>2 DEF Begins, PastApproval
  <2>4. ~ Walks(d)
    BY <1>3, <2>1, <2>2 DEF Walks, Ended, Same
  <2>5. CASE ChainsDecision(d) \/ WritesRow(d)
    <3>1. got[d] = "moved" /\ at'[d] = at[d] /\ status' = status
      BY <1>3, <2>1, <2>5 DEF ChainsDecision, WritesRow, Goes, Same, Ended, holdCore
    <3> QED BY <3>1 DEF MovedInv
  <2>6. CASE Marks(d)
    <3>1. at[d] \in Holds /\ at[d] # None /\ got[d] = "none" /\ Claiming(pc[d], then[d], got[d])
      BY <1>0, <2>6, HeldAssumption DEF Marks, Shape, ShapeOf, HoldPhases, Claiming
    <3>2. status[at[d]] = "approved"
      BY <3>1, CleanClaim
    <3>3. status' = [status EXCEPT ![at[d]] = "state_moved"] /\ at'[d] = at[d]
      BY <2>6, <3>2 DEF Marks, Goes, Same
    <3> QED BY <1>0, <3>1, <3>3 DEF TypeOK
  <2>7. ~ (Creates(d) \/ Binds(d) \/ Decides(d) \/ TakesHold(d) \/ Observes(d) \/ TakesKey(d) \/ Spends(d)
           \/ RunsIt(d) \/ Receipts(d) \/ Completes(d) \/ FreesKey(d) \/ Retracts(d) \/ FreesHold(d))
    BY <1>3 DEF Creates, Binds, Decides, TakesHold, Observes, TakesKey, Spends, RunsIt, Receipts, Completes,
                FreesKey, Retracts, FreesHold, Ended, Goes
  <2> QED BY <2>3, <2>4, <2>5, <2>6, <2>7 DEF Effect
<1> QED BY <1>2, <1>3 DEF MovedInv

\* What happened stays: runs are not undone, and a moved target is not forgotten.
LEMMA HistoryStep ==
    ASSUME CallsOK, NEW d \in Drivers, Effect(d)
    PROVE  /\ \A k \in Keys : runs[k] > 0 => runs'[k] > 0
           /\ \A h \in Holds : status[h] = "state_moved" => status'[h] = "state_moved"
<1>0. TypeOK /\ CallShape /\ CreateInv /\ Shape(d)
  BY DEF CallsOK, CallShape
<1>1. \A h \in Holds : status[h] = "state_moved" => status'[h] = "state_moved"
  BY <1>0, StatusStep DEF StatusMoves
<1>2. CASE RunsIt(d)
  <2>1. key[d] \in Keys /\ runs \in [Keys -> Nat]
    BY <1>0, <1>2 DEF RunsIt, Shape, ShapeOf, KeyPhases, TypeOK
  <2>2. \A k \in Keys : runs'[k] = runs[k] \/ runs'[k] = runs[k] + 1
    BY <1>2, <2>1 DEF RunsIt
  <2> QED BY <1>1, <2>1, <2>2
<1>3. CASE runs' = runs
  BY <1>1, <1>3
<1> QED BY <1>2, <1>3
        DEF Effect, Begins, Walks, Creates, Binds, Decides, ChainsDecision, TakesHold, Observes, Marks,
            TakesKey, Spends, WritesRow, Receipts, Completes, FreesKey, Retracts, FreesHold, spendVars

\* A call leaves its row before it gives its key back.
LEMMA ListedStep ==
    ASSUME CallsOK, Listed, NEW d \in Drivers, Effect(d)
    PROVE  Listed'
<1>0. TypeOK /\ Others(d) /\ RowsGrow /\ rows \in Seq(Row)
  BY EffectLocals, RowsStep DEF CallsOK, TypeOK
<1> DEFINE Leaves(e) == pc'[e] \in {"receipt", "release"} =>
               /\ own'[e] \in DOMAIN rows'
               /\ rows'[own'[e]].key = key'[e] /\ rows'[own'[e]].hold = at'[e]
<1>1. ASSUME NEW e \in Drivers, e # d PROVE Leaves(e)
  BY <1>0, <1>1 DEF Others, Listed, RowsGrow
<1>2. Leaves(d)
  <2>1. CASE pc'[d] \notin {"receipt", "release"}
    BY <2>1
  <2>2. CASE WritesRow(d)
    <3>1. PICK r : r = [hold |-> at[d], key |-> key[d], executed |-> got[d] = "ran", receipt |-> FALSE]
      OBVIOUS
    <3>2. rows' = Append(rows, r) /\ own'[d] = Len(rows) + 1 /\ key'[d] = key[d] /\ at'[d] = at[d]
      BY <2>2, <3>1 DEF WritesRow, Goes, Same
    <3>3. own'[d] \in DOMAIN rows' /\ rows'[own'[d]] = r
      BY <1>0, <3>2
    <3>4. r.key = key[d] /\ r.hold = at[d]
      BY <3>1
    <3> QED BY <3>2, <3>3, <3>4
  <2>3. CASE Receipts(d) /\ Goes(d, "release", then[d], "refused")
    <3>1. pc[d] = "receipt" /\ own'[d] = own[d] /\ key'[d] = key[d] /\ at'[d] = at[d]
      BY <2>3 DEF Receipts, Goes, Same, Ended
    <3> QED BY <1>0, <3>1 DEF Listed, RowsGrow
  <2>4. CASE Begins(d) \/ Walks(d) \/ Creates(d) \/ Binds(d) \/ Decides(d) \/ ChainsDecision(d)
             \/ TakesHold(d) \/ Observes(d) \/ Marks(d)
    <3>1. pc'[d] \notin {"receipt", "release"}
      BY <2>4 DEF Begins, Walks, Creates, Binds, Decides, ChainsDecision, TakesHold, Observes, Marks,
                  Ended, Goes, Holding
    <3> QED BY <3>1
  <2>5. CASE TakesKey(d) \/ Spends(d) \/ RunsIt(d) \/ Completes(d) \/ FreesKey(d) \/ Retracts(d)
             \/ FreesHold(d)
    <3>1. pc'[d] \notin {"receipt", "release"}
      BY <2>5 DEF TakesKey, Spends, RunsIt, Completes, FreesKey, Retracts, FreesHold, Ended, Goes
    <3> QED BY <3>1
  <2>6. Receipts(d) => pc'[d] \notin {"receipt", "release"} \/ Goes(d, "release", then[d], "refused")
    BY DEF Receipts, Ended, Goes
  <2> HIDE DEF Leaves
  <2> QED BY <2>1, <2>2, <2>3, <2>4, <2>5, <2>6 DEF Effect
<1> QED BY <1>1, <1>2 DEF Listed

\* A call settles its hold exactly as long as it has the claim of it.
LEMMA SettlingClaims ==
    ASSUME CallsOK, NEW d \in Drivers, NEW h
    PROVE  Settling(d, h) <=> at[d] = h /\ Claiming(pc[d], then[d], got[d])
<1>1. Shape(d) /\ got[d] \in Results
  BY DEF CallsOK, CallShape, TypeOK
<1> QED BY <1>1 DEF Shape, ShapeOf, Results, Settling, Claiming

\* A step counts a crash or leaves the count alone.
LEMMA CrashesCounted ==
    ASSUME [Next]_vars
    PROVE  crashes' = crashes \/ \E d \in Drivers : Crash(d)
<1>1. ASSUME NEW d \in Drivers, Calls(d) PROVE crashes' = crashes
  BY <1>1 DEF Calls, SubmitRouted, Approve, Reject, RetryExecution, SubmitBlocked, SubmitApproved, Sweep,
              InvalidateSuperseded, envVars
<1>2. ASSUME NEW d \in Drivers, Step(d) PROVE crashes' = crashes
  <2>1. CASE CreateHold(d) \/ BindHold(d) \/ Scan(d) \/ (\E h \in Holds : Visit(d, h)) \/ Visited(d)
             \/ EndScan(d) \/ ChainDecision(d) \/ Review(d) \/ RefuseApproval(d)
    BY <2>1 DEF CreateHold, BindHold, Scan, Visit, Visited, EndScan, ChainDecision, Review, RefuseApproval,
                envVars
  <2>2. CASE CompareBeforeApproval(d) \/ Resolve(d) \/ Pinned(d) \/ Recheck(d) \/ Settle(d) \/ ClaimHold(d)
             \/ Observe(d) \/ MarkStateMoved(d)
    BY <2>2 DEF CompareBeforeApproval, Resolve, Pinned, Recheck, Settle, ClaimHold, Observe, MarkStateMoved,
                envVars
  <2>3. CASE ClaimAuthorization(d) \/ ChainSpend(d) \/ Run(d) \/ RecordRow(d) \/ ChainReceipt(d)
             \/ Complete(d) \/ ReleaseAuthorization(d) \/ ChainRelease(d) \/ ReleaseHold(d)
    BY <2>3 DEF ClaimAuthorization, ChainSpend, Run, RecordRow, ChainReceipt, Complete, ReleaseAuthorization,
                ChainRelease, ReleaseHold, envVars
  <2> QED BY <1>2, <2>1, <2>2, <2>3 DEF Step
<1>3. CASE (\E h \in Holds : Lapse(h)) \/ (\E t \in Targets : MoveTarget(t)) \/ RotatePolicy
           \/ UNCHANGED vars
  BY <1>3 DEF Lapse, MoveTarget, RotatePolicy, vars, envVars
<1> QED BY <1>1, <1>2, <1>3 DEF Next, Calls

\* What explains a claim without a call to settle it.
Explained(h) ==
    \/ status[h] = "state_moved"
    \/ KeyOf[h] \in mutex
    \/ \E n \in DOMAIN rows : rows[n].key = KeyOf[h] /\ rows[n].hold # h

\* A claim with an explanation keeps one: the call that gives the key back has left
\* its row under another hold, or is still settling this one.
LEMMA ExplainedStep ==
    ASSUME CallsOK, CallsOK', Listed, NEW d \in Drivers, Effect(d), NEW h \in Holds, Explained(h)
    PROVE  Explained(h)' \/ Settling(d, h)'
<1>0. TypeOK /\ RowsGrow
  BY RowsStep DEF CallsOK
<1>1. CASE status[h] = "state_moved"
  BY <1>1, HistoryStep DEF Explained
<1>2. CASE \E n \in DOMAIN rows : rows[n].key = KeyOf[h] /\ rows[n].hold # h
  BY <1>0, <1>2 DEF Explained, RowsGrow
<1>3. CASE KeyOf[h] \in mutex /\ KeyOf[h] \notin mutex'
  <2>1. FreesKey(d)
    <3>1. mutex' = mutex \/ TakesKey(d) \/ FreesKey(d)
      BY DEF Effect, Begins, Walks, Creates, Binds, Decides, ChainsDecision, TakesHold, Observes, Marks,
             Spends, RunsIt, WritesRow, Receipts, Completes, Retracts, FreesHold, spendVars
    <3> QED BY <1>3, <3>1 DEF TakesKey
  <2>2. pc[d] = "release" /\ mutex' = mutex \ {key[d]} /\ pc'[d] = "retract" /\ at'[d] = at[d]
    BY <2>1 DEF FreesKey, Goes, Same
  <2>3. key[d] = KeyOf[h]
    BY <1>3, <2>2
  <2>4. CASE at[d] = h
    BY <2>2, <2>4 DEF Settling
  <2>5. CASE at[d] # h
    <3>1. own[d] \in DOMAIN rows /\ rows[own[d]].key = KeyOf[h] /\ rows[own[d]].hold # h
      BY <2>2, <2>3, <2>5 DEF Listed
    <3> QED BY <1>0, <3>1 DEF Explained, RowsGrow
  <2> QED BY <2>4, <2>5
<1>4. CASE KeyOf[h] \in mutex'
  BY <1>4 DEF Explained
<1> QED BY <1>1, <1>2, <1>3, <1>4 DEF Explained

\* A call that settles its hold and does not die either goes on or leaves the claim
\* with an explanation, unless it gives the claim back.
LEMMA SettlingStep ==
    ASSUME CallsOK, CallsOK', MutexInv, MutexInv', MovedInv, [Next]_vars, crashes' = crashes,
           NEW h \in Holds, h \in claim', NEW d \in Drivers, Settling(d, h),
           status[h] = "state_moved" => status'[h] = "state_moved",
           runs[KeyOf[h]] > 0 => runs'[KeyOf[h]] > 0
    PROVE  Settling(d, h)' \/ Explained(h)'
<1>1. at[d] = h /\ Claiming(pc[d], then[d], got[d])
  BY SettlingClaims
<1>2. Attempt(d)
  BY <1>1, AttemptNext
<1>3. h # None /\ key[d] = KeyOf[h] /\ key[d] \in Keys
  <2>1. Shape(d) /\ h # None /\ KeyOf[h] \in Keys
    BY HeldAssumption DEF CallsOK, CallShape
  <2> QED BY <1>1, <2>1 DEF Shape, ShapeOf
<1>4. CASE at'[d] = at[d] /\ Claiming(pc'[d], then'[d], got'[d])
  <2>1. Settling(d, h)' <=> at'[d] = h /\ Claiming(pc'[d], then'[d], got'[d])
    <3>1. ShapeOf(pc'[d], verb'[d], at'[d], key'[d], cur'[d], then'[d], got'[d]) /\ got'[d] \in Results
      BY DEF CallsOK, CallShape, Shape, TypeOK
    <3> QED BY <3>1 DEF ShapeOf, Results, Settling, Claiming
  <2> QED BY <1>1, <1>4, <2>1
<1>5. CASE pc[d] = "spend" /\ key[d] \in mutex'
  BY <1>3, <1>5 DEF Explained
<1>6. CASE pc[d] = "receipt" /\ got[d] = "moved"
  <2>1. status'[h] = "state_moved"
    BY <1>1, <1>6 DEF MovedInv
  <2> QED BY <2>1 DEF Explained
<1>7. CASE pc[d] = "complete"
  <2>1. got[d] = "ran" /\ Holding(pc[d], got[d])
    BY <1>7 DEF CallsOK, CallShape, Shape, ShapeOf, Holding
  <2>2. runs[KeyOf[h]] = 1
    BY <1>3, <2>1 DEF MutexInv
  <2>3. runs'[KeyOf[h]] > 0
    BY <2>2
  <2>4. KeyOf[h] \in mutex'
    BY <1>3, <2>3 DEF MutexInv
  <2> QED BY <2>4 DEF Explained
<1> QED BY <1>1, <1>2, <1>3, <1>4, <1>5, <1>6, <1>7 DEF Attempt

\* A step in which no call dies strands no claim.
LEMMA StrandedShrinks ==
    ASSUME CallsOK, CallsOK', MutexInv, MutexInv', MovedInv, Listed, [Next]_vars, crashes' = crashes
    PROVE  Stranded' \subseteq Stranded
<1>0. claim \subseteq Holds /\ claim' \subseteq Holds
  BY DEF CallsOK, TypeOK
<1> SUFFICES ASSUME NEW h \in claim', ~ Explained(h)', \A e \in Drivers : ~ Settling(e, h)',
                    h \notin Stranded
             PROVE  FALSE
  BY DEF Stranded, Explained
<1>1. CASE UNCHANGED <<holdCore, spendVars, callVars>>
  <2>1. h \in claim /\ ~ Explained(h) /\ \A e \in Drivers : ~ Settling(e, h)
    BY <1>1 DEF Explained, Settling, holdCore, spendVars, callVars
  <2> QED BY <2>1 DEF Stranded, Explained
<1>2. ASSUME NEW d \in Drivers, Effect(d) PROVE FALSE
  <2>0. h \in Holds /\ KeyOf[h] \in Keys
    BY <1>0, HeldAssumption
  <2>1. CASE h \notin claim
    <3>1. TakesHold(d)
      <4>1. claim' = claim \/ FreesHold(d) \/ TakesHold(d)
        BY <1>2 DEF Effect, Begins, Walks, Creates, Binds, Decides, ChainsDecision, Observes, Marks, TakesKey,
                    Spends, RunsIt, WritesRow, Receipts, Completes, FreesKey, Retracts, holdCore
      <4> QED BY <2>1, <4>1 DEF FreesHold
    <3>2. claim' = claim \cup {at[d]} /\ at'[d] = at[d] /\ pc'[d] = "observe"
      BY <3>1 DEF TakesHold, Goes, Same
    <3>3. Settling(d, h)'
      BY <2>1, <3>2 DEF Settling
    <3> QED BY <3>3
  <2>2. CASE h \in claim /\ Explained(h)
    BY <1>2, <2>0, <2>2, ExplainedStep
  <2>3. ASSUME NEW e \in Drivers, Settling(e, h) PROVE FALSE
    <3>1. /\ status[h] = "state_moved" => status'[h] = "state_moved"
          /\ runs[KeyOf[h]] > 0 => runs'[KeyOf[h]] > 0
      BY <1>2, <2>0, HistoryStep
    <3> QED BY <2>0, <2>3, <3>1, SettlingStep
  <2> QED BY <2>1, <2>2, <2>3 DEF Stranded, Explained
<1> QED BY <1>1, <1>2, CallsOKStep

\* A call that dies strands the claim of its own hold, if any.
LEMMA CrashStrands ==
    ASSUME CallsOK, NEW d \in Drivers, Crash(d)
    PROVE  Stranded' \subseteq Stranded \cup {at[d]}
<1>1. /\ UNCHANGED <<claim, status, mutex, rows>>
      /\ \A e \in Drivers : e # d =>
            at'[e] = at[e] /\ pc'[e] = pc[e] /\ got'[e] = got[e] /\ then'[e] = then[e]
  BY DEF Crash, Return, Goto, holdVars, spendVars, CallsOK, TypeOK
<1> SUFFICES ASSUME NEW h \in Stranded', h # at[d] PROVE h \in Stranded
  OBVIOUS
<1>2. \A e \in Drivers : ~ Settling(e, h)
  <2>1. ~ Settling(d, h)
    BY DEF Settling
  <2>2. ASSUME NEW e \in Drivers, e # d PROVE ~ Settling(e, h)
    BY <1>1, <2>2 DEF Stranded, Settling
  <2> QED BY <2>1, <2>2
<1>3. /\ h \in claim /\ status[h] # "state_moved" /\ KeyOf[h] \notin mutex
      /\ \A n \in DOMAIN rows : rows[n].key = KeyOf[h] => rows[n].hold = h
  BY <1>1 DEF Stranded
<1> QED BY <1>2, <1>3 DEF Stranded

\* Each crash strands at most one claim, and nothing else strands any.
StrandedInv == IsFiniteSet(Stranded) /\ ClaimMeansOutcome

\* The count of the crashes bounds the claims left behind.
LEMMA StrandedStep ==
    ASSUME CallsOK, CallsOK', MutexInv, MutexInv', MovedInv, Listed, StrandedInv, [Next]_vars
    PROVE  StrandedInv'
<1>0. crashes \in Nat /\ Cardinality(Stranded) \in Nat
  <2>1. crashes \in 0..MaxCrashes
    BY DEF CallsOK, TypeOK
  <2> QED BY <2>1, FS_CardinalityType, HeldAssumption DEF StrandedInv
<1>1. CASE crashes' = crashes
  <2>1. Stranded' \subseteq Stranded
    BY <1>1, StrandedShrinks
  <2>2. IsFiniteSet(Stranded') /\ Cardinality(Stranded') <= Cardinality(Stranded)
    BY <2>1, FS_Subset DEF StrandedInv
  <2>3. Cardinality(Stranded') \in Nat
    BY <2>2, FS_CardinalityType
  <2> QED BY <1>0, <1>1, <2>2, <2>3 DEF StrandedInv, ClaimMeansOutcome
<1>2. ASSUME NEW d \in Drivers, Crash(d) PROVE StrandedInv'
  <2> DEFINE more == Stranded \cup {at[d]}
  <2>1. Stranded' \subseteq more /\ crashes' = crashes + 1
    BY <1>2, CrashStrands DEF Crash
  <2>2. IsFiniteSet(more) /\ Cardinality(more) <= Cardinality(Stranded) + 1
    <3>1. IsFiniteSet(more) /\ (Cardinality(more) = Cardinality(Stranded)
                                \/ Cardinality(more) = Cardinality(Stranded) + 1)
      BY FS_AddElement DEF StrandedInv
    <3> QED BY <1>0, <3>1
  <2> HIDE DEF more
  <2>3. IsFiniteSet(Stranded') /\ Cardinality(Stranded') <= Cardinality(more)
    BY <2>1, <2>2, FS_Subset
  <2>4. Cardinality(Stranded') \in Nat /\ Cardinality(more) \in Nat
    BY <2>2, <2>3, FS_CardinalityType
  <2> QED BY <1>0, <2>1, <2>2, <2>3, <2>4 DEF StrandedInv, ClaimMeansOutcome
<1> QED BY <1>1, <1>2, CrashesCounted

\* A refusal without a side effect gives the claim of its hold back
\* (release_pending_execution): the claims that neither a spent authorization, a moved
\* target nor another attempt with that authorization explains are no more than the
\* calls that died, whichever holds and submissions share an authorization.
THEOREM ClaimsAreSettled == Spec => []ClaimMeansOutcome
<1> DEFINE I == CallsOK /\ MutexInv /\ ApprovalInv /\ MovedInv /\ Listed /\ StrandedInv
<1>1. Init => I
  <2> SUFFICES ASSUME Init PROVE I
    OBVIOUS
  <2>1. Claims /\ Approvals
    BY DEF Init, Claims, Approvals
  <2>2. DOMAIN rows = {} /\ \A d \in Drivers : at[d] = None
    BY DEF Init
  <2>3. Executions
    BY <2>2 DEF Executions, ExecutedUnder
  <2>4. MutexInv /\ MovedInv /\ Listed
    BY DEF Init, MutexInv, Holding, MovedInv, Listed
  <2>5. StrandedInv
    <3>1. Stranded = {} /\ crashes = 0
      BY DEF Init, Stranded
    <3> QED BY <3>1, FS_EmptySet DEF StrandedInv, ClaimMeansOutcome
  <2> QED BY <2>1, <2>3, <2>4, <2>5, CallsOKInit DEF ApprovalInv
<1>2. I /\ [Next]_vars => I'
  <2> SUFFICES ASSUME CallsOK, MutexInv, ApprovalInv, MovedInv, Listed, StrandedInv, [Next]_vars PROVE I'
    OBVIOUS
  <2>1. CallsOK' /\ ApprovalInv'
    BY CallsOKStep, ApprovalStep
  <2>2. MutexInv' /\ MovedInv' /\ Listed'
    <3>1. CASE UNCHANGED <<holdCore, spendVars, callVars>>
      BY <3>1 DEF MutexInv, MovedInv, Listed, holdCore, spendVars, callVars
    <3>2. ASSUME NEW d \in Drivers, Effect(d) PROVE MutexInv' /\ MovedInv' /\ Listed'
      BY <2>1, <3>2, MutexStep, MovedStep, ListedStep
    <3> QED BY <3>1, <3>2, CallsOKStep
  <2>3. StrandedInv'
    BY <2>1, <2>2, StrandedStep
  <2> QED BY <2>1, <2>2, <2>3
<1>3. I => ClaimMeansOutcome
  BY DEF StrandedInv
<1> QED BY <1>1, <1>2, <1>3, PTL DEF Spec
=============================================================================
