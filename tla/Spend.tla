-------------------------------- MODULE Spend --------------------------------
(***************************************************************************)
(* ledger/spend.py: the state of one authorization, folded from the chain   *)
(* entries of its subject, and what a caller is entitled to in that state.  *)
(*                                                                         *)
(* The entries of one key are a sequence of their own.  A payload that is   *)
(* unreadable or names another key takes an edit of the database and is     *)
(* left out; a history the transition table does not permit is not.         *)
(***************************************************************************)
EXTENDS Naturals, Sequences

CONSTANT None    \* no idempotency key, no execution row

SpendEntry(idem)   == [event |-> "spend", idem |-> idem, row |-> None]
ReleaseEntry       == [event |-> "release", idem |-> None, row |-> None]
CompletedEntry(id) == [event |-> "outcome", idem |-> None, row |-> id]

Statuses == {"unspent", "spent", "completed", "released", "malformed"}

Unspent == [status |-> "unspent", idem |-> None, row |-> None]

\* The states each chain event may follow (_PERMITTED_FROM).
PermittedFrom(event) ==
    IF event = "spend" THEN {"unspent", "released"} ELSE {"spent"}

\* One step of the fold.  Once the history is malformed no later entry mends it.
Fold(s, e) ==
    IF s.status \notin PermittedFrom(e.event)
    THEN [status |-> "malformed", idem |-> None, row |-> None]
    ELSE CASE e.event = "spend"   -> [status |-> "spent", idem |-> e.idem, row |-> None]
           [] e.event = "outcome" -> [status |-> "completed", idem |-> s.idem, row |-> e.row]
           [] e.event = "release" -> [status |-> "released", idem |-> None, row |-> None]

\* spend_state: the fold of the entries in chain order.
SpendState(entries) ==
    LET state[n \in 0..Len(entries)] ==
            IF n = 0 THEN Unspent ELSE Fold(state[n - 1], entries[n])
    IN  state[Len(entries)]

\* retry_verdict for a caller that declares the key idem; expired says whether
\* the retry window since the claim has passed.  A malformed history refuses.
RetryVerdict(s, idem, expired) ==
    CASE s.status = "malformed"              -> "spend_record_unreadable"
      [] s.status \in {"unspent", "released"} -> "may_execute"
      [] s.status = "spent"                  -> "outcome_unknown"
      [] s.status = "completed" /\ idem = None   -> "replay"
      [] s.status = "completed" /\ idem # None /\ s.idem = None -> "not_retryable"
      [] s.status = "completed" /\ idem # None /\ s.idem # None /\ idem # s.idem
                                              -> "key_mismatch"
      [] OTHER -> IF expired THEN "key_expired" ELSE "return_prior"
=============================================================================
