----------------------------- MODULE SingleUse -----------------------------
(***************************************************************************)
(* What an authorization promises (ledger/spend.py): it is claimed before   *)
(* anything is done in its name, it takes effect at most once, and it is    *)
(* given back only while nothing has been done.                             *)
(***************************************************************************)
EXTENDS Naturals

CONSTANT Authorizations

VARIABLES
    record,   \* record[a]: "open", "claimed" or "done"
    effects   \* effects[a]: how often the authorized action has taken effect

singleUseVars == <<record, effects>>

SingleUseInit ==
    /\ record = [a \in Authorizations |-> "open"]
    /\ effects = [a \in Authorizations |-> 0]

Moves(a, from, to) == record[a] = from /\ record' = [record EXCEPT ![a] = to]

Claim(a) == Moves(a, "open", "claimed") /\ UNCHANGED effects

TakeEffect(a) ==
    /\ record[a] = "claimed" /\ effects[a] = 0
    /\ effects' = [effects EXCEPT ![a] = 1]
    /\ UNCHANGED record

GiveBack(a) == Moves(a, "claimed", "open") /\ effects[a] = 0 /\ UNCHANGED effects

Settle(a) == Moves(a, "claimed", "done") /\ UNCHANGED effects

SingleUseNext ==
    \E a \in Authorizations : Claim(a) \/ TakeEffect(a) \/ GiveBack(a) \/ Settle(a)

SingleUseSpec == SingleUseInit /\ [][SingleUseNext]_singleUseVars
=============================================================================
