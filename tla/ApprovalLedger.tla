---------------------------- MODULE ApprovalLedger ----------------------------
(***************************************************************************)
(* What the documents promise of approvals, with no word of packages,      *)
(* versions or sessions (README.md "Approval Binding", docs/SECURITY.md    *)
(* "Approval Binding", models/application.py "single-use"): an approval is *)
(* bound to one hash for ever, is spent before anything leaves the system, *)
(* and lets one message out, with the hash it is bound to.                 *)
(***************************************************************************)
EXTENDS Naturals

CONSTANTS ApprId, HashVal, NoHash

VARIABLES
    bound,    \* the hash each approval authorises
    spent,    \* the approvals that have been consumed
    uses,     \* how many calls each approval has authorised
    emitted   \* <<approval, hash of what was handed to the provider>>

ledgerVars == <<bound, spent, uses, emitted>>

LedgerInit ==
    /\ bound = [a \in ApprId |-> NoHash]
    /\ spent = {}
    /\ uses = [a \in ApprId |-> 0]
    /\ emitted = {}

GrantTo(a, h) ==
    /\ bound[a] = NoHash
    /\ bound' = [bound EXCEPT ![a] = h]
    /\ UNCHANGED <<spent, uses, emitted>>

Spend(a) ==
    /\ bound[a] # NoHash /\ a \notin spent
    /\ spent' = spent \cup {a}
    /\ UNCHANGED <<bound, uses, emitted>>

Emit(a) ==
    /\ a \in spent /\ uses[a] = 0
    /\ uses' = [uses EXCEPT ![a] = 1]
    /\ emitted' = emitted \cup {<<a, bound[a]>>}
    /\ UNCHANGED <<bound, spent>>

LedgerNext ==
    \E a \in ApprId : (\E h \in HashVal : GrantTo(a, h)) \/ Spend(a) \/ Emit(a)

LedgerSpec == LedgerInit /\ [][LedgerNext]_ledgerVars
=============================================================================
