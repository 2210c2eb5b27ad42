--------------------------- MODULE Confirmations ---------------------------
(***************************************************************************)
(* What the assistant promises about writes                                *)
(* (docs/agentic/phase-2-backend-agent.md, "Política de mutaciones"): an   *)
(* action is offered with a token, takes effect only through the token the *)
(* user confirmed and before the token expires, and a create takes effect  *)
(* at most once however often its token is presented.                      *)
(***************************************************************************)
EXTENDS Naturals, Sequences

CONSTANTS
    Actions,            \* what a mutation tool can be asked to do
    Creates             \* the actions that add a row

ASSUME CreatesAreActions == Creates \subseteq Actions

VARIABLES
    tokens,             \* the action each token was issued for, in order
    expired,            \* tokens 1 .. expired have passed their expiry
    confirmed,          \* tokens the user confirmed
    taken               \* what was done to the store under each token

confirmationVars == <<tokens, expired, confirmed, taken>>

-----------------------------------------------------------------------------
ConfirmationsTypeOK ==
    /\ tokens \in Seq(Actions)
    /\ expired \in 0 .. Len(tokens)
    /\ confirmed \subseteq DOMAIN tokens
    /\ taken \in [DOMAIN tokens -> Seq(Actions)]

Usable(t) == t \in DOMAIN tokens /\ t > expired

ConfirmationsInit ==
    /\ tokens = <<>>
    /\ expired = 0
    /\ confirmed = {}
    /\ taken = <<>>

Offer(a) ==
    /\ tokens' = Append(tokens, a)
    /\ taken' = Append(taken, <<>>)
    /\ UNCHANGED <<expired, confirmed>>

(* Every token lives as long, so they expire in the order they were issued. *)
Expire ==
    /\ expired < Len(tokens)
    /\ expired' = expired + 1
    /\ UNCHANGED <<tokens, confirmed, taken>>

Confirm(t) ==
    /\ t \in DOMAIN tokens
    /\ confirmed' = confirmed \cup {t}
    /\ UNCHANGED <<tokens, expired, taken>>

Take(t) ==
    /\ Usable(t)
    /\ t \in confirmed
    /\ tokens[t] \in Creates => taken[t] = <<>>
    /\ taken' = [taken EXCEPT ![t] = Append(@, tokens[t])]
    /\ UNCHANGED <<tokens, expired, confirmed>>

ConfirmationsNext ==
    \/ \E a \in Actions : Offer(a)
    \/ Expire
    \/ \E t \in DOMAIN tokens : Confirm(t) \/ Take(t)

ConfirmationsSpec == ConfirmationsInit /\ [][ConfirmationsNext]_confirmationVars

-----------------------------------------------------------------------------
(* Only a confirmed token changes the store, only by the action it was issued
   for, and a create does it once. *)
OnlyConfirmedOnce ==
    \A t \in DOMAIN tokens :
        /\ taken[t] # <<>> => t \in confirmed
        /\ \A i \in DOMAIN taken[t] : taken[t][i] = tokens[t]
        /\ tokens[t] \in Creates => Len(taken[t]) <= 1
=============================================================================
