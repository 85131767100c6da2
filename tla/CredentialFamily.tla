-------------------------- MODULE CredentialFamily --------------------------
(***************************************************************************)
(* What the authorization server promises about a family of credentials,   *)
(* with no tables, clocks, handlers or players: a family is opened once    *)
(* with one redeemable credential; redeeming trades that credential for at *)
(* most one that was never seen before; and a family only ever fades, for  *)
(* good, whatever the reason (expiry, revocation, replay, deletion).       *)
(***************************************************************************)
CONSTANTS Family, Credential

VARIABLES
  status,      \* of each family: "none", "live" or "dead"
  redeemable,  \* of each family: what can still be traded for tokens
  known        \* every credential ever handed out

fvars == <<status, redeemable, known>>

Init ==
  /\ status = [f \in Family |-> "none"]
  /\ redeemable = [f \in Family |-> {}]
  /\ known = {}

Open(f, k) ==
  /\ status[f] = "none"
  /\ k \notin known
  /\ status' = [status EXCEPT ![f] = "live"]
  /\ redeemable' = [redeemable EXCEPT ![f] = {k}]
  /\ known' = known \cup {k}

\* The successor, if the family can be refreshed, is as fresh as the tokens that
\* come with it.
Redeem(f, k) ==
  /\ status[f] = "live"
  /\ redeemable[f] = {k}
  /\ redeemable' \in [Family -> SUBSET Credential]
  /\ \A e \in Family \ {f} : redeemable'[e] = redeemable[e]
  /\ redeemable'[f] \subseteq known' \ known
  /\ \A i, j \in redeemable'[f] : i = j
  /\ known \subseteq known'
  /\ UNCHANGED status

\* Time, revocation and deletion: families die, credentials lapse.
Fade ==
  /\ UNCHANGED known
  /\ status' \in [Family -> {"none", "live", "dead"}]
  /\ \A f \in Family : \/ status'[f] = status[f]
                       \/ status[f] = "live" /\ status'[f] = "dead"
  /\ redeemable' \in [Family -> SUBSET Credential]
  /\ \A f \in Family : redeemable'[f] \subseteq redeemable[f]

Next ==
  \/ Fade
  \/ \E f \in Family, k \in Credential : Open(f, k)
  \/ \E f \in Family, k \in Credential : Redeem(f, k)

Spec == Init /\ [][Next]_fvars

=============================================================================
