----------------------------- MODULE Federation ------------------------------
(***************************************************************************)
(* The portal between the providers that its users come from and the       *)
(* service providers that they go to: the logins of RemoteLogin open the   *)
(* sessions for which SamlIssuer builds assertions, until the portal ends  *)
(* them.                                                                   *)
(***************************************************************************)
EXTENDS SamlIssuer

vars == <<remoteVars, issuerVars>>

Init == RemoteInit /\ IssuerInit

Remote == RemoteNext /\ UNCHANGED issuerVars

Issuer == IssuerNext /\ UNCHANGED remoteVars

(* The portal ends the session; what is stored for it stays.               *)
Logout(k) ==
    /\ session[k].open
    /\ session' = [session EXCEPT ![k].open = FALSE]
    /\ UNCHANGED <<conf, clock, endpoints, asked, states, answered, spent, call,
                   claims, issuerVars>>

Next == Remote \/ Issuer \/ \E k \in Calls : Logout(k)

Spec == Init /\ [][Next]_vars
==============================================================================
