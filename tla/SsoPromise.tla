----------------------------- MODULE SsoPromise -----------------------------
(***************************************************************************)
(* What single sign-on promises to users and applications, in terms of     *)
(* what they see: cookies, accesses and logouts.  No store, no cache and   *)
(* no request in progress.                                                 *)
(*                                                                         *)
(* Access to an application is granted only to a session whose cookie was  *)
(* given, not later than Lifetime after it was created and not later than  *)
(* Window after the portal answered its logout.                            *)
(***************************************************************************)
EXTENDS Integers

CONSTANTS
    Id,
    Lifetime,   \* how long after its creation a session gives access
    Window      \* how long it still does after its logout

VARIABLES clock, born, cookie, loggedOut, granted

vars == <<clock, born, cookie, loggedOut, granted>>

Init ==
    /\ clock \in Nat \ {0}
    /\ born = [i \in Id |-> 0]
    /\ cookie = {}
    /\ loggedOut = [i \in Id |-> 0]
    /\ granted = [i \in Id |-> 0]

Tick ==
    /\ clock' = clock + 1
    /\ UNCHANGED <<born, cookie, loggedOut, granted>>

Create(i) ==
    /\ born[i] = 0
    /\ born' = [born EXCEPT ![i] = clock]
    /\ UNCHANGED <<clock, cookie, loggedOut, granted>>

Open(i) ==
    /\ born[i] # 0
    /\ cookie' = cookie \cup {i}
    /\ UNCHANGED <<clock, born, loggedOut, granted>>

Logout(i) ==
    /\ i \in cookie
    /\ loggedOut' = [loggedOut EXCEPT ![i] = IF @ = 0 THEN clock ELSE @]
    /\ UNCHANGED <<clock, born, cookie, granted>>

Grant(i) ==
    /\ i \in cookie
    /\ clock <= born[i] + Lifetime
    /\ loggedOut[i] # 0 => clock <= loggedOut[i] + Window
    /\ granted' = [granted EXCEPT ![i] = clock]
    /\ UNCHANGED <<clock, born, cookie, loggedOut>>

Next ==
    \/ Tick
    \/ \E i \in Id : Create(i) \/ Open(i) \/ Logout(i) \/ Grant(i)

Spec == Init /\ [][Next]_vars

=============================================================================
