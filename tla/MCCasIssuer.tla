---------------------------- MODULE MCCasIssuer ----------------------------
(* The small instances of CasIssuer.  Requests are alike, and so are the   *)
(* identifiers of tickets: no property depends on which is which.          *)
EXTENDS CasIssuer, TLC

Symmetry == Permutations(Slot) \cup Permutations(Ticket)

(* Every use of tickets, with enough of them for a chain of a service      *)
(* ticket, a PGT and a proxy ticket; they expire at different times.       *)
Tickets ==
    [kinds |-> {"login", "proxy"} \cup Validations, services |-> AllowProxy,
     faulty |-> FALSE, restarting |-> FALSE, tickets |-> 3, maxClock |-> 1,
     maxLogouts |-> 0]

(* A logout of an application while another one registers, while the store *)
(* may fail and the process may restart.                                   *)
Logouts ==
    [kinds |-> {"login", "logout", "serviceValidate"}, services |-> Service,
     faulty |-> TRUE, restarting |-> TRUE, tickets |-> 2, maxClock |-> 0,
     maxLogouts |-> 1]

TicketsAndLogouts == <<Tickets, Logouts>>

=============================================================================
