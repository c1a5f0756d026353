---------------------------- MODULE MCSsoFaults ----------------------------
(* Two small instances of Sso with a store that may fail any call, one of  *)
(* which is chosen at the start.  In Expiring _lastSeen is written back at *)
(* each access to the session; in Answering the user also logs out and     *)
(* changes the password, and everything that is ready is served.           *)
EXTENDS Integers

CONSTANTS
    Handlers, Portals, Slots, Id, Obj, Timeout, MemTime, Latency, Internal,
    NoId, NoRef, NoSession, Waiting

VARIABLES
    instance,
    clock, store, heap, mem, last, ready, task, writes, cookie, granted, born,
    loggedOut

Expiring ==
    INSTANCE Sso WITH MaxClock <- 5, TimeoutActivity <- 1, RefreshDelay <- 0,
                      Requests <- {}, UpdateInserts <- TRUE, Faulty <- TRUE,
                      Crashing <- {}

Answering ==
    INSTANCE Sso WITH MaxClock <- 3, TimeoutActivity <- 0, RefreshDelay <- 0,
                      Requests <- {"logout", "password"},
                      UpdateInserts <- TRUE, Faulty <- TRUE, Crashing <- {}

Init ==
    \/ instance = "expiring" /\ Expiring!Init
    \/ instance = "answering" /\ Answering!Init

Next ==
    /\ UNCHANGED instance
    /\ \/ instance = "expiring" /\ Expiring!Next
       \/ instance = "answering" /\ Answering!Next

(* The fairness of Sso, for the instance that is about answers.            *)
Fairness ==
    /\ \A t \in Answering!Task :
         WF_Answering!vars(instance = "answering" /\ Answering!StoreAnswers(t))
    /\ \A t \in Handlers \X Slots :
         WF_Answering!vars(instance = "answering"
                             /\ Answering!HandlerResumes(t))
    /\ \A t \in Portals \X Slots :
         WF_Answering!vars(instance = "answering" /\ Answering!PortalResumes(t))

Spec == Init /\ [][Next]_<<instance, Expiring!vars>> /\ Fairness

(* Every request is answered, whatever the store does: see Sso.            *)
RequestsAnswered ==
    instance = "answering" => Answering!RequestsAnswered

(* The promise made to users holds while the store fails: see SsoPromise,  *)
(* which the handlers' timeout and caches implement.                       *)
PromiseKept ==
    /\ instance = "expiring" => Expiring!Promise!Init
    /\ [][instance = "expiring" => Expiring!Promise!Next]_Expiring!Promise!vars

=============================================================================
