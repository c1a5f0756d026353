---------------------------- MODULE HandlerEvents ----------------------------
(***************************************************************************)
(* How a handler follows the changes that others announce: the message     *)
(* broker that it subscribes to, the timer that takes one event at a time  *)
(* from the queue of the broker's client, and the reload of the            *)
(* configuration, which also replaces that client.                         *)
(*                                                                         *)
(* An event is known by its place in the log of those that were published. *)
(* A reload is known by the event that asked for it, 0 for the one that    *)
(* starts the handler.  The timer does not wait for the end of what it     *)
(* began, so any number of reloads overlap; a step of a reload ends where  *)
(* the code awaits the store, the broker or an import.                     *)
(***************************************************************************)
EXTENDS Naturals, Sequences

CONSTANTS
    Broker,        \* the broker that each configuration asks for
    Ruled,         \* the configurations with a rule for the location observed
    Broken,        \* those of them whose expression RE2 does not accept
    MaxEvents, MaxConf, MaxStarts      \* bounds on what others do

ASSUME HandlerEventsAssumption ==
    /\ MaxEvents \in Nat /\ MaxConf \in Nat \ {0} /\ MaxStarts \in Nat
    /\ Broker \in [1..MaxConf -> {"redis", "pg", "nobroker"}]
    /\ Broken \subseteq Ruled /\ Ruled \subseteq 1..MaxConf

VARIABLES
    log,           \* the actions of the events published, in their order
    saved,         \* the number of the last configuration stored
    starts, up,    \* starts of the process; does it run?
    task,          \* what each reload awaits, and the configuration it read
    reader,        \* tsv.msgBrokerReader, the client events are taken from
    looping,       \* eventLoopInterval: does the timer run?
    stopped,       \* was stopEventLoop() called?
    conditions,    \* tsv.locationCondition: whose condition each one is
    regexps,       \* tsv.locationRegexp: whose expression each one is
    applied,       \* whose defaultCondition is in force, 0 for none
    begun,         \* history: the events taken, in their order
    asked          \* history: what was stored when each reload was asked for

process == <<task, reader, looping, stopped, conditions, regexps, applied>>
vars == <<log, saved, starts, up, process, begun, asked>>

Event == 1..MaxEvents
Reload == 0..MaxEvents
Action == {"reload", "unlog"}

Elements(s) == {s[i] : i \in DOMAIN s}

Idle == [pc |-> "idle", conf |-> 0]

NoBroker(r) == [by |-> r, broker |-> "nobroker", state |-> "new",
                next |-> 0, queue |-> <<>>]

-----------------------------------------------------------------------------
Init ==
    /\ log = <<>> /\ saved = 1 /\ starts = 0 /\ up = FALSE
    /\ task = [r \in Reload |-> Idle]
    /\ reader = NoBroker(0) /\ looping = FALSE /\ stopped = FALSE
    /\ conditions = <<>> /\ regexps = <<>> /\ applied = 0
    /\ begun = <<>> /\ asked = [r \in Reload |-> 0]

Ask(r) ==
    /\ task' = [task EXCEPT ![r] = [pc |-> "conf", conf |-> 0]]
    /\ asked' = [asked EXCEPT ![r] = saved]

(* The handler is constructed and init() loads its first configuration.    *)
Start ==
    /\ ~up /\ starts < MaxStarts
    /\ up' = TRUE /\ starts' = starts + 1
    /\ Ask(0)
    /\ UNCHANGED <<log, saved, reader, looping, stopped, conditions, regexps,
                   applied, begun>>

(* The process ends and loses all that it held in memory.                  *)
Die ==
    /\ up' = FALSE
    /\ task' = [r \in Reload |-> Idle]
    /\ reader' = NoBroker(0) /\ looping' = FALSE /\ stopped' = FALSE
    /\ conditions' = <<>> /\ regexps' = <<>> /\ applied' = 0
    /\ UNCHANGED <<log, saved, starts, begun, asked>>

-----------------------------------------------------------------------------
(* The other parties: the manager and the portals.                         *)

Publish ==
    /\ Len(log) < MaxEvents
    /\ \E action \in Action : log' = Append(log, action)
    /\ UNCHANGED <<saved, starts, up, process, begun, asked>>

Save ==
    /\ saved < MaxConf
    /\ saved' = saved + 1
    /\ UNCHANGED <<log, starts, up, process, begun, asked>>

-----------------------------------------------------------------------------
(* The client of the broker.                                               *)

Live == reader.state = "live" /\ reader.broker # "nobroker"

(* The broker pushes the next event: handleMessage(), handleNotification().*)
Delivered ==
    /\ Live /\ reader.next <= Len(log)
    /\ reader' = [reader EXCEPT !.queue = Append(@, reader.next), !.next = @ + 1]
    /\ UNCHANGED <<log, saved, starts, up, task, looping, stopped, conditions,
                   regexps, applied, begun, asked>>

ConnectionLost ==
    /\ Live
    /\ reader' = [reader EXCEPT !.state = "lost"]
    /\ UNCHANGED <<log, saved, starts, up, task, looping, stopped, conditions,
                   regexps, applied, begun, asked>>

(* Mutant of Reconnected: subscribe() is called again, and resets the queue.*)
ReconnectedAnew ==
    /\ reader.state = "lost" /\ reader.broker = "redis"
    /\ reader' = [reader EXCEPT !.state = "live", !.next = Len(log) + 1,
                                !.queue = <<>>]
    /\ UNCHANGED <<log, saved, starts, up, task, looping, stopped, conditions,
                   regexps, applied, begun, asked>>

(* The Redis client subscribes again by itself, to what is published from  *)
(* then on.  That of PostgreSQL only notes that it is disconnected.        *)
Reconnected ==
    /\ reader.state = "lost" /\ reader.broker = "redis"
    /\ reader' = [reader EXCEPT !.state = "live", !.next = Len(log) + 1]
    /\ UNCHANGED <<log, saved, starts, up, task, looping, stopped, conditions,
                   regexps, applied, begun, asked>>

-----------------------------------------------------------------------------
(* The timer.                                                              *)

(* Mutant of CheckEvents: the next event waits for the end of a reload.    *)
CheckEventsInTurn ==
    /\ looping /\ reader.queue # <<>>
    /\ \A r \in Reload : task[r].pc \in {"idle", "done"}
    /\ LET event == Head(reader.queue) IN
       /\ begun' = Append(begun, event)
       /\ reader' = [reader EXCEPT !.queue = Tail(@)]
       /\ IF log[event] = "reload" THEN Ask(event) ELSE UNCHANGED <<task, asked>>
    /\ UNCHANGED <<log, saved, starts, up, looping, stopped, conditions,
                   regexps, applied>>

(* Mutant of CheckEvents: the last event of the queue is taken (pop).      *)
CheckEventsLast ==
    /\ looping /\ reader.queue # <<>>
    /\ LET last == Len(reader.queue)
           event == reader.queue[last] IN
       /\ begun' = Append(begun, event)
       /\ reader' = [reader EXCEPT !.queue = SubSeq(@, 1, last - 1)]
       /\ IF log[event] = "reload" THEN Ask(event) ELSE UNCHANGED <<task, asked>>
    /\ UNCHANGED <<log, saved, starts, up, looping, stopped, conditions,
                   regexps, applied>>

(* checkEvents() takes one event; what processMessage() does with one that *)
(* is not a reload, it does at once (localUnlog() is in module Handler).   *)
CheckEvents ==
    /\ looping /\ reader.queue # <<>>
    /\ LET event == Head(reader.queue) IN
       /\ begun' = Append(begun, event)
       /\ reader' = [reader EXCEPT !.queue = Tail(@)]
       /\ IF log[event] = "reload" THEN Ask(event) ELSE UNCHANGED <<task, asked>>
    /\ UNCHANGED <<log, saved, starts, up, looping, stopped, conditions,
                   regexps, applied>>

StopEventLoop ==
    /\ looping
    /\ looping' = FALSE /\ stopped' = TRUE
    /\ UNCHANGED <<log, saved, starts, up, task, reader, conditions, regexps,
                   applied, begun, asked>>

-----------------------------------------------------------------------------
(* reload().                                                               *)

Awaits(r, pc) == task[r].pc = pc

(* Mutant of NumberRead: the arguments of getConf() are shared, and keep    *)
(* the number that was found first.                                        *)
NumberReadOnce(r) ==
    /\ Awaits(r, "conf")
    /\ task' = [task EXCEPT ![r] =
           [pc |-> "load", conf |-> IF applied # 0 THEN applied ELSE saved]]
    /\ UNCHANGED <<log, saved, starts, up, reader, looping, stopped, conditions,
                   regexps, applied, begun, asked>>

(* Mutant of NumberRead: the number is that of the next configuration.     *)
NumberReadNext(r) ==
    /\ Awaits(r, "conf")
    /\ task' = [task EXCEPT ![r] = [pc |-> "load", conf |-> saved + 1]]
    /\ UNCHANGED <<log, saved, starts, up, reader, looping, stopped, conditions,
                   regexps, applied, begun, asked>>

(* lastCfg() has answered; the configuration of that number is loaded.     *)
NumberRead(r) ==
    /\ Awaits(r, "conf")
    /\ task' = [task EXCEPT ![r] = [pc |-> "load", conf |-> saved]]
    /\ UNCHANGED <<log, saved, starts, up, reader, looping, stopped, conditions,
                   regexps, applied, begun, asked>>

(* The new rules are pushed behind those already there: the condition      *)
(* first, then the expression, whose constructor may throw.                *)
Configure(r) ==
    /\ Awaits(r, "load")
    /\ LET conf == task[r].conf IN
       /\ conditions' = IF conf \in Ruled THEN Append(conditions, conf) ELSE conditions
       /\ IF conf \in Broken
          THEN /\ task' = [task EXCEPT ![r] = Idle]
               /\ UNCHANGED <<regexps, applied>>
          ELSE /\ task' = [task EXCEPT ![r].pc = "session"]
               /\ regexps' = IF conf \in Ruled THEN Append(regexps, conf) ELSE regexps
               /\ applied' = conf
    /\ UNCHANGED <<log, saved, starts, up, reader, looping, stopped, begun, asked>>

(* No configuration, no portal or no session storage in it.                *)
Reject(r) ==
    /\ task[r].pc \in {"conf", "load"}
    /\ task' = [task EXCEPT ![r] = Idle]
    /\ UNCHANGED <<log, saved, starts, up, reader, looping, stopped, conditions,
                   regexps, applied, begun, asked>>

(* Rejections of lastCfg(), load(), of the session module and of the       *)
(* logger are caught nowhere.                                              *)
Uncaught(r) ==
    /\ task[r].pc \in {"conf", "load", "session"}
    /\ Die

(* msgBrokerInit() has imported the module: the new client takes the place *)
(* of the old one, and of the events in its queue.                         *)
NewReader(r) ==
    /\ Awaits(r, "session")
    /\ task' = [task EXCEPT ![r].pc = "subscribe"]
    /\ reader' = [NoBroker(r) EXCEPT !.broker = Broker[task[r].conf]]
    /\ UNCHANGED <<log, saved, starts, up, looping, stopped, conditions,
                   regexps, applied, begun, asked>>

(* The broker has subscribed the client; its answer is on the way.         *)
ServerSubscribes(r) ==
    /\ Awaits(r, "subscribe")
    /\ task' = [task EXCEPT ![r].pc = "answer"]
    /\ reader' = IF reader.by = r
                 THEN [reader EXCEPT !.state = "live", !.next = Len(log) + 1]
                 ELSE reader
    /\ UNCHANGED <<log, saved, starts, up, looping, stopped, conditions,
                   regexps, applied, begun, asked>>

StartEventLoop == looping' = TRUE

(* subscribe() ends: it creates the queue, whatever came meanwhile.        *)
Subscribed(r) ==
    /\ Awaits(r, "answer")
    /\ task' = [task EXCEPT ![r].pc = "done"]
    /\ reader' = IF reader.by = r THEN [reader EXCEPT !.queue = <<>>] ELSE reader
    /\ StartEventLoop
    /\ UNCHANGED <<log, saved, starts, up, stopped, conditions, regexps,
                   applied, begun, asked>>

(* The module or the broker is out of reach: a silent client takes the     *)
(* place of the current one, be it that of another reload.                 *)
Fallback(r) ==
    /\ task[r].pc \in {"session", "subscribe", "answer"}
    /\ task' = [task EXCEPT ![r].pc = "done"]
    /\ reader' = NoBroker(r)
    /\ StartEventLoop
    /\ UNCHANGED <<log, saved, starts, up, stopped, conditions, regexps,
                   applied, begun, asked>>

-----------------------------------------------------------------------------
ReloadStep(r) ==
    \/ NumberRead(r) \/ Configure(r) \/ Reject(r) \/ Uncaught(r)
    \/ NewReader(r) \/ ServerSubscribes(r) \/ Subscribed(r) \/ Fallback(r)

Next ==
    \/ Start \/ Publish \/ Save
    \/ Delivered \/ ConnectionLost \/ Reconnected
    \/ CheckEvents \/ StopEventLoop
    \/ \E r \in Reload : ReloadStep(r)

(* The broker delivers while the connection is there; the timer goes on    *)
(* until it is stopped.  Nothing else is promised: a store or a broker may *)
(* never answer.                                                           *)
Fairness == WF_vars(Delivered) /\ WF_vars(CheckEvents)

Spec == Init /\ [][Next]_vars /\ Fairness

-----------------------------------------------------------------------------
(* Everything has its type.  (the fields of init.ts)                       *)
TypeOK ==
    /\ log \in Seq(Action) /\ Len(log) <= MaxEvents
    /\ saved \in 1..MaxConf /\ starts \in 0..MaxStarts
    /\ {up, looping, stopped} \subseteq BOOLEAN
    /\ task \in [Reload ->
           [pc : {"idle", "conf", "load", "session", "subscribe", "answer", "done"},
            conf : 0..MaxConf]]
    /\ reader \in [by : Reload, broker : {"redis", "pg", "nobroker"},
                   state : {"new", "live", "lost"},
                   next : 0..(MaxEvents + 1), queue : Seq(Event)]
    /\ conditions \in Seq(1..MaxConf) /\ regexps \in Seq(1..MaxConf)
    /\ applied \in 0..MaxConf
    /\ begun \in Seq(Event) /\ asked \in [Reload -> 0..MaxConf]

Increasing(s) == \A i, j \in DOMAIN s : i < j => s[i] < s[j]

(* However often the client is replaced or reconnected, the handler takes  *)
(* no event twice and none before an older one that it still takes.        *)
(* (message-broker-redis handleMessage, getNextMessage; init.ts            *)
(* msgBrokerInit, checkEvents)                                             *)
EventsInOrder == Increasing(begun \o reader.queue)

(* Event i is with the client in use, which has subscribed: in its queue,  *)
(* or on the way to it.                                                    *)
Pending(i) ==
    /\ up /\ task[reader.by].pc = "done"
    /\ i \in Elements(reader.queue) \/ (Live /\ i \in reader.next..Len(log))

(* An event that the client in use is to hand over leaves it only by being *)
(* taken, unless the client is replaced, the process ends, or the          *)
(* connection is lost before the event came in.  (RedisBroker.subscribe,   *)
(* getNextMessage, PgBroker.subscribe, HandlerInit.checkEvents)            *)
NothingDropped ==
    [][\A i \in Event : Pending(i) /\ ~Pending(i)' =>
         \/ i \in Elements(begun')
         \/ reader'.by # reader.by \/ ~up'
         \/ reader'.state = "lost" /\ i \notin Elements(reader.queue)]_vars

(* A reload applies a configuration at least as new as the one stored when *)
(* the event that asks for it was taken.  (HandlerInit.reload,             *)
(* Conf.getConf)                                                           *)
ReloadIsFresh ==
    \A r \in Reload : task[r].pc \in {"session", "subscribe", "answer"} =>
        task[r].conf >= asked[r]

(* An event that the client in use is to hand over does not stay with it:  *)
(* the timer runs, one event a time, also while reloads that it began      *)
(* never end.  (HandlerInit.startEventLoop, checkEvents)                   *)
EventsLeave == \A i \in Event : Pending(i) ~> ~Pending(i) \/ stopped

(* What decides at the location observed: the condition that stands beside *)
(* the first expression that matches, else the default one, of grant().    *)
Decision == IF regexps = <<>> THEN applied ELSE conditions[1]

(* Once a reload has ended, the configuration that it applied decides.     *)
(* (HandlerInit.reload, processMessage)                                    *)
ReloadTakesEffect == regexps # <<>> /\ applied # 0 => Decision = applied
=============================================================================
