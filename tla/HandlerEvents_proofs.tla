------------------------ MODULE HandlerEvents_proofs ------------------------
(***************************************************************************)
(* Proofs about HandlerEvents, for any number of events, configurations    *)
(* and starts of the process: type correctness, the order in which events  *)
(* are taken, the freshness of what a reload applies, and that no event is *)
(* dropped by a client that stays.                                         *)
(***************************************************************************)
EXTENDS HandlerEvents, TLAPS

(* A reload that is past getConf() has the number of a configuration, one  *)
(* at least as new as what was stored when it was asked for.               *)
Fresh ==
    /\ \A r \in Reload : asked[r] <= saved
    /\ \A r \in Reload : task[r].pc \in {"load", "session", "subscribe", "answer"} =>
           task[r].conf \in 1..MaxConf /\ asked[r] <= task[r].conf

Before(s, t) == \A i \in DOMAIN s, j \in DOMAIN t : s[i] < t[j]

Below(s, n) == \A i \in DOMAIN s : s[i] < n

(* What was taken precedes what is queued, and that what comes next.       *)
Order ==
    /\ Increasing(begun) /\ Increasing(reader.queue)
    /\ Before(begun, reader.queue)
    /\ Below(begun, Len(log) + 1)
    /\ reader.state = "new" => reader.queue = <<>>
    /\ reader.state # "new" =>
           /\ reader.next \in 1..(Len(log) + 1)
           /\ Below(begun, reader.next) /\ Below(reader.queue, reader.next)

IInv == TypeOK /\ Fresh /\ Order

-----------------------------------------------------------------------------
(* Sequences *)

LEMMA Empty == ASSUME NEW S PROVE <<>> \in Seq(S) /\ Len(<<>>) = 0
OBVIOUS

LEMMA Appended ==
    ASSUME NEW S, NEW s \in Seq(S), NEW e \in S
    PROVE  Append(s, e) \in Seq(S) /\ Len(Append(s, e)) = Len(s) + 1
OBVIOUS

LEMMA AppendBelow ==
    ASSUME NEW s \in Seq(Nat), Increasing(s), NEW n \in Nat, Below(s, n)
    PROVE  Increasing(Append(s, n)) /\ Below(Append(s, n), n + 1)
BY DEF Increasing, Below

LEMMA BelowMore ==
    ASSUME NEW s \in Seq(Nat), NEW n \in Nat, NEW m \in Nat, n <= m, Below(s, n)
    PROVE  Below(s, m)
BY DEF Below

LEMMA TakeFirst ==
    ASSUME NEW b \in Seq(Nat), NEW q \in Seq(Nat), q # <<>>,
           Increasing(b), Increasing(q), Before(b, q)
    PROVE  /\ Increasing(Append(b, Head(q))) /\ Increasing(Tail(q))
           /\ Before(Append(b, Head(q)), Tail(q))
           /\ \A n \in Nat : Below(b, n) /\ Below(q, n) =>
                  Below(Append(b, Head(q)), n) /\ Below(Tail(q), n)
<1>1. Head(q) = q[1] /\ Head(q) \in Nat /\ 1 \in DOMAIN q
  OBVIOUS
<1>2. DOMAIN Tail(q) = 1..(Len(q) - 1)
      /\ \A j \in DOMAIN Tail(q) : Tail(q)[j] = q[j + 1] /\ j + 1 \in DOMAIN q
  OBVIOUS
<1>3. DOMAIN Append(b, Head(q)) = 1..(Len(b) + 1)
      /\ \A i \in DOMAIN Append(b, Head(q)) :
            Append(b, Head(q))[i] = IF i \in DOMAIN b THEN b[i] ELSE q[1]
  BY <1>1
<1>4. Increasing(Append(b, Head(q)))
  BY <1>1, <1>3 DEF Increasing, Before
<1>5. Increasing(Tail(q))
  BY <1>2 DEF Increasing
<1>6. Before(Append(b, Head(q)), Tail(q))
  BY SMTT(30), <1>1, <1>2, <1>3 DEF Increasing, Before
<1>7. ASSUME NEW n \in Nat, Below(b, n), Below(q, n)
      PROVE  Below(Append(b, Head(q)), n) /\ Below(Tail(q), n)
  BY <1>1, <1>2, <1>3, <1>7 DEF Below
<1> QED BY <1>4, <1>5, <1>6, <1>7

LEMMA Joined ==
    ASSUME NEW b \in Seq(Nat), NEW q \in Seq(Nat),
           Increasing(b), Increasing(q), Before(b, q)
    PROVE  Increasing(b \o q)
BY SMTT(30) DEF Increasing, Before

LEMMA EventsAreNumbers ==
    ASSUME TypeOK
    PROVE  begun \in Seq(Nat) /\ reader.queue \in Seq(Nat)
<1>1. \A s \in Seq(Event) : s \in Seq(Nat)
  BY HandlerEventsAssumption DEF Event
<1> QED BY <1>1 DEF TypeOK

-----------------------------------------------------------------------------
LEMMA Initially == Init => IInv
<1> SUFFICES ASSUME Init PROVE IInv
  OBVIOUS
<1>1. TypeOK
  <2>1. log \in Seq(Action) /\ Len(log) <= MaxEvents /\ begun \in Seq(Event)
        /\ conditions \in Seq(1..MaxConf) /\ regexps \in Seq(1..MaxConf)
    <3>1. MaxEvents \in Nat
      BY HandlerEventsAssumption
    <3> QED BY <3>1, Empty DEF Init
  <2>2. saved \in 1..MaxConf /\ starts \in 0..MaxStarts /\ applied \in 0..MaxConf
        /\ {up, looping, stopped} \subseteq BOOLEAN
    <3>1. MaxConf \in Nat \ {0} /\ MaxStarts \in Nat
      BY HandlerEventsAssumption
    <3>2. {up, looping, stopped} \subseteq BOOLEAN
      BY DEF Init
    <3>3. saved \in 1..MaxConf /\ starts \in 0..MaxStarts /\ applied \in 0..MaxConf
      BY <3>1 DEF Init
    <3> QED BY <3>2, <3>3
  <2>3. task \in [Reload ->
           [pc : {"idle", "conf", "load", "session", "subscribe", "answer", "done"},
            conf : 0..MaxConf]]
        /\ asked \in [Reload -> 0..MaxConf]
    BY HandlerEventsAssumption DEF Init, Idle
  <2>4. reader \in [by : Reload, broker : {"redis", "pg", "nobroker"},
                    state : {"new", "live", "lost"},
                    next : 0..(MaxEvents + 1), queue : Seq(Event)]
    BY HandlerEventsAssumption DEF Init, NoBroker, Reload
  <2> QED BY <2>1, <2>2, <2>3, <2>4 DEF TypeOK
<1>2. Fresh
  BY HandlerEventsAssumption DEF Init, Fresh, Idle
<1>3. Order
  BY DEF Init, Order, Increasing, Before, Below, NoBroker
<1> QED BY <1>1, <1>2, <1>3 DEF IInv

-----------------------------------------------------------------------------
(* Types *)

TaskState == [pc : {"idle", "conf", "load", "session", "subscribe", "answer", "done"},
              conf : 0..MaxConf]

ReaderState == [by : Reload, broker : {"redis", "pg", "nobroker"},
                state : {"new", "live", "lost"},
                next : 0..(MaxEvents + 1), queue : Seq(Event)]

LEMMA NoBrokerType == ASSUME NEW r \in Reload PROVE NoBroker(r) \in ReaderState
BY HandlerEventsAssumption DEF NoBroker, ReaderState

LEMMA AskType ==
    ASSUME TypeOK, NEW r \in Reload, Ask(r)
    PROVE  task' \in [Reload -> TaskState] /\ asked' \in [Reload -> 0..MaxConf]
BY HandlerEventsAssumption DEF TypeOK, Ask, TaskState

(* Of a step that leaves the log, the store and the process as they are.   *)
LEMMA Elsewhere ==
    ASSUME TypeOK, UNCHANGED <<log, saved, starts, up>>,
           task' \in [Reload -> TaskState], reader' \in ReaderState,
           {looping', stopped'} \subseteq BOOLEAN,
           conditions' \in Seq(1..MaxConf), regexps' \in Seq(1..MaxConf),
           applied' \in 0..MaxConf,
           begun' \in Seq(Event), asked' \in [Reload -> 0..MaxConf]
    PROVE  TypeOK'
BY DEF TypeOK, TaskState, ReaderState

LEMMA TypeStep == IInv /\ [Next]_vars => TypeOK'
<1> SUFFICES ASSUME IInv, [Next]_vars PROVE TypeOK'
  OBVIOUS
<1> USE HandlerEventsAssumption
<1>0. TypeOK /\ Fresh /\ Order
  BY DEF IInv
<1>t. task \in [Reload -> TaskState] /\ reader \in ReaderState
  BY <1>0 DEF TypeOK, TaskState, ReaderState
<1>d. ASSUME Die PROVE TypeOK'
  <2>1. 0 \in Reload /\ NoBroker(0) \in ReaderState
    BY NoBrokerType DEF Reload
  <2>2. reader' \in ReaderState
    BY <1>d, <2>1 DEF Die
  <2>3. task' \in [Reload -> TaskState]
    BY <1>d DEF Die, Idle, TaskState
  <2>4. conditions' \in Seq(1..MaxConf) /\ regexps' \in Seq(1..MaxConf)
        /\ applied' \in 0..MaxConf
    BY <1>d, Empty DEF Die
  <2>5. {up', looping', stopped'} \subseteq BOOLEAN
    BY <1>d DEF Die
  <2>6. UNCHANGED <<log, saved, starts, begun, asked>>
    BY <1>d DEF Die
  <2> QED BY <1>0, <2>2, <2>3, <2>4, <2>5, <2>6 DEF TypeOK, TaskState, ReaderState
<1>1. CASE Start
  <2>1. task' \in [Reload -> TaskState] /\ asked' \in [Reload -> 0..MaxConf]
    BY <1>0, <1>1, AskType DEF Start, Reload
  <2> QED BY <1>0, <1>1, <2>1 DEF Start, TypeOK, TaskState
<1>2. CASE Publish
  <2>1. PICK action \in Action : log' = Append(log, action)
    BY <1>2 DEF Publish
  <2>2. log \in Seq(Action) /\ Len(log) \in Nat
    BY <1>0 DEF TypeOK
  <2>3. log' \in Seq(Action) /\ Len(log') <= MaxEvents
    BY <1>2, <2>1, <2>2, Appended DEF Publish
  <2>4. UNCHANGED <<saved, starts, up, task, reader, looping, stopped,
                    conditions, regexps, applied, begun, asked>>
    BY <1>2 DEF Publish, process
  <2> QED BY <1>0, <2>3, <2>4 DEF TypeOK
<1>3. CASE Save
  BY <1>0, <1>3 DEF Save, TypeOK, process
<1>4. CASE Delivered
  <2>1. reader.next \in Event /\ reader.next + 1 \in 0..(MaxEvents + 1)
    BY SMTT(30), <1>0, <1>t, <1>4 DEF Delivered, Live, Order, Event, TypeOK, ReaderState
  <2>2. reader' \in ReaderState
    <3>1. Append(reader.queue, reader.next) \in Seq(Event)
      BY <1>t, <2>1, Appended DEF ReaderState
    <3> QED BY <1>t, <1>4, <2>1, <3>1 DEF Delivered, ReaderState
  <2> QED BY <1>0, <1>t, <1>4, <2>2, Elsewhere DEF Delivered, TypeOK
<1>5. CASE ConnectionLost
  <2>1. reader' \in ReaderState
    BY <1>t, <1>5 DEF ConnectionLost, ReaderState
  <2> QED BY <1>0, <1>t, <1>5, <2>1, Elsewhere DEF ConnectionLost, TypeOK
<1>6. CASE Reconnected
  <2>1. Len(log) + 1 \in 0..(MaxEvents + 1)
    BY <1>0 DEF TypeOK
  <2>2. reader' \in ReaderState
    BY <1>t, <1>6, <2>1 DEF Reconnected, ReaderState
  <2> QED BY <1>0, <1>t, <1>6, <2>2, Elsewhere DEF Reconnected, TypeOK
<1>7. CASE CheckEvents
  <2> DEFINE event == Head(reader.queue)
  <2>1. event \in Event /\ event \in Reload /\ Tail(reader.queue) \in Seq(Event)
    BY <1>t, <1>7 DEF CheckEvents, ReaderState, Event, Reload
  <2>2. reader' \in ReaderState /\ begun' \in Seq(Event)
    <3>1. begun' \in Seq(Event)
      BY <1>0, <1>7, <2>1, Appended DEF CheckEvents, TypeOK
    <3>2. reader' = [reader EXCEPT !.queue = Tail(@)]
      BY <1>7 DEF CheckEvents
    <3> QED BY <1>t, <2>1, <3>1, <3>2 DEF ReaderState
  <2>3. task' \in [Reload -> TaskState] /\ asked' \in [Reload -> 0..MaxConf]
    BY <1>0, <1>t, <1>7, <2>1, AskType DEF CheckEvents, TypeOK
  <2> QED BY <1>0, <1>7, <2>2, <2>3, Elsewhere DEF CheckEvents, TypeOK
<1>8. CASE StopEventLoop
  BY <1>0, <1>t, <1>8, Elsewhere DEF StopEventLoop, TypeOK
<1>9. ASSUME NEW r \in Reload, ReloadStep(r) PROVE TypeOK'
  <2>1. CASE NumberRead(r)
    <3>1. task' \in [Reload -> TaskState]
      BY <1>0, <1>t, <2>1 DEF NumberRead, TypeOK, TaskState
    <3> QED BY <1>0, <1>t, <2>1, <3>1, Elsewhere DEF NumberRead, TypeOK
  <2>2. CASE Configure(r)
    <3>1. task[r].conf \in 1..MaxConf /\ task[r].conf \in 0..MaxConf
      BY <1>0, <2>2 DEF Configure, Awaits, Fresh
    <3>2. conditions' \in Seq(1..MaxConf) /\ regexps' \in Seq(1..MaxConf)
          /\ applied' \in 0..MaxConf
      <4>1. Append(conditions, task[r].conf) \in Seq(1..MaxConf)
            /\ Append(regexps, task[r].conf) \in Seq(1..MaxConf)
        BY <1>0, <3>1, Appended DEF TypeOK
      <4> QED BY <1>0, <2>2, <3>1, <4>1 DEF Configure, TypeOK
    <3>3. task' \in [Reload -> TaskState]
      BY <1>t, <2>2 DEF Configure, TaskState, Idle
    <3> QED BY <1>0, <1>t, <2>2, <3>2, <3>3, Elsewhere DEF Configure, TypeOK
  <2>3. CASE Reject(r)
    <3>1. task' \in [Reload -> TaskState]
      BY <1>t, <2>3 DEF Reject, TaskState, Idle
    <3> QED BY <1>0, <1>t, <2>3, <3>1, Elsewhere DEF Reject, TypeOK
  <2>4. CASE Uncaught(r)
    BY <2>4, <1>d DEF Uncaught
  <2>5. CASE NewReader(r)
    <3>1. Broker[task[r].conf] \in {"redis", "pg", "nobroker"}
      BY <1>0, <2>5 DEF NewReader, Awaits, Fresh
    <3>2. NoBroker(r) \in ReaderState
      BY NoBrokerType
    <3>3. reader' \in ReaderState
      BY <2>5, <3>1, <3>2 DEF NewReader, ReaderState
    <3>4. task' \in [Reload -> TaskState]
      BY <1>t, <2>5 DEF NewReader, TaskState
    <3> QED BY <1>0, <2>5, <3>3, <3>4, Elsewhere DEF NewReader, TypeOK
  <2>6. CASE ServerSubscribes(r)
    <3>1. Len(log) + 1 \in 0..(MaxEvents + 1)
      BY <1>0 DEF TypeOK
    <3>2. reader' \in ReaderState /\ task' \in [Reload -> TaskState]
      BY <1>t, <2>6, <3>1 DEF ServerSubscribes, ReaderState, TaskState
    <3> QED BY <1>0, <2>6, <3>2, Elsewhere DEF ServerSubscribes, TypeOK
  <2>7. CASE Subscribed(r)
    <3>1. reader' \in ReaderState
      BY <1>t, <2>7, Empty DEF Subscribed, ReaderState
    <3>2. task' \in [Reload -> TaskState]
      BY <1>t, <2>7 DEF Subscribed, TaskState
    <3> QED BY <1>0, <2>7, <3>1, <3>2, Elsewhere DEF Subscribed, StartEventLoop, TypeOK
  <2>8. CASE Fallback(r)
    <3>1. reader' \in ReaderState
      BY <2>8, NoBrokerType DEF Fallback
    <3>2. task' \in [Reload -> TaskState]
      BY <1>t, <2>8 DEF Fallback, TaskState
    <3> QED BY <1>0, <2>8, <3>1, <3>2, Elsewhere DEF Fallback, StartEventLoop, TypeOK
  <2> QED BY <1>9, <2>1, <2>2, <2>3, <2>4, <2>5, <2>6, <2>7, <2>8 DEF ReloadStep
<1>10. CASE UNCHANGED vars
  BY <1>0, <1>10 DEF vars, process, TypeOK
<1> QED BY <1>1, <1>2, <1>3, <1>4, <1>5, <1>6, <1>7, <1>8, <1>9, <1>10 DEF Next

-----------------------------------------------------------------------------
(* Freshness *)

(* Of a step that moves one reload from one place to another.              *)
LEMMA FreshMove ==
    ASSUME TypeOK, Fresh, saved' = saved, asked' = asked, NEW r \in Reload, NEW v,
           task' = [task EXCEPT ![r] = v],
           v.pc \in {"load", "session", "subscribe", "answer"} =>
               v.conf \in 1..MaxConf /\ asked[r] <= v.conf
    PROVE  Fresh'
BY DEF TypeOK, Fresh

LEMMA FreshAsk ==
    ASSUME TypeOK, Fresh, saved' = saved, NEW r \in Reload, Ask(r)
    PROVE  Fresh'
BY DEF TypeOK, Fresh, Ask

LEMMA FreshStep == IInv /\ [Next]_vars => Fresh'
<1> SUFFICES ASSUME IInv, [Next]_vars PROVE Fresh'
  OBVIOUS
<1>0. TypeOK /\ Fresh
  BY DEF IInv
<1>d. ASSUME Die PROVE Fresh'
  BY <1>0, <1>d DEF Die, Fresh, Idle
<1>1. CASE Start
  BY <1>0, <1>1, FreshAsk, HandlerEventsAssumption DEF Start, Reload
<1>2. CASE Publish
  BY <1>0, <1>2 DEF Publish, process, Fresh
<1>3. CASE Save
  BY <1>0, <1>3 DEF Save, process, Fresh, TypeOK
<1>4. CASE Delivered \/ ConnectionLost \/ Reconnected
  BY <1>0, <1>4 DEF Delivered, ConnectionLost, Reconnected, Fresh
<1>5. CASE CheckEvents
  <2>1. Head(reader.queue) \in Reload
    <3>1. reader.queue \in Seq(Event) /\ reader.queue # <<>>
      BY <1>0, <1>5 DEF CheckEvents, TypeOK
    <3>2. Head(reader.queue) \in Event
      BY <3>1
    <3> QED BY <3>2, HandlerEventsAssumption DEF Event, Reload
  <2>2. saved' = saved
        /\ (Ask(Head(reader.queue)) \/ (task' = task /\ asked' = asked))
    BY <1>5 DEF CheckEvents
  <2> QED BY <1>0, <2>1, <2>2, FreshAsk DEF Fresh
<1>6. CASE StopEventLoop
  BY <1>0, <1>6 DEF StopEventLoop, Fresh
<1>7. ASSUME NEW r \in Reload, ReloadStep(r) PROVE Fresh'
  <2>0. /\ task \in [Reload -> [pc : {"idle", "conf", "load", "session",
                                      "subscribe", "answer", "done"},
                                conf : 0..MaxConf]]
        /\ saved \in 1..MaxConf /\ asked[r] <= saved
    BY <1>0 DEF TypeOK, Fresh
  <2>1. CASE NumberRead(r)
    BY <1>0, <2>0, <2>1, FreshMove DEF NumberRead
  <2>2. CASE Configure(r)
    <3>1. CASE task[r].conf \in Broken
      BY <1>0, <2>0, <2>2, <3>1, FreshMove DEF Configure, Idle
    <3>2. CASE task[r].conf \notin Broken
      <4> DEFINE v == [task[r] EXCEPT !.pc = "session"]
      <4>1. v.conf \in 1..MaxConf /\ asked[r] <= v.conf
        BY <1>0, <2>0, <2>2 DEF Configure, Awaits, Fresh
      <4>2. task' = [task EXCEPT ![r] = v] /\ saved' = saved /\ asked' = asked
        BY <2>0, <2>2, <3>2 DEF Configure
      <4> HIDE DEF v
      <4> QED BY <1>0, <4>1, <4>2, FreshMove
    <3> QED BY <3>1, <3>2
  <2>3. CASE Reject(r)
    BY <1>0, <2>3, FreshMove DEF Reject, Idle
  <2>4. CASE Uncaught(r)
    BY <2>4, <1>d DEF Uncaught
  <2>5. CASE NewReader(r) \/ ServerSubscribes(r)
    <3> DEFINE v == [task[r] EXCEPT !.pc = task'[r].pc]
    <3>1. v.conf \in 1..MaxConf /\ asked[r] <= v.conf
      BY <1>0, <2>0, <2>5 DEF NewReader, ServerSubscribes, Awaits, Fresh
    <3>2. task' = [task EXCEPT ![r] = v] /\ saved' = saved /\ asked' = asked
      BY <2>0, <2>5 DEF NewReader, ServerSubscribes
    <3> HIDE DEF v
    <3> QED BY <1>0, <3>1, <3>2, FreshMove
  <2>6. CASE Subscribed(r) \/ Fallback(r)
    <3> DEFINE v == [task[r] EXCEPT !.pc = "done"]
    <3>1. v.pc = "done"
      BY <2>0
    <3>2. task' = [task EXCEPT ![r] = v] /\ saved' = saved /\ asked' = asked
      BY <2>0, <2>6 DEF Subscribed, Fallback
    <3> HIDE DEF v
    <3> QED BY <1>0, <3>1, <3>2, FreshMove
  <2> QED BY <1>7, <2>1, <2>2, <2>3, <2>4, <2>5, <2>6 DEF ReloadStep
<1>8. CASE UNCHANGED vars
  BY <1>0, <1>8 DEF vars, process, Fresh
<1> QED BY <1>1, <1>2, <1>3, <1>4, <1>5, <1>6, <1>7, <1>8 DEF Next

-----------------------------------------------------------------------------
(* Order *)

(* Of a step that touches neither the events taken nor the client.         *)
LEMMA OrderKept ==
    ASSUME TypeOK, Order, begun' = begun, reader' = reader, log' = log
    PROVE  Order'
BY DEF Order, Increasing, Before, Below

(* Of a step after which the client in use has an empty queue, and no      *)
(* event that was published before it was subscribed is to come.           *)
LEMMA OrderAnew ==
    ASSUME TypeOK, Order, begun' = begun, log' = log, reader'.queue = <<>>,
           \/ reader'.state = "new"
           \/ reader'.next = Len(log) + 1
           \/ reader'.state = reader.state /\ reader'.next = reader.next
    PROVE  Order'
<1>1. Len(log) \in Nat
  BY DEF TypeOK
<1>2. Below(begun, Len(log) + 1)
  BY DEF Order
<1> QED BY <1>1, <1>2 DEF Order, Increasing, Before, Below

LEMMA QueueIsPast ==
    ASSUME TypeOK, Order
    PROVE  Below(reader.queue, Len(log) + 1)
<1>1. reader.queue \in Seq(Nat) /\ Len(log) \in Nat
  BY EventsAreNumbers DEF TypeOK
<1>2. CASE reader.state = "new"
  <2>1. DOMAIN reader.queue = {}
    BY <1>2 DEF Order
  <2> QED BY <2>1 DEF Below
<1>3. CASE reader.state # "new"
  <2>1. /\ reader.next \in Nat /\ reader.next <= Len(log) + 1
        /\ Below(reader.queue, reader.next)
    BY <1>1, <1>3 DEF Order
  <2>2. Len(log) + 1 \in Nat
    BY <1>1
  <2> QED BY <1>1, <2>1, <2>2, BelowMore
<1> QED BY <1>2, <1>3

LEMMA OrderStep == IInv /\ [Next]_vars => Order'
<1> SUFFICES ASSUME IInv, [Next]_vars PROVE Order'
  OBVIOUS
<1>0. TypeOK /\ Order
  BY DEF IInv
<1>n. /\ begun \in Seq(Nat) /\ reader.queue \in Seq(Nat)
      /\ Len(log) \in Nat /\ log \in Seq(Action)
      /\ reader.next \in Nat
      /\ reader \in [by : Reload, broker : {"redis", "pg", "nobroker"},
                     state : {"new", "live", "lost"},
                     next : 0..(MaxEvents + 1), queue : Seq(Event)]
  BY <1>0, EventsAreNumbers, HandlerEventsAssumption DEF TypeOK
<1>d. ASSUME Die PROVE Order'
  BY <1>0, <1>d, OrderAnew DEF Die, NoBroker
<1>1. CASE Start \/ Save \/ StopEventLoop
  BY <1>0, <1>1, OrderKept DEF Start, Save, StopEventLoop, process
<1>2. CASE Publish
  <2>1. Len(log') = Len(log) + 1
    BY <1>2, <1>n, Appended DEF Publish
  <2>2. begun' = begun /\ reader' = reader
    BY <1>2 DEF Publish, process
  <2>3. Below(begun, Len(log') + 1)
    BY <1>0, <1>n, <2>1, BelowMore DEF Order
  <2>4. reader.state # "new" => reader.next \in 1..(Len(log') + 1)
    BY <1>0, <1>n, <2>1 DEF Order
  <2> QED BY <1>0, <2>2, <2>3, <2>4 DEF Order, Increasing, Before, Below
<1>3. CASE Delivered
  <2> DEFINE q == Append(reader.queue, reader.next)
  <2>1. /\ reader.state # "new" /\ reader.next <= Len(log)
        /\ reader' = [reader EXCEPT !.queue = q, !.next = @ + 1]
        /\ begun' = begun /\ log' = log
    BY <1>3 DEF Delivered, Live
  <2>2. reader'.queue = q /\ reader'.next = reader.next + 1
        /\ reader'.state = reader.state
    BY <1>n, <2>1
  <2>3. /\ Increasing(reader.queue) /\ Below(reader.queue, reader.next)
        /\ Below(begun, reader.next) /\ Before(begun, reader.queue)
        /\ Increasing(begun) /\ Below(begun, Len(log) + 1)
    BY <1>0, <2>1 DEF Order
  <2>4. Increasing(q) /\ Below(q, reader.next + 1)
    BY <1>n, <2>3, AppendBelow
  <2>5. Below(begun, reader.next + 1)
    BY <1>n, <2>3, BelowMore
  <2>6. Before(begun, q)
    <3>1. \A j \in DOMAIN q : q[j] = IF j \in DOMAIN reader.queue
                                     THEN reader.queue[j] ELSE reader.next
      BY <1>n
    <3> QED BY <2>3, <3>1 DEF Before, Below
  <2>7. reader.next + 1 \in 1..(Len(log) + 1)
    BY <1>n, <2>1
  <2> HIDE DEF q
  <2> QED BY <2>1, <2>2, <2>3, <2>4, <2>5, <2>6, <2>7 DEF Order
<1>4. CASE ConnectionLost
  <2>1. /\ reader.state # "new" /\ begun' = begun /\ log' = log
        /\ reader' = [reader EXCEPT !.state = "lost"]
    BY <1>4 DEF ConnectionLost, Live
  <2>2. reader'.queue = reader.queue /\ reader'.next = reader.next
        /\ reader'.state = "lost"
    BY <1>n, <2>1
  <2> QED BY <1>0, <2>1, <2>2 DEF Order
<1>5. CASE Reconnected
  <2>1. /\ reader.state = "lost" /\ begun' = begun /\ log' = log
        /\ reader' = [reader EXCEPT !.state = "live", !.next = Len(log) + 1]
    BY <1>5 DEF Reconnected
  <2>2. reader'.queue = reader.queue /\ reader'.next = Len(log) + 1
        /\ reader'.state = "live"
    BY <1>n, <2>1
  <2>3. Below(reader.queue, Len(log) + 1)
    BY <1>0, QueueIsPast
  <2> QED BY <1>0, <1>n, <2>1, <2>2, <2>3 DEF Order
<1>6. CASE CheckEvents
  <2> DEFINE b == Append(begun, Head(reader.queue))
             q == Tail(reader.queue)
  <2>1. /\ reader.queue # <<>> /\ begun' = b /\ log' = log
        /\ reader' = [reader EXCEPT !.queue = q]
    BY <1>6 DEF CheckEvents
  <2>2. reader'.queue = q /\ reader'.next = reader.next /\ reader'.state = reader.state
    BY <1>n, <2>1
  <2>3. reader.state # "new"
    BY <1>0, <2>1 DEF Order
  <2>4. /\ Increasing(begun) /\ Increasing(reader.queue) /\ Before(begun, reader.queue)
        /\ Below(begun, Len(log) + 1) /\ Below(begun, reader.next)
        /\ Below(reader.queue, reader.next) /\ reader.next \in 1..(Len(log) + 1)
    BY <1>0, <2>3 DEF Order
  <2>5. Below(reader.queue, Len(log) + 1)
    BY <1>n, <2>4, BelowMore
  <2>6. /\ Increasing(b) /\ Increasing(q) /\ Before(b, q)
        /\ \A n \in Nat : Below(begun, n) /\ Below(reader.queue, n) =>
               Below(b, n) /\ Below(q, n)
    BY <1>n, <2>1, <2>4, TakeFirst
  <2>7. Below(b, Len(log) + 1) /\ Below(b, reader.next) /\ Below(q, reader.next)
    BY <1>n, <2>4, <2>5, <2>6
  <2> HIDE DEF b, q
  <2> QED BY <2>1, <2>2, <2>3, <2>4, <2>6, <2>7 DEF Order
<1>7. ASSUME NEW r \in Reload, ReloadStep(r) PROVE Order'
  <2>1. CASE NumberRead(r) \/ Configure(r) \/ Reject(r)
    BY <1>0, <2>1, OrderKept DEF NumberRead, Configure, Reject
  <2>2. CASE Uncaught(r)
    BY <2>2, <1>d DEF Uncaught
  <2>3. CASE NewReader(r)
    <3>1. reader'.queue = <<>> /\ reader'.state = "new" /\ begun' = begun /\ log' = log
      BY <2>3 DEF NewReader, NoBroker
    <3> QED BY <1>0, <3>1, OrderAnew
  <2>4. CASE ServerSubscribes(r)
    <3>1. CASE reader.by = r
      <4>1. /\ reader' = [reader EXCEPT !.state = "live", !.next = Len(log) + 1]
            /\ begun' = begun /\ log' = log
        BY <2>4, <3>1 DEF ServerSubscribes
      <4>2. reader'.queue = reader.queue /\ reader'.next = Len(log) + 1
            /\ reader'.state = "live"
        BY <1>n, <4>1
      <4>3. Below(reader.queue, Len(log) + 1)
        BY <1>0, QueueIsPast
      <4> QED BY <1>0, <1>n, <4>1, <4>2, <4>3 DEF Order
    <3>2. CASE reader.by # r
      BY <1>0, <2>4, <3>2, OrderKept DEF ServerSubscribes
    <3> QED BY <3>1, <3>2
  <2>5. CASE Subscribed(r)
    <3>1. CASE reader.by = r
      <4>1. /\ reader' = [reader EXCEPT !.queue = <<>>]
            /\ begun' = begun /\ log' = log
        BY <2>5, <3>1 DEF Subscribed
      <4>2. reader'.queue = <<>> /\ reader'.state = reader.state
            /\ reader'.next = reader.next
        BY <1>n, <4>1
      <4> QED BY <1>0, <4>1, <4>2, OrderAnew
    <3>2. CASE reader.by # r
      BY <1>0, <2>5, <3>2, OrderKept DEF Subscribed
    <3> QED BY <3>1, <3>2
  <2>6. CASE Fallback(r)
    BY <1>0, <2>6, OrderAnew DEF Fallback, NoBroker
  <2> QED BY <1>7, <2>1, <2>2, <2>3, <2>4, <2>5, <2>6 DEF ReloadStep
<1>8. CASE UNCHANGED vars
  BY <1>0, <1>8, OrderKept DEF vars, process
<1> QED BY <1>1, <1>2, <1>3, <1>4, <1>5, <1>6, <1>7, <1>8 DEF Next

-----------------------------------------------------------------------------
LEMMA Invariance == Spec => []IInv
<1>1. IInv /\ [Next]_vars => IInv'
  BY TypeStep, FreshStep, OrderStep DEF IInv
<1> QED BY Initially, <1>1, PTL DEF Spec

(* Everything keeps its type, for any number of events, configurations and *)
(* starts.  (the fields of init.ts)                                        *)
THEOREM TypeCorrect == Spec => []TypeOK
<1>1. IInv => TypeOK
  BY DEF IInv
<1> QED BY Invariance, <1>1, PTL

(* No event is taken twice, and none before an older one that is still     *)
(* taken, however the client is replaced and reconnected.  (checkEvents,   *)
(* msgBrokerInit, and the clients of the brokers)                          *)
THEOREM EventsTakenInOrder == Spec => []EventsInOrder
<1>1. IInv => EventsInOrder
  BY EventsAreNumbers, Joined DEF IInv, Order, EventsInOrder
<1> QED BY Invariance, <1>1, PTL

(* A reload applies a configuration at least as new as the one stored when *)
(* it was asked for.  (reload, getConf)                                    *)
THEOREM ReloadsAreFresh == Spec => []ReloadIsFresh
<1>1. IInv => ReloadIsFresh
  BY DEF IInv, TypeOK, Fresh, ReloadIsFresh
<1> QED BY Invariance, <1>1, PTL

-----------------------------------------------------------------------------
(* What is not taken *)

(* The event that asked for a reload that began, or for the one that       *)
(* brought the client in use, was taken, so no event in the queue of this  *)
(* client asks for that reload again.                                      *)
AskedByTaken ==
    /\ reader.by \in {0} \cup Elements(begun)
    /\ \A r \in Reload : task[r].pc # "idle" => r \in {0} \cup Elements(begun)

LEMMA TakenStay ==
    ASSUME TypeOK, TypeOK', AskedByTaken, Elements(begun) \subseteq Elements(begun'),
           NEW r \in {0} \cup Elements(begun'),
           \A x \in Reload \ {r} : task'[x] = task[x] \/ task'[x].pc = "idle",
           reader'.by \in {reader.by, r}
    PROVE  AskedByTaken'
<1>1. ASSUME NEW x \in Reload, task'[x].pc # "idle"
      PROVE  x \in {0} \cup Elements(begun')
  BY <1>1 DEF AskedByTaken
<1>2. reader'.by \in {0} \cup Elements(begun')
  BY DEF AskedByTaken
<1> QED BY <1>1, <1>2 DEF AskedByTaken

LEMMA AppendedElements ==
    ASSUME NEW S, NEW s \in Seq(S), NEW e \in S
    PROVE  Elements(Append(s, e)) = Elements(s) \cup {e}
<1>1. /\ DOMAIN s = 1..Len(s) /\ Len(s) \in Nat
      /\ DOMAIN Append(s, e) = 1..(Len(s) + 1)
      /\ \A i \in 1..Len(s) : Append(s, e)[i] = s[i]
      /\ Append(s, e)[Len(s) + 1] = e
  OBVIOUS
<1>2. ASSUME NEW x \in Elements(Append(s, e)) PROVE x \in Elements(s) \cup {e}
  BY <1>1 DEF Elements
<1>3. ASSUME NEW x \in Elements(s) PROVE x \in Elements(Append(s, e))
  <2>1. PICK i \in 1..Len(s) : x = s[i]
    BY <1>1 DEF Elements
  <2>2. i \in 1..(Len(s) + 1) /\ Append(s, e)[i] = x
    BY <1>1, <2>1
  <2> QED BY <1>1, <2>2 DEF Elements
<1>4. e \in Elements(Append(s, e))
  <2>1. Len(s) + 1 \in 1..(Len(s) + 1)
    BY <1>1
  <2> QED BY <1>1, <2>1 DEF Elements
<1> QED BY <1>2, <1>3, <1>4

LEMMA TailElements ==
    ASSUME NEW S, NEW s \in Seq(S), s # <<>>
    PROVE  /\ Head(s) \in S /\ Head(s) \in Elements(s)
           /\ Elements(s) \subseteq Elements(Tail(s)) \cup {Head(s)}
<1>1. /\ DOMAIN s = 1..Len(s) /\ Len(s) \in Nat /\ 1 \in 1..Len(s)
      /\ Head(s) = s[1] /\ Head(s) \in S
      /\ DOMAIN Tail(s) = 1..(Len(s) - 1)
      /\ \A j \in 1..(Len(s) - 1) : Tail(s)[j] = s[j + 1]
  OBVIOUS
<1>2. ASSUME NEW x \in Elements(s), x # Head(s)
      PROVE  x \in Elements(Tail(s))
  <2>1. PICK i \in 1..Len(s) : x = s[i]
    BY <1>1 DEF Elements
  <2>2. i # 1
    BY <1>1, <1>2, <2>1
  <2>3. i - 1 \in 1..(Len(s) - 1) /\ Tail(s)[i - 1] = x
    BY <1>1, <2>1, <2>2
  <2> QED BY <1>1, <2>3 DEF Elements
<1>3. Head(s) \in Elements(s)
  BY <1>1 DEF Elements
<1> QED BY <1>1, <1>2, <1>3

LEMMA NewClientBy ==
    ASSUME NEW r \in Reload, NewReader(r) \/ Fallback(r)
    PROVE  reader'.by = r
<1>1. CASE NewReader(r)
  <2> DEFINE broker == Broker[task[r].conf]
  <2>1. reader' = [NoBroker(r) EXCEPT !.broker = broker]
    BY <1>1 DEF NewReader
  <2> HIDE DEF broker
  <2>2. reader'.by = NoBroker(r).by
    BY <2>1 DEF NoBroker
  <2> QED BY <2>2 DEF NoBroker
<1>2. CASE Fallback(r)
  BY <1>2 DEF Fallback, NoBroker
<1> QED BY <1>1, <1>2

LEMMA TakenStep ==
    ASSUME IInv, AskedByTaken, [Next]_vars
    PROVE  AskedByTaken'
<1>0. TypeOK /\ TypeOK' /\ 0 \in Reload
  BY TypeStep, HandlerEventsAssumption DEF IInv, Reload
<1>d. ASSUME Die PROVE AskedByTaken'
  BY <1>d DEF Die, AskedByTaken, Idle, NoBroker
<1>1. CASE Start
  <2>1. \A x \in Reload \ {0} : task'[x] = task[x]
    BY <1>0, <1>1 DEF Start, Ask, TypeOK
  <2> QED BY <1>0, <1>1, <2>1, TakenStay DEF Start
<1>2. CASE Publish \/ Save \/ StopEventLoop \/ UNCHANGED vars
  BY <1>2 DEF Publish, Save, StopEventLoop, vars, process, AskedByTaken
<1>3. CASE Delivered \/ ConnectionLost \/ Reconnected
  <2>1. reader'.by = reader.by /\ UNCHANGED <<task, begun>>
    BY <1>0, <1>3 DEF Delivered, ConnectionLost, Reconnected, TypeOK
  <2> QED BY <2>1 DEF AskedByTaken
<1>4. CASE CheckEvents
  <2> DEFINE e == Head(reader.queue)
  <2>1. /\ reader.queue \in Seq(Event) /\ reader.queue # <<>> /\ begun \in Seq(Event)
        /\ begun' = Append(begun, e) /\ reader'.by = reader.by
        /\ Ask(e) \/ UNCHANGED <<task, asked>>
    BY <1>0, <1>4 DEF CheckEvents, TypeOK
  <2>2. e \in Event /\ Elements(begun') = Elements(begun) \cup {e}
    BY <2>1, TailElements, AppendedElements
  <2>3. e \in Reload
    BY <2>2, HandlerEventsAssumption DEF Event, Reload
  <2> HIDE DEF e
  <2>4. \A x \in Reload \ {e} : task'[x] = task[x]
    BY <1>0, <2>1, <2>3 DEF Ask, TypeOK
  <2> QED BY <1>0, <2>1, <2>2, <2>4, TakenStay
<1>5. ASSUME NEW r \in Reload, ReloadStep(r) PROVE AskedByTaken'
  <2>1. CASE Uncaught(r)
    BY <1>d, <2>1 DEF Uncaught
  <2>2. CASE \/ NumberRead(r) \/ Configure(r) \/ Reject(r) \/ NewReader(r)
             \/ ServerSubscribes(r) \/ Subscribed(r) \/ Fallback(r)
    <3>1. task[r].pc # "idle" /\ begun' = begun
      BY <2>2 DEF NumberRead, Configure, Reject, NewReader, ServerSubscribes,
         Subscribed, Fallback, Awaits
    <3>2. r \in {0} \cup Elements(begun')
      BY <3>1 DEF AskedByTaken
    <3>3. \A x \in Reload \ {r} : task'[x] = task[x]
      BY <1>0, <2>2 DEF NumberRead, Configure, Reject, NewReader,
         ServerSubscribes, Subscribed, Fallback, TypeOK
    <3>4. reader'.by \in {reader.by, r}
      <4>1. CASE NewReader(r) \/ Fallback(r)
        BY <4>1, NewClientBy
      <4>2. CASE NumberRead(r) \/ Configure(r) \/ Reject(r)
        BY <4>2 DEF NumberRead, Configure, Reject
      <4>3. CASE ServerSubscribes(r) \/ Subscribed(r)
        BY <1>0, <4>3 DEF ServerSubscribes, Subscribed, TypeOK
      <4> QED BY <2>2, <4>1, <4>2, <4>3
    <3> QED BY <1>0, <3>1, <3>2, <3>3, <3>4, TakenStay
  <2> QED BY <1>5, <2>1, <2>2 DEF ReloadStep
<1> QED BY <1>1, <1>2, <1>3, <1>4, <1>5 DEF Next

(* No event in the queue asks for the reload that brought the client.      *)
LEMMA QueuedIsAnother ==
    ASSUME IInv, AskedByTaken, NEW e \in Elements(reader.queue)
    PROVE  e # reader.by
<1>1. /\ begun \in Seq(Event) /\ reader.queue \in Seq(Event)
      /\ Before(begun, reader.queue)
  BY DEF IInv, TypeOK, Order
<1>2. PICK j \in DOMAIN reader.queue : e = reader.queue[j]
  BY DEF Elements
<1>3. e \in Nat \ {0}
  BY <1>1, <1>2, HandlerEventsAssumption DEF Event
<1>4. \A i \in DOMAIN begun : begun[i] \in Nat /\ begun[i] < e
  BY <1>1, <1>2, HandlerEventsAssumption DEF Before, Event
<1> QED BY <1>3, <1>4 DEF AskedByTaken, Elements

(* NothingDropped, of one event and one step.                              *)
LeavesWell(i) ==
    Pending(i) /\ ~Pending(i)' =>
         \/ i \in Elements(begun')
         \/ reader'.by # reader.by \/ ~up'
         \/ reader'.state = "lost" /\ i \notin Elements(reader.queue)

LEMMA StepDropsNothing ==
    ASSUME IInv, AskedByTaken, [Next]_vars, NEW i \in Event
    PROVE  LeavesWell(i)
<1> SUFFICES ASSUME Pending(i), ~Pending(i)', reader'.by = reader.by, up'
             PROVE  \/ i \in Elements(begun')
                    \/ reader'.state = "lost" /\ i \notin Elements(reader.queue)
  BY DEF LeavesWell
<1>0. /\ TypeOK /\ up /\ task[reader.by].pc = "done" /\ reader.by \in Reload
      /\ i \in Elements(reader.queue) \/ (Live /\ i \in reader.next..Len(log))
      /\ reader.queue \in Seq(Event) /\ reader.next \in Nat /\ Len(log) \in Nat
      /\ i \in Nat
  BY HandlerEventsAssumption DEF IInv, TypeOK, Pending, Event
<1>1. CASE Start
  BY <1>0, <1>1 DEF Start
<1>2. CASE Publish
  <2>1. /\ UNCHANGED <<up, task, reader>>
        /\ Len(log') = Len(log) + 1
    BY <1>0, <1>2, Appended DEF Publish, process, TypeOK
  <2>2. i \in reader.next..Len(log) => i \in reader.next..Len(log')
    BY <1>0, <2>1
  <2>3. Pending(i)'
    BY <1>0, <2>1, <2>2 DEF Pending, Live
  <2> QED BY <2>3
<1>3. CASE Save \/ StopEventLoop \/ UNCHANGED vars
  <2>1. UNCHANGED <<up, task, reader, log>>
    BY <1>3 DEF Save, StopEventLoop, vars, process
  <2>2. Pending(i)'
    BY <2>1 DEF Pending, Live
  <2> QED BY <2>2
<1>4. CASE Delivered
  <2>1. /\ reader' = [reader EXCEPT !.queue = Append(@, reader.next), !.next = @ + 1]
        /\ UNCHANGED <<up, task, log>> /\ Live /\ reader.next <= Len(log)
    BY <1>4 DEF Delivered
  <2>2. /\ reader'.queue = Append(reader.queue, reader.next)
        /\ reader'.next = reader.next + 1 /\ Live'
    BY <1>0, <2>1 DEF TypeOK, Live
  <2>3. reader.next \in Event
    <3>1. reader.next # 0
      BY <2>1 DEF IInv, Order, Live
    <3>2. Len(log) <= MaxEvents
      BY <1>0 DEF TypeOK
    <3> QED BY <1>0, <2>1, <3>1, <3>2, HandlerEventsAssumption DEF Event
  <2>4. Elements(reader'.queue) = Elements(reader.queue) \cup {reader.next}
    BY <1>0, <2>2, <2>3, AppendedElements
  <2>5. i \in reader.next..Len(log) =>
          i = reader.next \/ i \in reader'.next..Len(log')
    BY <1>0, <2>1, <2>2
  <2>6. Pending(i)'
    BY <1>0, <2>1, <2>2, <2>4, <2>5 DEF Pending
  <2> QED BY <2>6
<1>5. CASE ConnectionLost
  <2>1. /\ reader' = [reader EXCEPT !.state = "lost"] /\ UNCHANGED <<up, task>>
    BY <1>5 DEF ConnectionLost
  <2>2. reader'.queue = reader.queue /\ reader'.state = "lost"
    BY <1>0, <2>1 DEF TypeOK
  <2>3. i \notin Elements(reader.queue)
    BY <1>0, <2>1, <2>2 DEF Pending
  <2> QED BY <2>2, <2>3
<1>6. CASE Reconnected
  <2>1. /\ reader.state = "lost" /\ UNCHANGED <<up, task>>
        /\ reader' = [reader EXCEPT !.state = "live", !.next = Len(log) + 1]
    BY <1>6 DEF Reconnected
  <2>2. reader'.queue = reader.queue
    BY <1>0, <2>1 DEF TypeOK
  <2>3. Pending(i)'
    BY <1>0, <2>1, <2>2 DEF Pending, Live
  <2> QED BY <2>3
<1>7. CASE CheckEvents
  <2> DEFINE e == Head(reader.queue)
  <2>1. /\ reader.queue # <<>> /\ begun \in Seq(Event)
        /\ begun' = Append(begun, e)
        /\ reader' = [reader EXCEPT !.queue = Tail(@)]
        /\ Ask(e) \/ task' = task
        /\ UNCHANGED <<up, log>>
    BY <1>0, <1>7 DEF CheckEvents, TypeOK
  <2>2. /\ e \in Event /\ e \in Elements(reader.queue)
        /\ Elements(reader.queue) \subseteq Elements(Tail(reader.queue)) \cup {e}
    BY <1>0, <2>1, TailElements
  <2> HIDE DEF e
  <2>3. e # reader.by
    BY <2>2, QueuedIsAnother
  <2>4. task'[reader.by] = task[reader.by]
    BY <1>0, <2>1, <2>3 DEF Ask, TypeOK
  <2>5. /\ reader'.queue = Tail(reader.queue) /\ reader'.next = reader.next
        /\ reader'.state = reader.state /\ reader'.broker = reader.broker
    BY <1>0, <2>1 DEF TypeOK
  <2>6. i = e
    BY <1>0, <2>1, <2>2, <2>4, <2>5 DEF Pending, Live
  <2>7. e \in Elements(begun')
    BY <2>1, <2>2, AppendedElements
  <2> QED BY <2>6, <2>7
<1>8. ASSUME NEW r \in Reload, ReloadStep(r) PROVE FALSE
  <2>1. CASE Uncaught(r)
    BY <2>1 DEF Uncaught, Die
  <2>2. task[r].pc # "done"
    BY <1>8, <2>1 DEF ReloadStep, NumberRead, Configure, Reject, NewReader,
       ServerSubscribes, Subscribed, Fallback, Awaits
  <2>3. r # reader.by
    BY <1>0, <2>2
  <2>4. CASE NewReader(r) \/ Fallback(r)
    BY <2>3, <2>4, NewClientBy
  <2>5. CASE NumberRead(r) \/ Configure(r) \/ Reject(r) \/ ServerSubscribes(r)
             \/ Subscribed(r)
    <3>1. UNCHANGED <<reader, up, log>>
      BY <2>3, <2>5 DEF NumberRead, Configure, Reject, ServerSubscribes, Subscribed
    <3>2. task'[reader.by] = task[reader.by]
      BY <1>0, <2>3, <2>5 DEF NumberRead, Configure, Reject, ServerSubscribes,
         Subscribed, TypeOK
    <3>3. Pending(i)'
      BY <1>0, <3>1, <3>2 DEF Pending, Live
    <3> QED BY <3>3
  <2> QED BY <1>8, <2>1, <2>4, <2>5 DEF ReloadStep
<1> QED BY <1>1, <1>2, <1>3, <1>4, <1>5, <1>6, <1>7, <1>8 DEF Next

(* An event that the client in use is to hand over leaves it only by being *)
(* taken, unless a reload replaces the client, the process ends, or the    *)
(* connection is lost before the event came in.  In particular no event in *)
(* the queue asks for the reload that brought the client, which would take *)
(* it for one that has not subscribed.  (getNextMessage, checkEvents,      *)
(* msgBrokerInit)                                                          *)
THEOREM EventsAreNotDropped == Spec => NothingDropped
<1>1. Init => IInv /\ AskedByTaken
  BY Initially DEF Init, AskedByTaken, NoBroker, Idle
<1>2. (IInv /\ AskedByTaken) /\ [Next]_vars => (IInv /\ AskedByTaken)'
  BY TypeStep, FreshStep, OrderStep, TakenStep DEF IInv
<1>3. (IInv /\ AskedByTaken) /\ [Next]_vars => [\A i \in Event : LeavesWell(i)]_vars
  BY StepDropsNothing
<1>4. Spec => [][\A i \in Event : LeavesWell(i)]_vars
  BY <1>1, <1>2, <1>3, PTL DEF Spec
<1> QED BY <1>4 DEF NothingDropped, LeavesWell
=============================================================================
