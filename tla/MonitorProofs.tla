--------------------------- MODULE MonitorProofs ---------------------------
(* Safety of the device monitor for any number of start() and stop(), any  *)
(* number of device events, and every interleaving of the application's    *)
(* thread with the polling threads.                                        *)
EXTENDS DeviceMonitor, FiniteSetTheorems, SequenceTheorems, TLAPS

-----------------------------------------------------------------------------
(* Types.                                                                  *)
Poll == [pc : {"none", "enter", "test", "wait", "list", "use"}, mon : {0} \cup Gen,
         pipe : {0} \cup Gen, list : Seq({"mon", "pipe"}), ptr : {0} \cup Gen]
Hist == [sent : Seq(Event), told : Seq(Nat), raced : BOOLEAN, twice : BOOLEAN, cut : BOOLEAN,
         uaf : BOOLEAN]

MonitorTypes ==
    /\ app \in {"idle", "start", "flag", "pipe", "free", "clear"} /\ monitoring \in BOOLEAN
    /\ pipFd \in {0} \cup Gen /\ monitorFd \in {0} \cup Gen /\ monitor \in {0} \cup Gen
    /\ monitoringThread \in {0} \cup Gen /\ home \in {0} \cup Gen
    /\ exits \in SUBSET Gen /\ shut \in SUBSET Gen /\ freed \in SUBSET Gen
    /\ queue \in Seq(Nat) /\ appq \in Seq(Nat)
    /\ starts \in 0..MaxStarts /\ conns = starts /\ stops \in 0..MaxStops
    /\ thread \in [Gen -> {"none", "run", "poll", "exec", "done"}]
    /\ quit \in SUBSET Gen /\ posted \in Nat
    /\ poll \in [Gen -> Poll]
    /\ h \in Hist

(* Where the application is in start() and stop(), the members they use    *)
(* are set; a thread is fresh until it is started; and only the thread     *)
(* the object has moved to, once and for all, ever polls.                  *)
MonitorControl ==
    /\ home # 0 => pipFd # 0 /\ monitorFd # 0 /\ monitoringThread # 0
    /\ app = "start" => pipFd # 0 /\ starts # 0 /\ thread[starts] = "none"
    /\ app \in {"flag", "pipe", "free"} \/ monitoring => home # 0 /\ monitor # 0
    /\ app # "idle" => ~monitoring
    /\ \A g \in Gen : g > starts => thread[g] = "none"
    /\ \A g \in Gen : poll[g].pc # "none" => home = g
    /\ \A g \in Gen : (poll[g].pc = "none") = (thread[g] # "poll")

LEMMA MonitorBounds == MaxStarts \in Nat /\ MaxStops \in Nat /\ MaxEvents \in Nat /\ 0 \notin Gen
                       /\ 0..MaxStarts = {0} \cup Gen
  BY MonitorAssumption DEF Gen

LEMMA NoPollType == NoPoll \in Poll /\ NoPoll.pc = "none"
<1>1. <<>> \in Seq({"mon", "pipe"})
  OBVIOUS
<1> QED BY <1>1 DEF NoPoll, Poll

LEMMA MonitorTypesInit == MonitorInit => MonitorTypes /\ MonitorControl
<1> SUFFICES ASSUME MonitorInit PROVE MonitorTypes /\ MonitorControl
  OBVIOUS
<1>1. h \in Hist
  <2>1. <<>> \in Seq(Event) /\ <<>> \in Seq(Nat)
    OBVIOUS
  <2> QED BY <2>1 DEF MonitorInit, Hist
<1>2. queue \in Seq(Nat) /\ appq \in Seq(Nat)
  BY DEF MonitorInit
<1>3. poll \in [Gen -> Poll] /\ thread \in [Gen -> {"none", "run", "poll", "exec", "done"}]
  BY NoPollType DEF MonitorInit
<1>4. starts \in 0..MaxStarts /\ conns = starts /\ stops \in 0..MaxStops /\ posted \in Nat
  BY MonitorBounds DEF MonitorInit
<1>5. MonitorTypes
  BY <1>1, <1>2, <1>3, <1>4 DEF MonitorInit, MonitorTypes
<1> QED BY <1>5, NoPollType DEF MonitorInit, MonitorControl

(* start() and stop(), on the application's thread.                        *)
LEMMA AppTypes ==
    ASSUME MonitorTypes, MonitorControl,
           Start \/ StartThread \/ StartDone \/ Stop \/ StopPipe \/ StopFree \/ StopClear
    PROVE  MonitorTypes' /\ MonitorControl'
<1>0. h \in Hist /\ thread \in [Gen -> {"none", "run", "poll", "exec", "done"}]
      /\ starts \in 0..MaxStarts
  BY DEF MonitorTypes
<1>01. <<>> \in Seq(Nat)
  OBVIOUS
<1>1. CASE Start
  <2>1. starts' \in Gen /\ starts' = starts + 1 /\ conns' = starts'
    BY <1>0, <1>1, MonitorBounds DEF Start, MonitorTypes, Gen
  <2>2. h' \in Hist
    <3>1. (h.twice \/ monitoring \/ Looping) \in BOOLEAN
      BY <1>0 DEF Hist, MonitorTypes, Looping
    <3> QED BY <1>0, <1>1, <3>1 DEF Start, Hist
  <2>3. pipFd' \in {pipFd, starts'} /\ app' \in {"idle", "start"}
        /\ (app' = "start" => pipFd' = starts' /\ ~monitoring) /\ app = "idle"
    BY <1>1 DEF Start, MonitorTypes
  <2>4. MonitorTypes'
    BY <1>1, <2>1, <2>2, <2>3, MonitorBounds DEF Start, MonitorTypes, kernel, qthreads
  <2>5. starts' > starts /\ thread[starts'] = "none"
    BY <1>0, <2>1, MonitorBounds DEF MonitorControl
  <2>6. \A g \in Gen : g > starts' => g > starts
    BY <1>0, <2>1, MonitorBounds DEF Gen
  <2> QED BY <1>1, <2>1, <2>3, <2>4, <2>5, <2>6, MonitorBounds
          DEF Start, MonitorControl, kernel, qthreads
<1>2. CASE StartThread
  <2>1. starts \in Gen
    BY <1>0, <1>2, MonitorBounds DEF StartThread, MonitorControl
  <2>2. home' \in Gen
    BY <1>2, <2>1 DEF StartThread, MoveToThread, MonitorTypes
  <2>3. thread' \in [Gen -> {"none", "run", "poll", "exec", "done"}]
        /\ \A g \in Gen : thread'[g] = IF g = starts THEN "run" ELSE thread[g]
    BY <1>0, <1>2, <2>1 DEF StartThread
  <2>4. MonitorTypes'
    BY <1>01, <1>2, <2>1, <2>2, <2>3 DEF StartThread, MonitorTypes
  <2>5. \A g \in Gen : poll[g].pc # "none" => home' = g
    BY <1>2, MonitorBounds DEF StartThread, MonitorControl, MoveToThread
  <2>6. \A g \in Gen : (poll[g].pc = "none") = (thread'[g] # "poll")
    BY <1>2, <2>3 DEF StartThread, MonitorControl
  <2>7. \A g \in Gen : g > starts => thread'[g] = "none"
    BY <1>0, <2>3 DEF MonitorControl, Gen
  <2> QED BY <1>2, <2>1, <2>2, <2>4, <2>5, <2>6, <2>7, MonitorBounds DEF StartThread, MonitorControl
<1>3. CASE StartDone
  <2>1. MonitorTypes'
    BY <1>3 DEF StartDone, MonitorTypes, kernel, qthreads
  <2> QED BY <1>3, <2>1 DEF StartDone, MonitorControl, kernel, qthreads
<1>4. CASE Stop
  <2>1. stops' \in 0..MaxStops
    BY <1>4, MonitorBounds DEF Stop, MonitorTypes
  <2>2. MonitorTypes'
    BY <1>4, <2>1 DEF Stop, MonitorTypes, kernel, qthreads
  <2> QED BY <1>4, <2>2 DEF Stop, MonitorControl, kernel, qthreads
<1>5. CASE StopPipe
  <2>1. exits' \in SUBSET Gen
    BY <1>5 DEF StopPipe, MonitorTypes, MonitorControl
  <2>2. MonitorTypes'
    BY <1>5, <2>1 DEF StopPipe, MonitorTypes, members, qthreads
  <2> QED BY <1>5, <2>2 DEF StopPipe, MonitorControl, members, qthreads
<1>6. CASE StopFree
  <2>1. freed' \in SUBSET Gen
    BY <1>6 DEF StopFree, MonitorTypes, MonitorControl
  <2>2. h' \in Hist
    <3>1. (h.cut \/ \E g \in Gen : poll[g].pc = "use" /\ poll[g].ptr = monitor) \in BOOLEAN
      BY <1>0 DEF Hist
    <3> QED BY <1>0, <1>6, <3>1 DEF StopFree, Hist
  <2>3. MonitorTypes'
    BY <1>01, <1>6, <2>1, <2>2 DEF StopFree, MonitorTypes, members, qthreads
  <2> QED BY <1>6, <2>3 DEF StopFree, MonitorControl, members, qthreads
<1>7. CASE StopClear
  <2>1. MonitorTypes'
    BY <1>7 DEF StopClear, MonitorTypes, kernel, qthreads
  <2> QED BY <1>7, <2>1 DEF StopClear, MonitorControl, kernel, qthreads
<1> QED BY <1>1, <1>2, <1>3, <1>4, <1>5, <1>6, <1>7

(* One thread's poll record and state change, the rest stays.              *)
LEMMA PollKept ==
    ASSUME MonitorTypes, MonitorControl, NEW g \in Gen, NEW p \in Poll,
           NEW t \in {"none", "run", "poll", "exec", "done"},
           poll' = [poll EXCEPT ![g] = p], thread' = [thread EXCEPT ![g] = t],
           p.pc # "none" => home = g, (p.pc = "none") = (t # "poll"), thread[g] # "none",
           UNCHANGED <<app, members, exits, freed, starts, stops>>,
           queue' \in Seq(Nat), appq' \in Seq(Nat), h' \in Hist, shut' \in SUBSET Gen,
           quit' \in SUBSET Gen, posted' \in Nat
    PROVE  MonitorTypes' /\ MonitorControl'
<1>1. poll \in [Gen -> Poll] /\ thread \in [Gen -> {"none", "run", "poll", "exec", "done"}]
  BY DEF MonitorTypes
<1>2. /\ poll' \in [Gen -> Poll] /\ \A k \in Gen : poll'[k] = IF k = g THEN p ELSE poll[k]
      /\ thread' \in [Gen -> {"none", "run", "poll", "exec", "done"}]
      /\ \A k \in Gen : thread'[k] = IF k = g THEN t ELSE thread[k]
  BY <1>1
<1>3. MonitorTypes'
  BY <1>2 DEF MonitorTypes, members
<1>4. starts \in Gen /\ app = "start" => thread'[starts] = "none"
  BY <1>2 DEF MonitorControl
<1>5. starts # 0 => starts \in Gen
  BY MonitorBounds DEF MonitorTypes
<1>6. /\ \A k \in Gen : k > starts => thread'[k] = "none"
      /\ \A k \in Gen : poll'[k].pc # "none" => home = k
      /\ \A k \in Gen : (poll'[k].pc = "none") = (thread'[k] # "poll")
  BY <1>2 DEF MonitorControl
<1> QED BY <1>3, <1>4, <1>5, <1>6 DEF MonitorControl, members

LEMMA QtTypes ==
    ASSUME MonitorTypes, MonitorControl, NEW g \in Gen, Qt(g)
    PROVE  MonitorTypes' /\ MonitorControl'
<1>0. /\ poll \in [Gen -> Poll] /\ thread \in [Gen -> {"none", "run", "poll", "exec", "done"}]
      /\ posted \in Nat /\ poll[g] \in Poll
      /\ queue \in Seq(Nat) /\ appq \in Seq(Nat) /\ h \in Hist /\ shut \in SUBSET Gen
      /\ quit \in SUBSET Gen
  BY DEF MonitorTypes
<1>1. [poll EXCEPT ![g].pc = "enter"] = [poll EXCEPT ![g] = [poll[g] EXCEPT !.pc = "enter"]]
      /\ [poll[g] EXCEPT !.pc = "enter"] \in Poll /\ [poll[g] EXCEPT !.pc = "enter"].pc = "enter"
  BY <1>0 DEF Poll
<1>2. poll = [poll EXCEPT ![g] = poll[g]]
  BY <1>0
<1>3. CASE ThreadStarted(g)
  <2>1. thread[g] = "run" /\ poll[g].pc = "none"
    BY <1>3 DEF ThreadStarted, MonitorControl
  <2>2. CASE home = g
    BY <1>0, <1>1, <1>3, <2>1, <2>2, PollKept DEF ThreadStarted, kernel
  <2>3. CASE home # g
    <3>1. poll' = [poll EXCEPT ![g] = poll[g]] /\ thread' = [thread EXCEPT ![g] = "exec"]
      BY <1>2, <1>3, <2>3 DEF ThreadStarted
    <3>2. posted' \in Nat /\ UNCHANGED <<app, members, kernel, quit, appq, starts, stops, h>>
      BY <1>0, <1>3, <2>3 DEF ThreadStarted
    <3> QED BY <1>0, <2>1, <3>1, <3>2, PollKept DEF kernel
  <2> QED BY <2>2, <2>3
<1>4. CASE ThreadQuits(g)
  <2>1. thread[g] = "exec" /\ poll[g].pc = "none"
    BY <1>4 DEF ThreadQuits, MonitorControl
  <2>2. poll' = [poll EXCEPT ![g] = poll[g]] /\ thread' = [thread EXCEPT ![g] = "done"]
    BY <1>2, <1>4 DEF ThreadQuits
  <2> QED BY <1>0, <1>4, <2>1, <2>2, PollKept DEF ThreadQuits, kernel
<1>5. CASE ThreadRunsQueued(g)
  <2>1. posted' \in Nat /\ UNCHANGED <<app, members, kernel, quit, appq, starts, stops, h>>
    BY <1>0, <1>5 DEF ThreadRunsQueued
  <2>2. thread' = [thread EXCEPT ![g] = "poll"] /\ thread[g] = "exec" /\ home = g
        /\ poll' = [poll EXCEPT ![g] = [poll[g] EXCEPT !.pc = "enter"]]
    BY <1>1, <1>5 DEF ThreadRunsQueued
  <2> QED BY <1>0, <1>1, <2>1, <2>2, PollKept DEF kernel
<1> QED BY <1>3, <1>4, <1>5 DEF Qt

LEMMA OrdersType ==
    ASSUME NEW s \in SUBSET {"mon", "pipe"}, NEW q \in Orders(s)
    PROVE  q \in Seq({"mon", "pipe"})
<1>1. IsFiniteSet(s)
  <2>1. IsFiniteSet({"mon", "pipe"})
    <3>1. IsFiniteSet({"mon"})
      BY FS_Singleton
    <3>2. IsFiniteSet({"mon"} \cup {"pipe"})
      BY <3>1, FS_AddElement
    <3>3. {"mon", "pipe"} = {"mon"} \cup {"pipe"}
      OBVIOUS
    <3> QED BY <3>2, <3>3
  <2> QED BY <2>1, FS_Subset
<1>2. Cardinality(s) \in Nat
  BY <1>1, FS_CardinalityType
<1>3. q \in [1..Cardinality(s) -> {"mon", "pipe"}]
  BY DEF Orders
<1> QED BY <1>2, <1>3

LEMMA PollerTypes ==
    ASSUME MonitorTypes, MonitorControl, NEW g \in Gen, Poller(g)
    PROVE  MonitorTypes' /\ MonitorControl'
<1>0. /\ poll \in [Gen -> Poll] /\ thread \in [Gen -> {"none", "run", "poll", "exec", "done"}]
      /\ posted \in Nat /\ poll[g] \in Poll
      /\ queue \in Seq(Nat) /\ appq \in Seq(Nat) /\ h \in Hist /\ shut \in SUBSET Gen
      /\ quit \in SUBSET Gen
  BY DEF MonitorTypes
<1>1. poll[g].pc # "none" /\ thread[g] = "poll" /\ home = g /\ monitoringThread \in Gen /\ pipFd \in Gen
  <2>1. poll[g].pc # "none"
    BY DEF Poller, PollEnter, PollTest, PollWait, PollNext, HandleDeviceEvent
  <2>2. thread[g] = "poll" /\ home = g
    BY <2>1 DEF MonitorControl
  <2>3. home # 0 /\ monitoringThread # 0 /\ pipFd # 0
    BY <2>2, MonitorBounds DEF MonitorControl
  <2> QED BY <2>1, <2>2, <2>3, MonitorBounds DEF MonitorTypes
<1>2. thread = [thread EXCEPT ![g] = "poll"]
  BY <1>0, <1>1
<1>3. CASE PollEnter(g)
  <2>1. CASE monitorFd \in freed
    BY <1>0, <1>1, <1>3, <2>1, PollKept, NoPollType DEF PollEnter, kernel
  <2>2. CASE monitorFd \notin freed
    <3> DEFINE p == [NoPoll EXCEPT !.pc = "test", !.mon = monitorFd, !.pipe = pipFd]
    <3>1. p \in Poll /\ p.pc = "test"
      BY NoPollType DEF Poll, MonitorTypes
    <3>2. poll' = [poll EXCEPT ![g] = p] /\ thread' = [thread EXCEPT ![g] = "poll"]
      BY <1>2, <1>3, <2>2 DEF PollEnter
    <3> HIDE DEF p
    <3> QED BY <1>0, <1>1, <1>3, <3>1, <3>2, PollKept DEF PollEnter, kernel
  <2> QED BY <2>1, <2>2
<1>4. CASE PollTest(g)
  <2>1. CASE monitoring
    <3> DEFINE p == [poll[g] EXCEPT !.pc = "wait"]
    <3>1. p \in Poll /\ p.pc = "wait"
      BY <1>0 DEF Poll
    <3>2. poll' = [poll EXCEPT ![g] = p] /\ thread' = [thread EXCEPT ![g] = "poll"]
      BY <1>0, <1>2, <1>4, <2>1 DEF PollTest
    <3> HIDE DEF p
    <3> QED BY <1>0, <1>1, <1>4, <2>1, <3>1, <3>2, PollKept DEF PollTest, kernel
  <2>2. CASE ~monitoring
    <3>1. h' \in Hist
      <4>1. (h.raced \/ app = "flag") \in BOOLEAN
        BY <1>0 DEF Hist
      <4> QED BY <1>0, <1>4, <2>2, <4>1 DEF PollTest, Hist
    <3>2. quit' \in SUBSET Gen
      BY <1>0, <1>1, <1>4, <2>2 DEF PollTest
    <3> QED BY <1>0, <1>1, <1>4, <2>2, <3>1, <3>2, PollKept, NoPollType DEF PollTest, kernel
  <2> QED BY <2>1, <2>2
<1>5. CASE PollWait(g)
  <2>1. PICK q \in Orders(Ready(poll[g])) : poll' = [poll EXCEPT ![g].pc = "list", ![g].list = q]
    BY <1>5 DEF PollWait
  <2>2. q \in Seq({"mon", "pipe"})
    BY OrdersType DEF Ready
  <2> DEFINE p == [poll[g] EXCEPT !.pc = "list", !.list = q]
  <2>3. p \in Poll /\ p.pc = "list"
    BY <1>0, <2>2 DEF Poll
  <2>4. poll' = [poll EXCEPT ![g] = p]
    BY <1>0, <2>1
  <2> HIDE DEF p
  <2> QED BY <1>0, <1>1, <1>2, <1>5, <2>3, <2>4, PollKept DEF PollWait, kernel
<1>6. CASE PollNext(g)
  <2> DEFINE rest == [poll[g] EXCEPT !.list = Tail(@)]
  <2>1. poll[g].list # <<>> => rest \in Poll /\ rest.pc = poll[g].pc
    <3>1. poll[g].list # <<>> => Tail(poll[g].list) \in Seq({"mon", "pipe"})
      BY <1>0 DEF Poll
    <3> QED BY <1>0, <3>1 DEF Poll
  <2>2. ASSUME poll[g].list # <<>>
        PROVE  [rest EXCEPT !.pc = "use", !.ptr = monitor] \in Poll
               /\ [rest EXCEPT !.pc = "use", !.ptr = monitor].pc = "use"
    BY <2>1, <2>2 DEF MonitorTypes, Poll
  <2>3. [poll[g] EXCEPT !.pc = "test"] \in Poll /\ [poll[g] EXCEPT !.pc = "test"].pc = "test"
        /\ [poll EXCEPT ![g].pc = "test"] = [poll EXCEPT ![g] = [poll[g] EXCEPT !.pc = "test"]]
    BY <1>0 DEF Poll
  <2>4. \E p \in Poll : p.pc # "none" /\ poll' = [poll EXCEPT ![g] = p]
    <3> HIDE DEF rest
    <3>1. CASE poll[g].list = <<>> /\ poll' = [poll EXCEPT ![g].pc = "test"]
      BY <2>3, <3>1
    <3>2. CASE /\ poll[g].list # <<>>
               /\ poll' = [poll EXCEPT ![g] = [rest EXCEPT !.pc = "use", !.ptr = monitor]]
      BY <1>1, <2>1, <2>2, <3>2
    <3>3. CASE poll[g].list # <<>> /\ poll' = [poll EXCEPT ![g] = rest]
      BY <1>1, <2>1, <3>3
    <3> QED BY <1>6, <3>1, <3>2, <3>3 DEF PollNext, rest
  <2>5. shut' \in SUBSET Gen
    BY <1>0, <1>1, <1>6 DEF PollNext
  <2>6. h' \in Hist
    <3>1. (h.cut \/ app = "clear") \in BOOLEAN
      BY <1>0 DEF Hist
    <3>2. h' \in {h, [h EXCEPT !.cut = @ \/ app = "clear"]}
      BY <1>6 DEF PollNext
    <3> QED BY <1>0, <3>1, <3>2 DEF Hist
  <2> QED BY <1>0, <1>1, <1>2, <1>6, <2>4, <2>5, <2>6, PollKept DEF PollNext
<1>7. CASE HandleDeviceEvent(g)
  <2> DEFINE p == [poll[g] EXCEPT !.pc = "list", !.ptr = 0]
  <2>1. p \in Poll /\ p.pc = "list" /\ poll' = [poll EXCEPT ![g] = p]
    BY <1>0, <1>7 DEF HandleDeviceEvent, Poll
  <2>2. h' \in Hist
    <3>1. (h.uaf \/ poll[g].ptr \in freed) \in BOOLEAN
      BY <1>0 DEF Hist
    <3> QED BY <1>0, <1>7, <3>1 DEF HandleDeviceEvent, Hist
  <2>21. \/ UNCHANGED <<queue, appq>>
        \/ /\ queue # <<>> /\ queue' = Tail(queue)
           /\ appq' \in {appq, appq \o [i \in 1..conns |-> Head(queue)]}
    BY <1>7 DEF HandleDeviceEvent
  <2>3. queue' \in Seq(Nat)
    <3>1. queue' = queue \/ (queue # <<>> /\ queue' = Tail(queue))
      BY <2>21
    <3>2. queue \in Seq(Nat)
      BY <1>0
    <3> QED BY <3>1, <3>2
  <2>4. appq' \in Seq(Nat)
    <3>1. queue # <<>> => Head(queue) \in Nat
      BY <1>0
    <3>2. conns \in Nat
      BY MonitorBounds DEF MonitorTypes
    <3>3. queue # <<>> => [i \in 1..conns |-> Head(queue)] \in Seq(Nat)
      BY <3>1, <3>2
    <3>4. appq \in Seq(Nat)
      BY <1>0
    <3>5. queue # <<>> => appq \o [i \in 1..conns |-> Head(queue)] \in Seq(Nat)
      BY <3>3, <3>4, ConcatProperties
    <3> QED BY <2>21, <3>4, <3>5
  <2> HIDE DEF p
  <2> QED BY <1>0, <1>1, <1>2, <1>7, <2>1, <2>2, <2>3, <2>4, PollKept DEF HandleDeviceEvent
<1> QED BY <1>3, <1>4, <1>5, <1>6, <1>7 DEF Poller

LEMMA EventTypes ==
    ASSUME MonitorTypes, MonitorControl, OnDeviceChangeHandle \/ \E e \in Events : KernelEvent(e)
    PROVE  MonitorTypes' /\ MonitorControl'
<1>0. h \in Hist /\ queue \in Seq(Nat) /\ appq \in Seq(Nat)
  BY DEF MonitorTypes
<1>1. h' \in Hist /\ queue' \in Seq(Nat) /\ appq' \in Seq(Nat)
  <2>1. ASSUME NEW e \in Events, KernelEvent(e) PROVE h' \in Hist /\ queue' \in Seq(Nat) /\ appq' \in Seq(Nat)
    <3>1. Append(h.sent, e) \in Seq(Event) /\ e \in Event
      BY <1>0, EventsAssumption DEF Hist
    <3>2. h' \in Hist
      BY <1>0, <2>1, <3>1 DEF KernelEvent, Hist
    <3>3. Len(h'.sent) \in Nat
      BY <3>2 DEF Hist
    <3> QED BY <1>0, <2>1, <3>2, <3>3 DEF KernelEvent
  <2>2. CASE OnDeviceChangeHandle
    <3>1. Append(h.told, Head(appq)) \in Seq(Nat)
      BY <1>0, <2>2 DEF OnDeviceChangeHandle, Hist
    <3>2. h' \in Hist
      BY <1>0, <2>2, <3>1 DEF OnDeviceChangeHandle, Hist
    <3> QED BY <1>0, <2>2, <3>2 DEF OnDeviceChangeHandle, kernel
  <2> QED BY <2>1, <2>2
<1>2. MonitorTypes'
  BY <1>1 DEF MonitorTypes, OnDeviceChangeHandle, KernelEvent, members, kernel, qthreads
<1> QED BY <1>2 DEF MonitorControl, OnDeviceChangeHandle, KernelEvent, members, kernel, qthreads

LEMMA MonitorTypesNext == MonitorTypes /\ MonitorControl /\ MonitorNext => MonitorTypes' /\ MonitorControl'
  BY AppTypes, QtTypes, PollerTypes, EventTypes DEF MonitorNext

-----------------------------------------------------------------------------
(* At most one thread polls: the one the object lives in.                  *)
LEMMA OnePollerKept == MonitorTypes /\ MonitorControl => OnePoller
<1> SUFFICES ASSUME MonitorTypes, MonitorControl PROVE OnePoller
  OBVIOUS
<1> DEFINE P == {g \in Gen : poll[g].pc # "none"}
<1>1. P \in SUBSET {home}
  BY DEF MonitorControl
<1>2. IsFiniteSet({home}) /\ Cardinality({home}) = 1
  BY FS_Singleton
<1>3. Cardinality(P) <= Cardinality({home})
  BY <1>1, <1>2, FS_Subset
<1> QED BY <1>2, <1>3 DEF OnePoller

-----------------------------------------------------------------------------
(* Every call of checkDeviceEvents that is queued was queued by a thread   *)
(* of its own that has begun.                                              *)
Begun == {g \in Gen : thread[g] \notin {"none", "run"}}
PostedInv == posted <= Cardinality(Begun)

LEMMA GenFinite == IsFiniteSet(Gen) /\ Cardinality(Gen) = MaxStarts
<1>1. IsFiniteSet(1..MaxStarts) /\ Cardinality(1..MaxStarts) = IF 1 > MaxStarts THEN 0 ELSE MaxStarts - 1 + 1
  BY MonitorBounds, FS_Interval
<1> QED BY <1>1, MonitorBounds DEF Gen

LEMMA SomeFinite ==
    ASSUME NEW T \in SUBSET Gen
    PROVE  IsFiniteSet(T) /\ Cardinality(T) \in Nat /\ Cardinality(T) <= MaxStarts
<1>1. IsFiniteSet(T) /\ Cardinality(T) <= MaxStarts
  BY GenFinite, FS_Subset
<1> QED BY <1>1, FS_CardinalityType

LEMMA PostedNext == MonitorTypes /\ MonitorControl /\ PostedInv /\ MonitorNext => PostedInv'
<1> SUFFICES ASSUME MonitorTypes, MonitorControl, PostedInv, MonitorNext PROVE PostedInv'
  OBVIOUS
<1>0. thread \in [Gen -> {"none", "run", "poll", "exec", "done"}] /\ posted \in Nat
  BY DEF MonitorTypes
<1>01. Begun \in SUBSET Gen /\ Begun' \in SUBSET Gen
  BY DEF Begun
<1>02. /\ IsFiniteSet(Begun) /\ Cardinality(Begun) \in Nat
       /\ IsFiniteSet(Begun') /\ Cardinality(Begun') \in Nat
  BY <1>01, SomeFinite
<1>1. ASSUME posted' = posted \/ posted' = posted - 1, \A g \in Begun : thread'[g] \notin {"none", "run"}
      PROVE  PostedInv'
  <2>1. Begun \in SUBSET Begun'
    BY <1>1 DEF Begun
  <2>2. Cardinality(Begun) <= Cardinality(Begun')
    BY <1>02, <2>1, FS_Subset
  <2> QED BY <1>0, <1>02, <1>1, <2>2 DEF PostedInv
<1>2. CASE Start \/ StartDone \/ Stop \/ StopPipe \/ StopFree \/ StopClear \/ OnDeviceChangeHandle
           \/ \E e \in Events : KernelEvent(e)
  <2>1. UNCHANGED <<thread, posted>>
    BY <1>2 DEF Start, StartDone, Stop, StopPipe, StopFree, StopClear, OnDeviceChangeHandle,
                KernelEvent, qthreads
  <2> QED BY <1>1, <2>1 DEF Begun
<1>3. CASE StartThread
  <2>1. starts \notin Begun
    BY <1>3 DEF StartThread, MonitorControl, Begun
  <2> QED BY <1>0, <1>1, <1>3, <2>1 DEF StartThread, Begun
<1>4. ASSUME NEW g \in Gen, Poller(g) PROVE PostedInv'
  <2>1. posted' = posted /\ thread' \in {thread, [thread EXCEPT ![g] = "exec"]}
    BY <1>4 DEF Poller, PollEnter, PollTest, PollWait, PollNext, HandleDeviceEvent
  <2> QED BY <1>0, <1>1, <2>1 DEF Begun
<1>5. ASSUME NEW g \in Gen, Qt(g) PROVE PostedInv'
  <2>1. CASE ThreadQuits(g) \/ ThreadRunsQueued(g) \/ (ThreadStarted(g) /\ home = g)
    <3>1. (posted' = posted \/ posted' = posted - 1)
          /\ \E t \in {"poll", "exec", "done"} : thread' = [thread EXCEPT ![g] = t]
      BY <2>1 DEF ThreadQuits, ThreadRunsQueued, ThreadStarted
    <3> QED BY <1>0, <1>1, <3>1 DEF Begun
  <2>2. CASE ThreadStarted(g) /\ home # g
    <3>1. thread[g] = "run" /\ thread' = [thread EXCEPT ![g] = "exec"] /\ posted' = posted + 1
      BY <2>2 DEF ThreadStarted
    <3>2. g \notin Begun /\ Begun' = Begun \cup {g}
      BY <1>0, <3>1 DEF Begun
    <3>3. Cardinality(Begun') = Cardinality(Begun) + 1
      BY <1>02, <3>2, FS_AddElement
    <3> QED BY <1>0, <1>02, <3>1, <3>3 DEF PostedInv
  <2> QED BY <1>5, <2>1, <2>2 DEF Qt
<1> QED BY <1>2, <1>3, <1>4, <1>5 DEF MonitorNext

-----------------------------------------------------------------------------
(* A monitor is freed once, and the member points to it only until stop()  *)
(* takes its next step; so a handler holds a freed one only when stop()    *)
(* freed it in between or had not yet cleared the member.                  *)
FreedInv ==
    /\ \A g \in freed : g <= starts /\ (app = "start" => g # starts)
    /\ monitor <= starts
    /\ monitor \in freed => app = "clear"
    /\ \A g \in Gen : poll[g].pc = "use" /\ poll[g].ptr \in freed => h.cut
    /\ FreedUnused

LEMMA FreedNext == MonitorTypes /\ MonitorControl /\ FreedInv /\ MonitorNext => FreedInv'
<1> SUFFICES ASSUME MonitorTypes, MonitorControl, FreedInv, MonitorNext PROVE FreedInv'
  OBVIOUS
<1>0. /\ starts \in Nat /\ monitor \in Nat /\ freed \in SUBSET Nat /\ 0 \notin freed
      /\ h \in Hist /\ poll \in [Gen -> Poll]
  BY MonitorBounds DEF MonitorTypes, Gen
<1>1. CASE Start
  <2>1. starts' = starts + 1 /\ UNCHANGED <<monitor, freed, poll>> /\ app' \in {"idle", "start"}
        /\ app = "idle"
    BY <1>1 DEF Start, kernel, qthreads
  <2>2. h'.cut = h.cut /\ h'.uaf = h.uaf
    BY <1>0, <1>1 DEF Start, Hist
  <2> QED BY <1>0, <2>1, <2>2 DEF FreedInv, FreedUnused
<1>2. CASE StartThread
  <2>1. starts \notin freed /\ starts # 0
    BY <1>2 DEF StartThread, FreedInv, MonitorControl
  <2> QED BY <1>0, <1>2, <2>1 DEF StartThread, FreedInv, FreedUnused
<1>3. CASE StartDone \/ Stop \/ StopPipe
  <2>1. UNCHANGED <<monitor, freed, poll, h, starts>> /\ app' # "start" /\ app # "clear"
    BY <1>3 DEF StartDone, Stop, StopPipe, kernel, qthreads, members
  <2> QED BY <2>1 DEF FreedInv, FreedUnused
<1>4. CASE StopFree
  <2>1. freed' = freed \cup {monitor} /\ monitor' = monitor
        /\ UNCHANGED <<poll, starts>> /\ app' = "clear"
    BY <1>4 DEF StopFree, members, qthreads
  <2>2. h'.cut = (h.cut \/ \E g \in Gen : poll[g].pc = "use" /\ poll[g].ptr = monitor)
        /\ h'.uaf = h.uaf
    BY <1>0, <1>4 DEF StopFree, Hist
  <2>3. \A g \in Gen : poll'[g].pc = "use" /\ poll'[g].ptr \in freed' => h'.cut
    BY <2>1, <2>2 DEF FreedInv
  <2>4. h'.uaf => h'.cut
    BY <2>2 DEF FreedInv, FreedUnused
  <2>5. monitor' <= starts' /\ \A g \in freed' : g <= starts'
    BY <1>0, <2>1 DEF FreedInv
  <2> QED BY <2>1, <2>3, <2>4, <2>5 DEF FreedInv, FreedUnused
<1>5. CASE OnDeviceChangeHandle \/ \E e \in Events : KernelEvent(e)
  <2>1. UNCHANGED <<app, monitor, freed, poll, starts>>
    BY <1>5 DEF OnDeviceChangeHandle, KernelEvent, members, kernel, qthreads
  <2>2. h'.cut = h.cut /\ h'.uaf = h.uaf
    BY <1>0, <1>5 DEF OnDeviceChangeHandle, KernelEvent, Hist
  <2> QED BY <2>1, <2>2 DEF FreedInv, FreedUnused
<1>6. ASSUME NEW g \in Gen, Qt(g) PROVE FreedInv'
  <2>1. UNCHANGED <<app, monitor, freed, starts, h>>
        /\ poll' \in {poll, [poll EXCEPT ![g].pc = "enter"]}
    BY <1>6 DEF Qt, ThreadStarted, ThreadQuits, ThreadRunsQueued, members, kernel
  <2>2. \A k \in Gen : poll'[k].pc = "use" => poll'[k] = poll[k]
    BY <1>0, <2>1 DEF Poll
  <2> QED BY <2>1, <2>2 DEF FreedInv, FreedUnused
<1>7. ASSUME NEW g \in Gen, Poller(g) PROVE FreedInv'
  <2>1. UNCHANGED <<app, monitor, freed, starts>>
    BY <1>7 DEF Poller, PollEnter, PollTest, PollWait, PollNext, HandleDeviceEvent, members, kernel
  <2>2. (h.cut => h'.cut) /\ (h'.uaf => h.uaf \/ (poll[g].pc = "use" /\ poll[g].ptr \in freed))
    BY <1>0, <1>7 DEF Poller, PollEnter, PollTest, PollWait, PollNext, HandleDeviceEvent, Hist
  <2>3. \A k \in Gen : poll'[k].pc = "use" =>
                       poll'[k] = poll[k] \/ (poll'[k].ptr = monitor /\ (app = "clear" => h'.cut))
    <3>1. \A k \in Gen : k # g => poll'[k] = poll[k]
      BY <1>0, <1>7 DEF Poller, PollEnter, PollTest, PollWait, PollNext, HandleDeviceEvent
    <3>2. CASE PollEnter(g)
      <4>1. poll'[g].pc # "use"
        <5> DEFINE p == [NoPoll EXCEPT !.pc = "test", !.mon = monitorFd, !.pipe = pipFd]
        <5>1. p.pc = "test"
          BY NoPollType DEF Poll
        <5>2. poll' = [poll EXCEPT ![g] = NoPoll] \/ poll' = [poll EXCEPT ![g] = p]
          BY <3>2 DEF PollEnter
        <5> HIDE DEF p
        <5>3. poll'[g] \in {NoPoll, p}
          BY <1>0, <5>2
        <5> QED BY <5>1, <5>3, NoPollType
      <4> QED BY <3>1, <4>1
    <3>3. CASE PollTest(g)
      BY <1>0, <3>1, <3>3 DEF PollTest, Poll, NoPoll
    <3>4. CASE PollWait(g)
      BY <1>0, <3>1, <3>4 DEF PollWait, Poll
    <3>5. CASE PollNext(g)
      <4>0. poll[g] \in Poll /\ poll[g].pc = "list"
        BY <1>0, <3>5 DEF PollNext
      <4> DEFINE rest == [poll[g] EXCEPT !.list = Tail(@)]
      <4>1. rest.pc = "list"
        BY <4>0 DEF Poll
      <4>2. [rest EXCEPT !.pc = "use", !.ptr = monitor].ptr = monitor
        BY <4>0 DEF Poll
      <4>3. \/ poll'[g].pc = "test" \/ poll'[g] = rest
            \/ poll'[g] = [rest EXCEPT !.pc = "use", !.ptr = monitor] /\ (app = "clear" => h'.cut)
        <5> HIDE DEF rest
        <5>1. \/ poll' = [poll EXCEPT ![g].pc = "test"]
              \/ /\ poll' = [poll EXCEPT ![g] = [rest EXCEPT !.pc = "use", !.ptr = monitor]]
                 /\ h' = [h EXCEPT !.cut = @ \/ app = "clear"]
              \/ poll' = [poll EXCEPT ![g] = rest]
          BY <3>5 DEF PollNext, rest
        <5>2. h' = [h EXCEPT !.cut = @ \/ app = "clear"] => (app = "clear" => h'.cut)
          BY <1>0 DEF Hist
        <5> QED BY <1>0, <5>1, <5>2 DEF Poll
      <4> HIDE DEF rest
      <4> QED BY <3>1, <4>1, <4>2, <4>3
    <3>6. CASE HandleDeviceEvent(g)
      BY <1>0, <3>1, <3>6 DEF HandleDeviceEvent, Poll
    <3> QED BY <1>7, <3>2, <3>3, <3>4, <3>5, <3>6 DEF Poller
  <2> QED BY <2>1, <2>2, <2>3 DEF FreedInv, FreedUnused
<1>8. CASE StopClear
  <2>1. monitor' = 0 /\ UNCHANGED <<freed, poll, h, starts>> /\ app' = "idle"
    BY <1>8 DEF StopClear, kernel, qthreads
  <2> QED BY <1>0, <2>1 DEF FreedInv, FreedUnused
<1> QED BY <1>1, <1>2, <1>3, <1>4, <1>5, <1>6, <1>7, <1>8 DEF MonitorNext

-----------------------------------------------------------------------------
(* What was reported, `all', the events still queued, q, and those sent,   *)
(* numbered up to n: all of it in order, nothing reported more than k      *)
(* times, and nothing that is still queued reported at all.                *)
InOrder(all, q, n, k) ==
    /\ \A i \in 1..Len(q) : q[i] \in 1..n
    /\ \A i, j \in 1..Len(q) : i < j => q[i] < q[j]
    /\ \A i \in 1..Len(all) : all[i] \in 1..n
    /\ \A i \in 1..Len(all), j \in 1..Len(q) : all[i] < q[j]
    /\ \A i, j \in 1..Len(all) : i < j => all[i] <= all[j]
    /\ \A e \in 1..n : Cardinality({i \in 1..Len(all) : all[i] = e}) <= k

LEMMA InOrderMore ==
    ASSUME NEW all \in Seq(Nat), NEW q \in Seq(Nat), NEW n \in Nat, NEW k \in Nat, NEW l \in Nat,
           k <= l, InOrder(all, q, n, k)
    PROVE  InOrder(all, q, n, l)
<1>1. ASSUME NEW e \in 1..n PROVE Cardinality({i \in 1..Len(all) : all[i] = e}) <= l
  <2> DEFINE S == {i \in 1..Len(all) : all[i] = e}
  <2>1. IsFiniteSet(1..Len(all))
    BY FS_Interval, LenProperties
  <2>2. IsFiniteSet(S) /\ S \in SUBSET (1..Len(all))
    BY <2>1, FS_Subset
  <2>3. Cardinality(S) \in Nat
    BY <2>2, FS_CardinalityType
  <2>4. Cardinality(S) <= k
    BY <1>1 DEF InOrder
  <2> HIDE DEF S
  <2>5. Cardinality(S) <= l
    BY <2>3, <2>4
  <2> QED BY <2>5 DEF S
<1> QED BY <1>1 DEF InOrder

LEMMA InOrderNone ==
    ASSUME NEW all \in Seq(Nat), NEW q \in Seq(Nat), NEW n \in Nat, NEW k \in Nat,
           InOrder(all, q, n, k)
    PROVE  InOrder(all, <<>>, n, k)
<1>1. Len(<<>>) = 0 /\ 1..0 = {}
  OBVIOUS
<1> QED BY <1>1 DEF InOrder

LEMMA InOrderTail ==
    ASSUME NEW all \in Seq(Nat), NEW q \in Seq(Nat), NEW n \in Nat, NEW k \in Nat,
           q # <<>>, InOrder(all, q, n, k)
    PROVE  InOrder(all, Tail(q), n, k)
<1>1. Len(q) \in Nat /\ Len(Tail(q)) = Len(q) - 1 /\ \A i \in 1..Len(Tail(q)) : Tail(q)[i] = q[i + 1]
  BY HeadTailProperties, LenProperties
<1>2. \A i \in 1..Len(Tail(q)) : i \in Int /\ i + 1 \in 1..Len(q)
  BY <1>1
<1>3. \A i, j \in 1..Len(Tail(q)) : i < j => Tail(q)[i] < Tail(q)[j]
  <2> TAKE i, j \in 1..Len(Tail(q))
  <2>1. i < j => i + 1 < j + 1
    BY <1>2
  <2> QED BY <1>1, <1>2, <2>1 DEF InOrder
<1> QED BY <1>1, <1>2, <1>3 DEF InOrder

LEMMA InOrderSent ==
    ASSUME NEW all \in Seq(Nat), NEW q \in Seq(Nat), NEW n \in Nat, NEW k \in Nat,
           InOrder(all, q, n, k)
    PROVE  InOrder(all, Append(q, n + 1), n + 1, k)
<1> DEFINE r == Append(q, n + 1)
<1>1. Len(q) \in Nat /\ Len(all) \in Nat /\ Len(r) = Len(q) + 1 /\ r[Len(q) + 1] = n + 1
      /\ \A i \in 1..Len(q) : r[i] = q[i]
  BY AppendProperties, LenProperties
<1> HIDE DEF r
<1>2. \A i \in 1..Len(r) : i \in 1..Len(q) \/ i = Len(q) + 1
  BY <1>1
<1>3. \A i \in 1..Len(r) : r[i] \in 1..(n + 1)
  BY <1>1, <1>2 DEF InOrder
<1>4. \A i, j \in 1..Len(r) : i < j => r[i] < r[j]
  <2> TAKE i, j \in 1..Len(r)
  <2> HAVE i < j
  <2>1. i \in 1..Len(q)
    BY <1>1
  <2>2. q[i] \in 1..n /\ r[i] = q[i]
    BY <1>1, <2>1 DEF InOrder
  <2>3. CASE j \in 1..Len(q)
    BY <1>1, <2>1, <2>3 DEF InOrder
  <2>4. CASE j = Len(q) + 1
    BY <1>1, <2>2, <2>4
  <2> QED BY <1>2, <2>3, <2>4
<1>5. \A i \in 1..Len(all) : all[i] \in 1..(n + 1) /\ all[i] # n + 1
  BY DEF InOrder
<1>6. \A i \in 1..Len(all), j \in 1..Len(r) : all[i] < r[j]
  <2> TAKE i \in 1..Len(all), j \in 1..Len(r)
  <2>1. all[i] \in 1..n
    BY DEF InOrder
  <2>2. CASE j \in 1..Len(q)
    BY <1>1, <2>2 DEF InOrder
  <2>3. CASE j = Len(q) + 1
    BY <1>1, <2>1, <2>3
  <2> QED BY <1>2, <2>2, <2>3
<1>7. ASSUME NEW e \in 1..(n + 1) PROVE Cardinality({i \in 1..Len(all) : all[i] = e}) <= k
  <2>1. CASE e = n + 1
    <3>1. {i \in 1..Len(all) : all[i] = e} = {}
      BY <1>5, <2>1
    <3>2. Cardinality({}) = 0 /\ 0 <= k
      BY FS_EmptySet
    <3> QED BY <3>1, <3>2
  <2>2. CASE e \in 1..n
    BY <2>2 DEF InOrder
  <2> QED BY <2>1, <2>2
<1>8. \A i, j \in 1..Len(all) : i < j => all[i] <= all[j]
  BY DEF InOrder
<1>9. InOrder(all, r, n + 1, k)
  BY <1>3, <1>4, <1>5, <1>6, <1>7, <1>8 DEF InOrder
<1> QED BY <1>9 DEF r

LEMMA InOrderReported ==
    ASSUME NEW all \in Seq(Nat), NEW q \in Seq(Nat), NEW n \in Nat, NEW k \in Nat,
           q # <<>>, InOrder(all, q, n, k)
    PROVE  InOrder(all \o [i \in 1..k |-> Head(q)], Tail(q), n, k)
<1> DEFINE c == [i \in 1..k |-> Head(q)]
           new == all \o c
<1>1. Len(q) \in Nat /\ 1 \in 1..Len(q) /\ Head(q) = q[1] /\ Head(q) \in Nat /\ Len(all) \in Nat
  BY EmptySeq, LenProperties, HeadTailProperties
<1>2. c \in Seq(Nat) /\ Len(c) = k /\ \A i \in 1..k : c[i] = q[1]
  BY <1>1
<1>3. Len(new) = Len(all) + k
      /\ \A i \in 1..Len(new) : new[i] = IF i <= Len(all) THEN all[i] ELSE q[1]
  <2> HIDE DEF c
  <2>1. Len(new) = Len(all) + Len(c)
        /\ \A i \in 1..(Len(all) + Len(c)) : new[i] = IF i <= Len(all) THEN all[i] ELSE c[i - Len(all)]
    BY <1>2, ConcatProperties
  <2>2. \A i \in 1..(Len(all) + k) : ~(i <= Len(all)) => i - Len(all) \in 1..k
    BY <1>1
  <2> QED BY <1>2, <2>1, <2>2
<1> HIDE DEF new, c
<1>4. InOrder(all, Tail(q), n, k)
  BY InOrderTail
<1>5. \A i \in 1..Len(new) : i \in Nat /\ (i <= Len(all) => i \in 1..Len(all))
  BY <1>1, <1>3
<1>6. \A i \in 1..Len(new) : new[i] \in 1..n
  BY <1>1, <1>3, <1>5 DEF InOrder
<1>7. \A i \in 1..Len(new), j \in 1..Len(Tail(q)) : new[i] < Tail(q)[j]
  <2> TAKE i \in 1..Len(new), j \in 1..Len(Tail(q))
  <2>1. Tail(q)[j] = q[j + 1] /\ j + 1 \in 1..Len(q) /\ 1 < j + 1
    BY <1>1, HeadTailProperties
  <2>2. q[1] < Tail(q)[j]
    BY <1>1, <2>1 DEF InOrder
  <2>3. i <= Len(all) => all[i] < Tail(q)[j]
    BY <1>4, <1>5 DEF InOrder
  <2> QED BY <1>3, <2>2, <2>3
<1>8. \A i, j \in 1..Len(new) : i < j => new[i] <= new[j]
  <2> TAKE i, j \in 1..Len(new)
  <2> HAVE i < j
  <2>1. CASE j <= Len(all)
    <3>1. i \in 1..Len(all) /\ j \in 1..Len(all)
      BY <1>1, <1>5, <2>1
    <3>2. new[i] = all[i] /\ new[j] = all[j]
      BY <1>3, <1>5, <2>1, <3>1
    <3> QED BY <3>1, <3>2 DEF InOrder
  <2>2. CASE ~(j <= Len(all)) /\ i <= Len(all)
    <3>1. all[i] < q[1] /\ all[i] \in Nat /\ q[1] \in Nat
      BY <1>1, <1>5, <2>2 DEF InOrder
    <3> QED BY <1>3, <2>2, <3>1
  <2>3. CASE ~(j <= Len(all)) /\ ~(i <= Len(all))
    BY <1>1, <1>3, <2>3
  <2> QED BY <2>1, <2>2, <2>3
<1>9. ASSUME NEW e \in 1..n PROVE Cardinality({i \in 1..Len(new) : new[i] = e}) <= k
  <2>1. CASE e = q[1]
    <3>1. {i \in 1..Len(new) : new[i] = e} = (Len(all) + 1)..(Len(all) + k)
      <4>1. \A i \in 1..Len(all) : all[i] # e
        <5> TAKE i \in 1..Len(all)
        <5>1. all[i] < q[1] /\ all[i] \in 1..n
          BY <1>1 DEF InOrder
        <5> QED BY <2>1, <5>1
      <4>2. \A i \in 1..Len(new) : new[i] = e <=> ~(i <= Len(all))
        BY <1>3, <1>5, <2>1, <4>1
      <4> QED BY <1>1, <1>3, <4>2
    <3> DEFINE a == Len(all) + 1
               b == Len(all) + k
    <3>2. a \in Int /\ b \in Int /\ b - a + 1 = k
      BY <1>1
    <3>3. Cardinality(a..b) = IF a > b THEN 0 ELSE b - a + 1
      <4> HIDE DEF a, b
      <4> QED BY <3>2, FS_Interval
    <3>4. Cardinality(a..b) <= k
      <4> HIDE DEF a, b
      <4> QED BY <3>2, <3>3
    <3> QED BY <3>1, <3>4
  <2>2. CASE e # q[1]
    <3>1. {i \in 1..Len(new) : new[i] = e} = {i \in 1..Len(all) : all[i] = e}
      BY <1>1, <1>3, <1>5, <2>2
    <3> QED BY <3>1 DEF InOrder
  <2> QED BY <2>1, <2>2
<1>10. InOrder(new, Tail(q), n, k)
  BY <1>4, <1>6, <1>7, <1>8, <1>9 DEF InOrder
<1> QED BY <1>10 DEF new, c

(* Taking the first of t to the end of s.                                  *)
LEMMA TakeOne ==
    ASSUME NEW S, NEW s \in Seq(S), NEW t \in Seq(S), t # <<>>
    PROVE  Append(s, Head(t)) \o Tail(t) = s \o t
<1>1. Head(t) \in S /\ Tail(t) \in Seq(S) /\ Head(t) = t[1] /\ <<Head(t)>> \in Seq(S)
  <2>1. Head(t) \in S /\ Tail(t) \in Seq(S)
    BY HeadTailProperties
  <2>2. Head(t) = t[1]
    OBVIOUS
  <2> QED BY <2>1, <2>2
<1>2. t = <<Head(t)>> \o Tail(t)
  <2>1. Len(t) \in Nat /\ 1 \in 1..Len(t) /\ Len(t) \in 1..Len(t)
    BY EmptySeq, LenProperties
  <2>2. SubSeq(t, 1, Len(t)) = <<t[1]>> \o SubSeq(t, 1 + 1, Len(t))
    BY <2>1, SubSeqRecursiveFirst
  <2>3. SubSeq(t, 1, Len(t)) = t
    BY SubSeqFull
  <2>4. Tail(t) = SubSeq(t, 1 + 1, Len(t))
    BY TailIsSubSeq
  <2> QED BY <1>1, <2>2, <2>3, <2>4
<1>3. Append(s, Head(t)) = s \o <<Head(t)>>
  BY <1>1, AppendIsConcat
<1>4. (s \o <<Head(t)>>) \o Tail(t) = s \o (<<Head(t)>> \o Tail(t))
  <2> DEFINE one == <<Head(t)>>
             more == Tail(t)
  <2>1. one \in Seq(S) /\ more \in Seq(S)
    BY <1>1
  <2> HIDE DEF one, more
  <2>2. (s \o one) \o more = s \o (one \o more)
    BY <2>1, ConcatAssociative, SMT
  <2> QED BY <2>2 DEF one, more
<1> QED BY <1>2, <1>3, <1>4, Zenon

(* The device events on their way to the application.                      *)
ToldInv == InOrder(h.told \o appq, queue, Len(h.sent), conns)

LEMMA ToldNext == MonitorTypes /\ MonitorControl /\ ToldInv /\ MonitorNext => ToldInv'
<1> SUFFICES ASSUME MonitorTypes, MonitorControl, ToldInv, MonitorNext PROVE ToldInv'
  OBVIOUS
<1>0. h \in Hist /\ queue \in Seq(Nat) /\ appq \in Seq(Nat) /\ conns \in Nat
  BY MonitorBounds DEF MonitorTypes
<1>1. h.sent \in Seq(Event) /\ h.told \in Seq(Nat)
  BY <1>0 DEF Hist
<1>2. h.told \o appq \in Seq(Nat) /\ Len(h.sent) \in Nat
  BY <1>0, <1>1, ConcatProperties, LenProperties
<1>3. ASSUME h'.told = h.told, h'.sent = h.sent, appq' = appq, queue' = queue \/ queue' = <<>>,
             conns' = conns \/ conns' = conns + 1
      PROVE  ToldInv'
  <2>1. InOrder(h.told \o appq, queue', Len(h.sent), conns)
    BY <1>0, <1>2, <1>3, InOrderNone DEF ToldInv
  <2>2. queue' \in Seq(Nat) /\ conns' \in Nat /\ conns <= conns'
    <3>1. <<>> \in Seq(Nat)
      OBVIOUS
    <3>2. conns <= conns /\ conns <= conns + 1 /\ conns + 1 \in Nat
      BY <1>0
    <3> QED BY <1>0, <1>3, <3>1, <3>2
  <2>3. InOrder(h.told \o appq, queue', Len(h.sent), conns')
    BY <1>0, <1>2, <2>1, <2>2, InOrderMore
  <2> QED BY <1>3, <2>3 DEF ToldInv
<1>4. CASE Start \/ StartThread \/ StartDone \/ Stop \/ StopPipe \/ StopFree \/ StopClear
           \/ \E g \in Gen : Qt(g)
  <2>1. h'.told = h.told /\ h'.sent = h.sent
    BY <1>0, <1>4 DEF Start, StartThread, StartDone, Stop, StopPipe, StopFree, StopClear, Qt, ThreadStarted,
                      ThreadQuits, ThreadRunsQueued, Hist
  <2>2. appq' = appq /\ (queue' = queue \/ queue' = <<>>) /\ (conns' = conns \/ conns' = conns + 1)
    BY <1>4 DEF Start, StartThread, StartDone, Stop, StopPipe, StopFree, StopClear, Qt, ThreadStarted,
                ThreadQuits, ThreadRunsQueued, members, kernel
  <2> QED BY <1>3, <2>1, <2>2
<1>5. ASSUME NEW g \in Gen, PollEnter(g) \/ PollTest(g) \/ PollWait(g) \/ PollNext(g) PROVE ToldInv'
  <2>1. h'.told = h.told /\ h'.sent = h.sent
    BY <1>0, <1>5 DEF PollEnter, PollTest, PollWait, PollNext, Hist
  <2>2. appq' = appq /\ queue' = queue /\ conns' = conns
    BY <1>5 DEF PollEnter, PollTest, PollWait, PollNext, members, kernel
  <2> QED BY <1>3, <2>1, <2>2
<1>6. ASSUME NEW g \in Gen, HandleDeviceEvent(g) PROVE ToldInv'
  <2>1. h'.told = h.told /\ h'.sent = h.sent /\ conns' = conns
    BY <1>0, <1>6 DEF HandleDeviceEvent, Hist, members
  <2>2. CASE UNCHANGED <<queue, appq>>
    BY <1>3, <2>1, <2>2
  <2>3. CASE queue # <<>> /\ queue' = Tail(queue) /\ appq' = appq
    <3>1. InOrder(h.told \o appq, Tail(queue), Len(h.sent), conns)
      BY <1>0, <1>2, <2>3, InOrderTail DEF ToldInv
    <3> QED BY <2>1, <2>3, <3>1 DEF ToldInv
  <2>4. CASE queue # <<>> /\ queue' = Tail(queue) /\ appq' = appq \o [i \in 1..conns |-> Head(queue)]
    <3> DEFINE c == [i \in 1..conns |-> Head(queue)]
    <3>1. InOrder((h.told \o appq) \o c, Tail(queue), Len(h.sent), conns)
      BY <1>0, <1>2, <2>4, InOrderReported DEF ToldInv
    <3>2. c \in Seq(Nat)
      <4>1. Head(queue) \in Nat
        BY <1>0, <2>4
      <4> QED BY <1>0, <4>1
    <3>3. appq' = appq \o c
      BY <2>4
    <3> HIDE DEF c
    <3>4. (h.told \o appq) \o c = h.told \o (appq \o c)
      <4> DEFINE a == h.told
                 b == appq
                 S == Nat
      <4>1. a \in Seq(S) /\ b \in Seq(S) /\ c \in Seq(S)
        BY <1>0, <1>1, <3>2
      <4> HIDE DEF a, b, S
      <4>2. (a \o b) \o c = a \o (b \o c)
        BY <4>1, ConcatAssociative, SMT
      <4> QED BY <4>2 DEF a, b
    <3> QED BY <2>1, <2>4, <3>1, <3>3, <3>4 DEF ToldInv
  <2> QED BY <1>6, <2>2, <2>3, <2>4 DEF HandleDeviceEvent
<1>7. ASSUME NEW e \in Events, KernelEvent(e) PROVE ToldInv'
  <2>1. h'.told = h.told /\ h'.sent = Append(h.sent, e)
    BY <1>0, <1>7 DEF KernelEvent, Hist
  <2>2. Len(h'.sent) = Len(h.sent) + 1
    BY <1>1, <2>1, EventsAssumption
  <2>3. queue' = Append(queue, Len(h.sent) + 1) /\ appq' = appq /\ conns' = conns
    BY <1>7, <2>2 DEF KernelEvent, members
  <2>4. InOrder(h.told \o appq, Append(queue, Len(h.sent) + 1), Len(h.sent) + 1, conns)
    BY <1>0, <1>2, InOrderSent DEF ToldInv
  <2> QED BY <2>1, <2>2, <2>3, <2>4 DEF ToldInv
<1>8. CASE OnDeviceChangeHandle
  <2>1. /\ h'.told = Append(h.told, Head(appq)) /\ h'.sent = h.sent /\ appq # <<>> /\ appq' = Tail(appq)
        /\ queue' = queue /\ conns' = conns
    BY <1>0, <1>8 DEF OnDeviceChangeHandle, Hist, members, kernel
  <2>2. Append(h.told, Head(appq)) \o Tail(appq) = h.told \o appq
    BY <1>0, <1>1, <2>1, TakeOne
  <2> QED BY <2>1, <2>2 DEF ToldInv
<1> QED BY <1>4, <1>5, <1>6, <1>7, <1>8 DEF MonitorNext, Poller

LEMMA ToldFromInv == MonitorTypes /\ ToldInv => ToldPerStart
<1> SUFFICES ASSUME MonitorTypes, ToldInv PROVE ToldPerStart
  OBVIOUS
<1>1. h.sent \in Seq(Event) /\ h.told \in Seq(Nat) /\ appq \in Seq(Nat)
  BY DEF MonitorTypes, Hist
<1>2. h.told \o appq \in Seq(Nat)
  BY <1>1, ConcatProperties
<1>3. DOMAIN (h.told \o appq) = 1..Len(h.told \o appq) /\ DOMAIN h.sent = 1..Len(h.sent)
  BY <1>1, <1>2, LenProperties
<1> QED BY <1>3 DEF ToldPerStart, ToldInv, InOrder

-----------------------------------------------------------------------------
(* The inductive invariant of the monitor.                                 *)
MonitorInv == MonitorTypes /\ MonitorControl /\ PostedInv /\ FreedInv /\ ToldInv

LEMMA MonitorInvInit == MonitorInit => MonitorInv
<1> SUFFICES ASSUME MonitorInit PROVE MonitorInv
  OBVIOUS
<1>1. MonitorTypes /\ MonitorControl
  BY MonitorTypesInit
<1>2. PostedInv
  <2>1. Begun = {}
    BY DEF MonitorInit, Begun
  <2> QED BY <2>1, FS_EmptySet DEF PostedInv, MonitorInit
<1>3. FreedInv
  BY NoPollType DEF MonitorInit, FreedInv, FreedUnused
<1>4. ToldInv
  <2>1. h.told = <<>> /\ appq = <<>> /\ queue = <<>> /\ h.sent = <<>> /\ Len(<<>>) = 0 /\ 1..0 = {}
    BY DEF MonitorInit
  <2>2. h.told \o appq = <<>>
    BY <2>1
  <2> QED BY <2>1, <2>2 DEF ToldInv, InOrder
<1> QED BY <1>1, <1>2, <1>3, <1>4 DEF MonitorInv

LEMMA MonitorInvNext == MonitorInv /\ MonitorNext => MonitorInv'
  BY MonitorTypesNext, PostedNext, FreedNext, ToldNext DEF MonitorInv

LEMMA MonitorInvType == MonitorInv => MonitorTypeOK
<1> SUFFICES ASSUME MonitorInv PROVE MonitorTypeOK
  OBVIOUS
<1>1. posted \in 0..MaxStarts
  <2>1. Begun \in SUBSET Gen
    BY DEF Begun
  <2>2. Cardinality(Begun) \in Nat /\ Cardinality(Begun) <= MaxStarts
    BY <2>1, SomeFinite
  <2> QED BY <2>2, MonitorBounds DEF MonitorInv, PostedInv, MonitorTypes
<1>2. \A i \in DOMAIN h.sent : h.sent[i] \in Event
  <2>1. h.sent \in Seq(Event)
    BY DEF MonitorInv, MonitorTypes, Hist
  <2> QED BY <2>1
<1>3. ASSUME NEW g \in Gen
      PROVE  /\ poll[g].pc \in {"none", "enter", "test", "wait", "list", "use"}
             /\ (poll[g].pc = "none") = (thread[g] # "poll")
             /\ {poll[g].mon, poll[g].pipe, poll[g].ptr} \subseteq {0} \cup Gen
  <2>1. poll[g] \in Poll
    BY DEF MonitorInv, MonitorTypes
  <2> QED BY <2>1 DEF MonitorInv, MonitorControl, Poll
<1> QED BY <1>1, <1>2, <1>3 DEF MonitorInv, MonitorTypes, MonitorTypeOK
=============================================================================
