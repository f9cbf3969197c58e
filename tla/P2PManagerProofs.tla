-------------------------- MODULE P2PManagerProofs ---------------------------
(***************************************************************************)
(* Proofs about P2PManager, for any number of callers, workers and         *)
(* processes and whether or not Popen can fail.                            *)
(***************************************************************************)
EXTENDS P2PManager, SequenceTheorems, TLAPS

-----------------------------------------------------------------------------
(* The inductive invariant. *)

\* A port's slot in a worker holds a process that binds this port.
SlotsMatchPorts ==
  \A w \in Workers, s \in Services : services[w][s] \in ProcsOf(s) \cup {None}

\* A thread in a section under the lifecycle lock holds that lock.
LockHolders ==
  /\ \A c \in Callers : caller[c].pc # "idle" => lifecycle = Caller(c)
  /\ \A w \in Workers : starter[w].pc = "spawn" => lifecycle = Starter(w)
  /\ \A p \in Procs :
       reader[p].pc \in {"restart", "kill", "respawn"} => lifecycle = Reader(p)

\* What a call has reached: no worker is registered while the old one is
\* terminated, and the new one is empty until its first process starts.
CallerPhases ==
  \A c \in Callers :
    /\ caller[c].pc \in {"terminate", "register"} => registered = None
    /\ caller[c].pc = "spawn" => registered # None /\ services[registered] = NoServices
    /\ caller[c].pc # "terminate" => caller[c].doomed = {}
    /\ \A s \in Services : \A p, q \in caller[c].doomed \cap ProcsOf(s) : p = q

\* A process that runs has a reader, and a reader has a process of a worker.
ReadersFollow ==
  \A p \in Procs : /\ proc[p].live => reader[p].pc = "read"
                   /\ reader[p].pc # "done" => proc[p].worker # None

\* While the RTSP peer is replaced, the worker stays and its ONVIF slot no
\* longer holds the session that failed.
PeerPhases ==
  \A p \in Procs :
    /\ reader[p].pc \in {"kill", "respawn"} =>
         /\ registered = proc[p].worker
         /\ p \notin Owned(registered)
         /\ Peer(p) # None
    /\ reader[p].pc = "respawn" => ~proc[Peer(p)].live

IInv ==
  /\ TypeOK
  /\ SlotsMatchPorts
  /\ LockHolders
  /\ CallerPhases
  /\ ReadersFollow
  /\ PeerPhases
  /\ NoOrphan
  /\ NobodyWaitsInVain

-----------------------------------------------------------------------------
(* Type correctness. *)

\* A slot nothing uses and a process just launched have their declared types.
LEMMA BlankTyped == Blank \in Process
BY DEF Blank, Process

\* A process just launched has its declared type.
LEMMA LaunchedTyped ==
  ASSUME NEW w \in Workers \cup {None}
  PROVE  Launched(w) \in Process
BY BlankTyped DEF Launched, Process

\* A process keeps its type when it ends.
LEMMA ProcessEnds ==
  ASSUME NEW r \in Process, NEW code \in {"reconnect", "other"}
  PROVE  [r EXCEPT !.live = FALSE, !.code = code] \in Process
BY DEF Process

\* Its type survives new output.
LEMMA ProcessSpeaks ==
  ASSUME NEW r \in Process, NEW out \in Seq(Lines)
  PROVE  [r EXCEPT !.out = out] \in Process
BY DEF Process

\* Its type survives what the reader notes of it.
LEMMA ProcessFollowed ==
  ASSUME NEW r \in Process, NEW status \in {"connecting", "online", "error"}
  PROVE  /\ [r EXCEPT !.readyEvent = TRUE] \in Process
         /\ [r EXCEPT !.status = status] \in Process
BY DEF Process

\* A service's slot may be given any process.
LEMMA ServiceSet ==
  ASSUME NEW table \in [Workers -> [Services -> Procs \cup {None}]],
         NEW w, NEW s, NEW p \in Procs
  PROVE  [table EXCEPT ![w][s] = p] \in [Workers -> [Services -> Procs \cup {None}]]
<1> DEFINE Slots == Procs \cup {None}
<1>1. table \in [Workers -> [Services -> Slots]] /\ p \in Slots
  OBVIOUS
<1> HIDE DEF Slots
<1>2. [table EXCEPT ![w][s] = p] \in [Workers -> [Services -> Slots]]
  BY <1>1
<1>3. QED
  BY <1>2 DEF Slots

\* The program counters of a reader.
ReaderPcs ==
  {"done", "read", "exited", "delay", "restart", "kill", "respawn", "crashed"}

\* A reader may go anywhere.
LEMMA ReaderGo ==
  ASSUME NEW readers \in [Procs -> ReaderState], NEW p, NEW pc \in ReaderPcs
  PROVE  [readers EXCEPT ![p].pc = pc] \in [Procs -> ReaderState]
BY DEF ReaderState, ReaderPcs

\* A reader that has ended is one.
LEMMA ReaderEnds == [pc |-> "done", peer |-> FALSE] \in ReaderState
BY DEF ReaderState

\* The processes that StartService may take.
LEMMA FreeProcsAreProcs ==
  ASSUME NEW s \in Services
  PROVE  FreeProcs(s) \subseteq ProcsOf(s) /\ ProcsOf(s) \subseteq Procs
BY DEF FreeProcs, ProcsOf, Procs

\* The initial state has the declared types.
LEMMA TypeInit == Init => TypeOK
BY BlankTyped DEF Init, TypeOK, CallerState, StarterState, ReaderState, NoServices

\* Beginning a call keeps the declared types.
LEMMA TypeBegin ==
  ASSUME TypeOK, NEW c \in Callers, NEW op \in {"start", "stop"}, BeginCall(c, op)
  PROVE  TypeOK'
BY DEF BeginCall, TypeOK, CallerState, Threads

\* A call's steps keep the declared types.
LEMMA TypeCaller ==
  ASSUME TypeOK, NEW c \in Callers, CallerStep(c)
  PROVE  TypeOK'
<1>1. CASE PopWorker(c)
  <2>1. caller' \in [Callers -> CallerState]
    <3>1. registered # None => Owned(registered) \subseteq Procs
      BY DEF TypeOK, Owned
    <3> DEFINE doomed == IF registered = None THEN {} ELSE Owned(registered)
    <3>2. doomed \in SUBSET Procs
      BY <3>1
    <3>3. caller' = [caller EXCEPT ![c].pc = "terminate", ![c].doomed = doomed]
      BY <1>1 DEF PopWorker
    <3> HIDE DEF doomed
    <3>4. QED
      BY <3>2, <3>3 DEF TypeOK, CallerState
  <2>2. services' \in [Workers -> [Services -> Procs \cup {None}]]
    BY <1>1 DEF PopWorker, TypeOK, NoServices
  <2>3. proc' \in [Procs -> Process] /\ reader' \in [Procs -> ReaderState]
    BY <1>1, BlankTyped DEF PopWorker, TypeOK, ReaderState
  <2>4. QED
    BY <1>1, <2>1, <2>2, <2>3 DEF PopWorker, TypeOK
<1>2. ASSUME NEW p \in Procs, TerminateNext(c, p) PROVE TypeOK'
  <2>1. caller' \in [Callers -> CallerState]
    BY <1>2 DEF TerminateNext, TypeOK, CallerState
  <2>2. proc' \in [Procs -> Process]
    BY <1>2, ProcessEnds DEF TerminateNext, Terminate, Terminated, TypeOK
  <2>3. QED
    BY <1>2, <2>1, <2>2 DEF TerminateNext, TypeOK, managerVars
<1>3. CASE AllTerminated(c)
  BY <1>3 DEF AllTerminated, Go, TypeOK, CallerState
<1>4. CASE RegisterWorker(c)
  <2>1. caller' \in [Callers -> CallerState]
    BY <1>4 DEF RegisterWorker, Go, TypeOK, CallerState
  <2>2. NoServices \in [Services -> Procs \cup {None}]
    BY DEF NoServices
  <2>3. QED
    BY <1>4, <2>1, <2>2 DEF RegisterWorker, TypeOK, FreeWorkers
<1>5. CASE SpawnRtsp(c)
  <2>1. caller' \in [Callers -> CallerState] /\ starter' \in [Workers -> StarterState]
    <3>1. caller' \in [Callers -> CallerState]
      <4>1. [caller EXCEPT ![c].pc = "idle"] \in [Callers -> CallerState]
        BY DEF TypeOK, CallerState
      <4>2. QED
        BY <1>5, <4>1 DEF SpawnRtsp, Go
    <3>2. starter' \in [Workers -> StarterState]
      BY <1>5 DEF SpawnRtsp, Go, TypeOK, StarterState
    <3>3. QED
      BY <3>1, <3>2
  <2>2. proc' \in [Procs -> Process] /\ reader' \in [Procs -> ReaderState]
    BY <1>5, LaunchedTyped DEF SpawnRtsp, StartService, TypeOK, ReaderState
  <2>3. services' \in [Workers -> [Services -> Procs \cup {None}]]
    <3>1. \A p \in Procs : [services EXCEPT ![registered]["rtsp"] = p]
                              \in [Workers -> [Services -> Procs \cup {None}]]
      BY ServiceSet DEF TypeOK
    <3>2. QED
      BY <1>5, <3>1 DEF SpawnRtsp, StartService
  <2>4. QED
    BY <1>5, <2>1, <2>2, <2>3 DEF SpawnRtsp, TypeOK
<1>6. CASE CallRaises(c)
  BY <1>6 DEF CallRaises, Go, TypeOK, CallerState
<1>7. QED
  BY <1>1, <1>2, <1>3, <1>4, <1>5, <1>6, CallerStep(c) DEF CallerStep

\* A starter thread's steps keep the declared types.
LEMMA TypeStarter ==
  ASSUME TypeOK, NEW w \in Workers, StarterStep(w)
  PROVE  TypeOK'
<1>1. CASE LookAtRtsp(w)
  BY <1>1 DEF LookAtRtsp, StarterDone, TypeOK, StarterState, managerVars, Services
<1>2. CASE WaitForRtsp(w)
  BY <1>2 DEF WaitForRtsp, TypeOK, StarterState, managerVars
<1>3. CASE GiveUpWaiting(w)
  BY <1>3 DEF GiveUpWaiting, Go, TypeOK, StarterState, managerVars
<1>4. CASE EnterStarter(w)
  BY <1>4 DEF EnterStarter, Go, TypeOK, StarterState, Threads
<1>5. CASE StartOnvif(w)
  <2>1. starter' \in [Workers -> StarterState]
    BY <1>5 DEF StartOnvif, StarterDone, TypeOK, StarterState
  <2>2. CASE UNCHANGED <<proc, services, reader>>
    BY <1>5, <2>1, <2>2 DEF StartOnvif, TypeOK
  <2>3. ASSUME NEW p \in Procs,
               StartService(w, "onvif", p),
               reader' = [reader EXCEPT ![p].pc = "read"]
        PROVE  TypeOK'
    <3>1. proc' \in [Procs -> Process]
      BY <2>3, LaunchedTyped DEF StartService, TypeOK
    <3>2. services' \in [Workers -> [Services -> Procs \cup {None}]]
      BY <2>3, ServiceSet DEF StartService, TypeOK
    <3>3. reader' \in [Procs -> ReaderState]
      BY <2>3, ReaderGo DEF ReaderPcs, TypeOK
    <3>4. QED
      BY <1>5, <2>1, <3>1, <3>2, <3>3 DEF StartOnvif, TypeOK
  <2>4. QED
    BY <1>5, <2>2, <2>3 DEF StartOnvif
<1>6. QED
  BY <1>1, <1>2, <1>3, <1>4, <1>5, StarterStep(w) DEF StarterStep

\* A reader thread's steps keep the declared types.
LEMMA TypeReader ==
  ASSUME TypeOK, NEW p \in Procs, ReaderStep(p)
  PROVE  TypeOK'
<1> USE DEF ReaderPcs
<1>p. proc[p] \in Process
  BY DEF TypeOK
<1>1. CASE ReadLine(p)
  <2>1. proc[p].out \in Seq(Lines) /\ proc[p].out # <<>>
    BY <1>1, <1>p DEF ReadLine, Process
  <2>2. [proc[p] EXCEPT !.out = Tail(@)] \in Process
    <3>1. Tail(proc[p].out) \in Seq(Lines)
      BY <2>1
    <3>2. QED
      BY <1>p, <3>1, ProcessSpeaks
  <2>3. proc' \in [Procs -> Process]
    BY <1>1, <2>2, ProcessFollowed DEF ReadLine, TypeOK
  <2>4. QED
    BY <1>1, <2>3 DEF ReadLine, TypeOK, managerVars
<1>2. CASE EndOfOutput(p)
  <2>1. proc' = [proc EXCEPT ![p] = [proc[p] EXCEPT !.readyEvent = TRUE]]
    BY <1>2 DEF EndOfOutput, TypeOK
  <2>2. proc' \in [Procs -> Process]
    BY <1>p, <2>1, ProcessFollowed DEF TypeOK
  <2>3. QED
    BY <1>2, <2>2, ReaderGo DEF EndOfOutput, Go, TypeOK, managerVars
<1>3. CASE HandleExit(p)
  <2>1. CASE ReaderDone(p)
    BY <1>3, <2>1, BlankTyped, ReaderEnds DEF HandleExit, ReaderDone, TypeOK, managerVars
  <2>2. ASSUME NEW peer \in BOOLEAN, SchedulesRestart(p, peer) PROVE TypeOK'
    <3> PICK base \in CountsFrom(p) :
          proc' = [proc EXCEPT ![p].status = "connecting",
                               ![p].attempt = IF proc[p].code = "reconnect" THEN base + 1 ELSE @]
      BY <2>2 DEF SchedulesRestart
    <3> DEFINE attempt == IF proc[p].code = "reconnect" THEN base + 1 ELSE proc[p].attempt
    <3>1. proc' = [proc EXCEPT ![p] = [proc[p] EXCEPT !.status = "connecting",
                                                      !.attempt = attempt]]
      BY DEF TypeOK
    <3>2. [proc[p] EXCEPT !.status = "connecting", !.attempt = attempt] \in Process
      <4>1. attempt \in Nat
        BY <1>p DEF Process, CountsFrom
      <4> HIDE DEF attempt
      <4>2. QED
        BY <1>p, <4>1 DEF Process
    <3> HIDE DEF attempt
    <3>3. [pc |-> "delay", peer |-> peer] \in ReaderState
      BY DEF ReaderState
    <3>4. reader' = [reader EXCEPT ![p] = [pc |-> "delay", peer |-> peer]]
      BY <2>2 DEF SchedulesRestart
    <3>5. UNCHANGED <<managerVars, caller, starter>>
      BY <1>3 DEF HandleExit
    <3>6. QED
      BY <3>1, <3>2, <3>3, <3>4, <3>5 DEF TypeOK, managerVars
  <2>3. CASE GivesUp(p)
    <3>1. proc' = [proc EXCEPT ![p] = [proc[p] EXCEPT !.status = "error"]]
      BY <2>3 DEF GivesUp, TypeOK
    <3>2. proc' \in [Procs -> Process]
      BY <1>p, <3>1, ProcessFollowed DEF TypeOK
    <3>3. QED
      BY <1>3, <2>3, <3>2, ReaderGo DEF HandleExit, GivesUp, Go, TypeOK, managerVars
  <2>4. StuckPeer(p) \in BOOLEAN
    BY DEF StuckPeer
  <2>5. QED
    BY <1>3, <2>1, <2>2, <2>3, <2>4 DEF HandleExit
<1>4. CASE EnterReader(p)
  BY <1>4 DEF EnterReader, Go, TypeOK, ReaderState, Threads
<1>5. CASE RestartService(p)
  <2>1. PICK q \in FreeProcs(ServiceOf(p)) :
          /\ services' = [services EXCEPT ![proc[p].worker][ServiceOf(p)] = q]
          /\ \/ /\ proc' = [proc EXCEPT ![q] = Successor(p)]
                /\ reader' = [reader EXCEPT ![q].pc = "read", ![p].pc = "kill"]
                /\ locked' = p
                /\ UNCHANGED lifecycle
             \/ /\ proc' = [proc EXCEPT ![q] = Successor(p), ![p] = Blank]
                /\ reader' = [reader EXCEPT ![q].pc = "read",
                                            ![p] = [pc |-> "done", peer |-> FALSE]]
                /\ lifecycle' = None
                /\ UNCHANGED locked
    BY <1>5 DEF RestartService
  <2>2. ServiceOf(p) \in Services /\ q \in Procs
    BY FreeProcsAreProcs DEF ServiceOf, Services
  <2>3. Successor(p) \in Process
    BY <1>p, LaunchedTyped DEF Successor, Process
  <2>4. [proc EXCEPT ![q] = Successor(p)] \in [Procs -> Process]
    BY <2>3 DEF TypeOK
  <2>5. [reader EXCEPT ![q].pc = "read"] \in [Procs -> ReaderState]
    BY ReaderGo DEF TypeOK
  <2>6. proc' \in [Procs -> Process] /\ reader' \in [Procs -> ReaderState]
    <3>1. [proc EXCEPT ![q] = Successor(p), ![p] = Blank] \in [Procs -> Process]
      BY <2>4, BlankTyped
    <3>2. [reader EXCEPT ![q].pc = "read", ![p].pc = "kill"] \in [Procs -> ReaderState]
      BY <2>5, ReaderGo
    <3>3. [reader EXCEPT ![q].pc = "read", ![p] = [pc |-> "done", peer |-> FALSE]]
            \in [Procs -> ReaderState]
      BY <2>5, ReaderEnds
    <3>4. QED
      BY <2>1, <2>4, <3>1, <3>2, <3>3
  <2>7. services' \in [Workers -> [Services -> Procs \cup {None}]]
    BY <2>1, <2>2, ServiceSet DEF TypeOK
  <2>8. QED
    BY <1>5, <2>1, <2>6, <2>7 DEF RestartService, TypeOK
<1>6. CASE SkipRestart(p)
  <2>1. [reader EXCEPT ![p].pc = "kill"] \in [Procs -> ReaderState]
    BY ReaderGo DEF TypeOK
  <2>2. proc' \in [Procs -> Process] /\ reader' \in [Procs -> ReaderState]
    BY <1>6, <2>1, BlankTyped, ReaderEnds DEF SkipRestart, ReaderDone, Go, TypeOK
  <2>3. QED
    BY <1>6, <2>2 DEF SkipRestart, TypeOK
<1>7. CASE KillPeer(p)
  <2>1. \A q \in Procs : Terminated(q) \in Process
    BY ProcessEnds DEF Terminated, TypeOK
  <2>2. \A q : q \notin Procs => [proc EXCEPT ![q] = Terminated(q)] = proc
    BY DEF TypeOK
  <2>3. proc' \in [Procs -> Process]
    BY <1>7, <2>1, <2>2 DEF KillPeer, Terminate, TypeOK
  <2>4. QED
    BY <1>7, <2>3, ReaderGo DEF KillPeer, Go, TypeOK, managerVars
<1>8. CASE RespawnPeer(p)
  <2>1. PICK q \in FreeProcs("rtsp") :
          /\ services' = [services EXCEPT ![proc[p].worker]["rtsp"] = q]
          /\ proc' = [r \in Procs |->
               IF r = q THEN Launched(proc[p].worker)
               ELSE IF r \in Replaced(p) THEN Blank ELSE proc[r]]
          /\ reader' = [reader EXCEPT ![q].pc = "read",
                                      ![p] = [pc |-> "done", peer |-> FALSE]]
    BY <1>8 DEF RespawnPeer
  <2>2. q \in Procs
    BY FreeProcsAreProcs DEF Services
  <2>3. Launched(proc[p].worker) \in Process
    BY <1>p, LaunchedTyped DEF Process
  <2>5. proc' \in [Procs -> Process]
    BY <2>1, <2>3, BlankTyped DEF TypeOK
  <2>6. [reader EXCEPT ![q].pc = "read"] \in [Procs -> ReaderState]
    BY ReaderGo DEF TypeOK
  <2>7. reader' \in [Procs -> ReaderState]
    BY <2>1, <2>6, ReaderEnds
  <2>8. services' \in [Workers -> [Services -> Procs \cup {None}]]
    BY <2>1, <2>2, ServiceSet DEF TypeOK
  <2>9. QED
    BY <1>8, <2>5, <2>7, <2>8 DEF RespawnPeer, ReleasesBoth, TypeOK
<1>9. CASE ReaderCrashes(p)
  <2>1. [pc |-> "crashed", peer |-> FALSE] \in ReaderState
    BY DEF ReaderState
  <2>2. QED
    BY <1>9, <2>1, BlankTyped, ReaderEnds DEF ReaderCrashes, ReaderDone, ReleasesBoth, TypeOK
<1>10. QED
  BY <1>1, <1>2, <1>3, <1>4, <1>5, <1>6, <1>7, <1>8, <1>9, ReaderStep(p) DEF ReaderStep

\* What a process does keeps the declared types.
LEMMA TypeProcess ==
  ASSUME TypeOK, NEW p \in Procs, ProcessStep(p)
  PROVE  TypeOK'
<1>p. proc[p] \in Process
  BY DEF TypeOK
<1>1. ASSUME NEW line \in Lines, PrintLine(p, line) PROVE TypeOK'
  <2>1. Append(proc[p].out, line) \in Seq(Lines)
    BY <1>p DEF Process
  <2>2. proc' = [proc EXCEPT ![p] = [proc[p] EXCEPT !.out = Append(proc[p].out, line)]]
    BY <1>1 DEF PrintLine, TypeOK
  <2>3. proc' \in [Procs -> Process]
    BY <1>p, <2>1, <2>2, ProcessSpeaks DEF TypeOK
  <2>4. QED
    BY <1>1, <2>3 DEF PrintLine, TypeOK, managerVars
<1>2. ASSUME NEW code \in {"reconnect", "other"}, ProcessExits(p, code) PROVE TypeOK'
  <2>1. proc' = [proc EXCEPT ![p] = [proc[p] EXCEPT !.live = FALSE, !.code = code]]
    BY <1>2 DEF ProcessExits, TypeOK
  <2>2. proc' \in [Procs -> Process]
    BY <1>p, <2>1, ProcessEnds DEF TypeOK
  <2>3. QED
    BY <1>2, <2>2 DEF ProcessExits, TypeOK, managerVars
<1>3. QED
  BY <1>1, <1>2, ProcessStep(p) DEF ProcessStep

\* Every step keeps the declared types.
LEMMA TypeStep == TypeOK /\ [Next]_vars => TypeOK'
<1>1. SUFFICES ASSUME TypeOK, [Next]_vars PROVE TypeOK'
  OBVIOUS
<1>2. CASE UNCHANGED vars
  BY <1>1, <1>2 DEF TypeOK, vars
<1>3. CASE Next
  BY <1>1, <1>3, TypeBegin, TypeCaller, TypeStarter, TypeReader, TypeProcess DEF Next
<1>4. QED
  BY <1>1, <1>2, <1>3

\* The variables of the manager, its threads and processes keep their types.
THEOREM TypeCorrect == Spec => []TypeOK
BY TypeInit, TypeStep, PTL DEF Spec

-----------------------------------------------------------------------------
(* Who holds the lifecycle lock. *)

\* Where a reader holds the lifecycle lock.
Changing == {"restart", "kill", "respawn"}

\* Threads of different kinds differ, as do the threads of one kind.
LEMMA ThreadsDiffer ==
  /\ \A c \in Callers, d \in Callers : Caller(c) = Caller(d) => c = d
  /\ \A p \in Procs, q \in Procs : Reader(p) = Reader(q) => p = q
  /\ \A w \in Workers, v \in Workers : Starter(w) = Starter(v) => w = v
  /\ \A c \in Callers : Caller(c) # None
  /\ \A w \in Workers : Starter(w) # None
  /\ \A p \in Procs : Reader(p) # None
  /\ \A c \in Callers, w \in Workers : Caller(c) # Starter(w)
  /\ \A c \in Callers, p \in Procs : Caller(c) # Reader(p)
  /\ \A w \in Workers, p \in Procs : Starter(w) # Reader(p)
BY NoneAssumption DEF Caller, Starter, Reader, Threads

\* While one thread holds the lifecycle lock, every other is outside the
\* sections under it.
LEMMA Exclusive ==
  ASSUME LockHolders, CallerPhases
  PROVE  /\ \A c \in Callers : lifecycle # Caller(c) =>
              caller[c].pc = "idle" /\ caller[c].doomed = {}
         /\ \A w \in Workers : lifecycle # Starter(w) => starter[w].pc # "spawn"
         /\ \A p \in Procs : lifecycle # Reader(p) => reader[p].pc \notin Changing
BY DEF LockHolders, CallerPhases, Changing

\* With the lifecycle lock in a reader's hands, no other thread is inside.
LEMMA ReaderAlone ==
  ASSUME LockHolders, CallerPhases, NEW p \in Procs, lifecycle = Reader(p)
  PROVE  /\ \A c \in Callers : caller[c].pc = "idle" /\ caller[c].doomed = {}
         /\ \A w \in Workers : starter[w].pc # "spawn"
         /\ \A q \in Procs : q # p => reader[q].pc \notin Changing
<1>1. \A c \in Callers : lifecycle # Caller(c)
  BY ThreadsDiffer
<1>2. \A w \in Workers : lifecycle # Starter(w)
  BY ThreadsDiffer
<1>3. \A q \in Procs : q # p => lifecycle # Reader(q)
  BY ThreadsDiffer
<1>4. QED
  BY <1>1, <1>2, <1>3, Exclusive

\* A call that holds the lock is the only thread inside.
LEMMA CallerAlone ==
  ASSUME LockHolders, CallerPhases, NEW c \in Callers, lifecycle = Caller(c)
  PROVE  /\ \A d \in Callers : d # c => caller[d].pc = "idle" /\ caller[d].doomed = {}
         /\ \A w \in Workers : starter[w].pc # "spawn"
         /\ \A p \in Procs : reader[p].pc \notin Changing
<1>1. \A d \in Callers : d # c => lifecycle # Caller(d)
  BY ThreadsDiffer
<1>2. \A w \in Workers : lifecycle # Starter(w)
  BY ThreadsDiffer
<1>3. \A p \in Procs : lifecycle # Reader(p)
  BY ThreadsDiffer
<1>4. QED
  BY <1>1, <1>2, <1>3, Exclusive

\* A process is current when it occupies its port's slot of the registered
\* worker.
LEMMA CurrentSlot ==
  ASSUME TypeOK, SlotsMatchPorts, NEW p \in Procs
  PROVE  /\ Current(p) => services[registered][ServiceOf(p)] = p
         /\ Current(p) <=> /\ registered # None
                           /\ proc[p].worker = registered
                           /\ services[registered][ServiceOf(p)] = p
BY NoneAssumption, SlotAssumption
DEF TypeOK, SlotsMatchPorts, Current, Owned, ServiceOf, Services, ProcsOf, Procs

\* The process p's peer is one of the processes.
LEMMA PeerIsProc ==
  ASSUME TypeOK, ReadersFollow, PeerPhases, NEW p \in Procs,
         reader[p].pc \in {"kill", "respawn"}
  PROVE  /\ registered \in Workers
         /\ registered = proc[p].worker
         /\ Peer(p) \in Procs
         /\ Peer(p) = services[registered]["rtsp"]
BY DEF TypeOK, ReadersFollow, PeerPhases, Peer, Services

-----------------------------------------------------------------------------
(* Every step keeps the inductive invariant. *)

\* The ONVIF session starts while no other thread is inside.
LEMMA StartOnvifKeeps ==
  ASSUME IInv, TypeOK', NEW w \in Workers, StartOnvif(w)
  PROVE  IInv'
<1>1. lifecycle = Starter(w) /\ lifecycle' = None /\ registered' = registered /\ caller' = caller
  BY DEF IInv, LockHolders, StartOnvif
<1>2. /\ \A c \in Callers : caller[c].pc = "idle" /\ caller[c].doomed = {}
      /\ \A p \in Procs : reader[p].pc \notin Changing
      /\ \A v \in Workers : starter'[v].pc # "spawn"
  <2>1. \A v \in Workers : v # w => starter[v].pc # "spawn"
    BY <1>1, Exclusive, ThreadsDiffer DEF IInv
  <2>2. \A v \in Workers : starter'[v].pc = IF v = w THEN "done" ELSE starter[v].pc
    BY DEF IInv, TypeOK, StartOnvif, StarterDone
  <2>3. \A c \in Callers : lifecycle # Caller(c)
    BY <1>1, ThreadsDiffer
  <2>4. \A p \in Procs : lifecycle # Reader(p)
    BY <1>1, ThreadsDiffer
  <2>5. QED
    BY <2>1, <2>2, <2>3, <2>4, Exclusive DEF IInv
<1>3. CallerPhases'
  BY <1>1, <1>2 DEF CallerPhases, IInv
<1>4. CASE UNCHANGED <<proc, services, reader>>
  BY <1>1, <1>2, <1>3, <1>4 DEF IInv, SlotsMatchPorts, LockHolders, ReadersFollow, PeerPhases, Changing, NoOrphan, Current, Owned, NobodyWaitsInVain
<1>5. ASSUME NEW p \in Procs,
             registered = w,
             services[w]["onvif"] = None,
             StartService(w, "onvif", p),
             reader' = [reader EXCEPT ![p].pc = "read"]
      PROVE  IInv'
  <2>1. /\ p \in OnvifProcs /\ p \notin RtspProcs
        /\ reader[p].pc = "done"
        /\ ~proc[p].live
    BY <1>5, SlotAssumption DEF StartService, FreeProcs, ProcsOf, IInv, ReadersFollow
  <2>2. /\ \A r \in Procs : r # p => proc'[r] = proc[r]
        /\ proc'[p].worker = w
    BY <1>5 DEF IInv, TypeOK, StartService, Launched, Blank
  <2>3. \A r \in Procs : reader'[r].pc = IF r = p THEN "read" ELSE reader[r].pc
    BY <1>5 DEF IInv, TypeOK
  <2>4. /\ services'[w]["onvif"] = p
        /\ services'[w]["rtsp"] = services[w]["rtsp"]
        /\ \A v \in Workers : v # w => services'[v] = services[v]
    BY <1>5 DEF IInv, TypeOK, StartService, Services
  <2>5. SlotsMatchPorts'
    BY <2>1, <2>4 DEF IInv, SlotsMatchPorts, Services, ProcsOf
  <2>6. LockHolders' /\ PeerPhases'
    BY <1>1, <1>2, <2>3 DEF LockHolders, PeerPhases, Changing
  <2>7. ReadersFollow'
    BY <1>5, <2>1, <2>2, <2>3, NoneAssumption DEF IInv, ReadersFollow
  <2>8. \A r \in Procs : r # p => (Current(r)' <=> Current(r))
    BY <1>1, <1>5, <2>2, <2>4, NoneAssumption DEF Current, Owned, Services
  <2>9. Current(p)'
    BY <1>1, <1>5, <2>2, <2>4, NoneAssumption DEF Current, Owned, Services
  <2>10. NoOrphan'
    BY <1>1, <1>2, <2>2, <2>8, <2>9 DEF IInv, NoOrphan
  <2>11. NobodyWaitsInVain'
    BY <2>2, <2>3, <2>8 DEF IInv, NobodyWaitsInVain
  <2>12. QED
    BY <1>3, <2>5, <2>6, <2>7, <2>10, <2>11 DEF IInv
<1>6. QED
  BY <1>4, <1>5 DEF StartOnvif

\* The reader of an exited process reports it, schedules the restart or ends.
LEMMA HandleExitKeeps ==
  ASSUME IInv, TypeOK', NEW p \in Procs, HandleExit(p)
  PROVE  IInv'
<1>1. /\ reader[p].pc = "exited"
      /\ ~proc[p].live
      /\ UNCHANGED <<registered, services, lifecycle, caller, starter>>
  BY DEF HandleExit, IInv, ReadersFollow, managerVars
<1>2. /\ \A q \in Procs : q # p => proc'[q] = proc[q] /\ reader'[q] = reader[q]
      /\ reader'[p].pc \in {"done", "delay"}
      /\ ~proc'[p].live
      /\ \/ Current(p) /\ proc'[p].worker = proc[p].worker
         \/ ~Current(p) /\ proc'[p].worker \in {None, proc[p].worker}
      /\ reader'[p].pc = "done" =>
           \/ ~Current(p)
           \/ proc'[p].status = "error"
      /\ reader'[p].pc # "done" => Current(p)
  <2>1. CASE ~Current(p) /\ ReaderDone(p)
    BY <1>1, <2>1 DEF ReaderDone, IInv, TypeOK, ReaderState, Blank
  <2>2. ASSUME NEW peer, Current(p), SchedulesRestart(p, peer)
        PROVE  /\ \A q \in Procs : q # p => proc'[q] = proc[q] /\ reader'[q] = reader[q]
               /\ ~proc'[p].live /\ proc'[p].worker = proc[p].worker
               /\ reader'[p].pc = "delay"
    <3> PICK base \in CountsFrom(p) :
          proc' = [proc EXCEPT ![p].status = "connecting",
                               ![p].attempt = IF proc[p].code = "reconnect" THEN base + 1 ELSE @]
      BY <2>2 DEF SchedulesRestart
    <3> QED
      BY <1>1, <2>2 DEF SchedulesRestart, IInv, TypeOK, ReaderState, Process
  <2>3. CASE Current(p) /\ GivesUp(p)
    BY <1>1, <2>3 DEF GivesUp, Go, IInv, TypeOK, ReaderState, Process
  <2>4. QED
    BY <2>1, <2>2, <2>3 DEF HandleExit
<1>4. SlotsMatchPorts' /\ CallerPhases'
  BY <1>1 DEF IInv, SlotsMatchPorts, CallerPhases
<1>5. LockHolders' /\ ReadersFollow'
  BY <1>1, <1>2 DEF IInv, LockHolders, ReadersFollow, Current
<1>6. PeerPhases'
  <2>1. ASSUME NEW q \in Procs, reader'[q].pc \in {"kill", "respawn"}
        PROVE  /\ q # p /\ reader[q].pc = reader'[q].pc
               /\ Peer(q)' = Peer(q)
               /\ Peer(q) # None => Peer(q) \in Procs
    BY <1>1, <1>2, <2>1 DEF Peer, IInv, TypeOK, ReadersFollow, PeerPhases, Services
  <2>2. \A q \in Procs : proc'[q].live => proc[q].live
    BY <1>2
  <2>3. QED
    BY <1>1, <1>2, <2>1, <2>2 DEF IInv, PeerPhases, Owned
<1>7. NoOrphan'
  BY <1>1, <1>2 DEF IInv, NoOrphan, Current, Owned
<1>8. NobodyWaitsInVain'
  BY <1>1, <1>2 DEF IInv, NobodyWaitsInVain, Current, Owned
<1>9. QED
  BY <1>4, <1>5, <1>6, <1>7, <1>8 DEF IInv

\* A restart replaces a process that has ended by one in the same slot.
LEMMA RestartServiceKeeps ==
  ASSUME IInv, TypeOK', NEW p \in Procs, RestartService(p)
  PROVE  IInv'
<1> DEFINE s == ServiceOf(p)
<1>1. /\ reader[p].pc = "restart"
      /\ Current(p)
      /\ registered \in Workers /\ registered = proc[p].worker
      /\ ~proc[p].live
      /\ lifecycle = Reader(p)
      /\ UNCHANGED <<registered, caller, starter>>
  BY DEF RestartService, IInv, TypeOK, LockHolders, ReadersFollow, Current
<1>2. /\ \A c \in Callers : caller[c].pc = "idle" /\ caller[c].doomed = {}
      /\ \A w \in Workers : starter[w].pc # "spawn"
      /\ \A q \in Procs : q # p => reader[q].pc \notin Changing
  BY <1>1, ReaderAlone DEF IInv
<1>3. s \in Services /\ p \in ProcsOf(s) /\ services[registered][s] = p
  BY <1>1, CurrentSlot DEF IInv, ServiceOf, Services, ProcsOf, Procs
<1>4. PICK q \in FreeProcs(s) :
        /\ services' = [services EXCEPT ![registered][s] = q]
        /\ \/ /\ WantsPeer(p)
              /\ proc' = [proc EXCEPT ![q] = Successor(p)]
              /\ reader' = [reader EXCEPT ![q].pc = "read", ![p].pc = "kill"]
              /\ UNCHANGED lifecycle
           \/ /\ proc' = [proc EXCEPT ![q] = Successor(p), ![p] = Blank]
              /\ reader' = [reader EXCEPT ![q].pc = "read",
                                          ![p] = [pc |-> "done", peer |-> FALSE]]
              /\ lifecycle' = None
  BY <1>1 DEF RestartService
<1>5. /\ q \in ProcsOf(s) /\ q \in Procs
      /\ reader[q].pc = "done"
      /\ q # p
      /\ ~proc[q].live
  BY <1>1, <1>3, FreeProcsAreProcs DEF FreeProcs, IInv, ReadersFollow
<1>6. /\ \A r \in Procs \ {p, q} : proc'[r] = proc[r] /\ reader'[r] = reader[r]
      /\ proc'[q].worker = registered
      /\ reader'[q].pc = "read"
      /\ ~proc'[p].live
      /\ \/ /\ WantsPeer(p)
            /\ reader'[p].pc = "kill" /\ proc'[p].worker = proc[p].worker
            /\ lifecycle' = lifecycle
         \/ reader'[p].pc = "done" /\ proc'[p].worker = None /\ lifecycle' = None
  <2>1. Successor(p).worker = registered
    BY <1>1 DEF Successor, Launched, Blank
  <2>2. Blank.worker = None /\ ~Blank.live
    BY DEF Blank
  <2>3. QED
    BY <1>1, <1>4, <1>5, <2>1, <2>2 DEF IInv, TypeOK, ReaderState
<1>7. /\ services'[registered][s] = q
      /\ \A x \in Services : x # s => services'[registered][x] = services[registered][x]
      /\ \A w \in Workers : w # registered => services'[w] = services[w]
  BY <1>1, <1>3, <1>4 DEF IInv, TypeOK
<1>8. SlotsMatchPorts'
  BY <1>5, <1>7 DEF IInv, SlotsMatchPorts
<1>9. LockHolders' /\ CallerPhases'
  BY <1>1, <1>2, <1>6 DEF LockHolders, CallerPhases, Changing
<1>10. ReadersFollow'
  BY <1>1, <1>5, <1>6, NoneAssumption DEF IInv, ReadersFollow
<1>11. p \notin Owned(registered)'
  BY <1>3, <1>5, <1>7, <1>8, <1>1, SlotAssumption, NoneAssumption
  DEF Owned, SlotsMatchPorts, ProcsOf, Services, IInv, Procs
<1>12. PeerPhases'
  <2>1. \A r \in Procs : reader'[r].pc \in {"kill", "respawn"} =>
          r = p /\ reader'[p].pc = "kill" /\ WantsPeer(p) /\ proc'[p].worker = registered
    BY <1>1, <1>2, <1>6 DEF Changing
  <2>2. WantsPeer(p) => services'[registered]["rtsp"] # None
    BY <1>1, <1>5, <1>7, NoneAssumption DEF WantsPeer, Services
  <2>3. QED
    BY <1>1, <1>11, <2>1, <2>2 DEF PeerPhases, Peer
<1>13. \A r \in Procs \ {p, q} : Current(r)' <=> Current(r)
  BY <1>1, <1>3, <1>5, <1>6, <1>7 DEF Current, Owned
<1>14. Current(q)' /\ ~Current(p)'
  BY <1>1, <1>3, <1>5, <1>6, <1>7, <1>11, NoneAssumption DEF Current, Owned
<1>15. NoOrphan'
  BY <1>1, <1>2, <1>6, <1>13, <1>14 DEF IInv, NoOrphan
<1>16. NobodyWaitsInVain'
  BY <1>6, <1>13, <1>14 DEF IInv, NobodyWaitsInVain
<1>17. QED
  BY <1>8, <1>9, <1>10, <1>12, <1>15, <1>16 DEF IInv

\* A restart that comes too late changes no slot.
LEMMA SkipRestartKeeps ==
  ASSUME IInv, TypeOK', NEW p \in Procs, SkipRestart(p)
  PROVE  IInv'
<1>1. /\ reader[p].pc = "restart"
      /\ ~Current(p)
      /\ ~proc[p].live
      /\ proc[p].worker # None
      /\ lifecycle = Reader(p)
      /\ UNCHANGED <<registered, services, caller, starter>>
  BY DEF SkipRestart, IInv, LockHolders, ReadersFollow
<1>2. /\ \A c \in Callers : caller[c].pc = "idle" /\ caller[c].doomed = {}
      /\ \A w \in Workers : starter[w].pc # "spawn"
      /\ \A q \in Procs : q # p => reader[q].pc \notin Changing
  BY <1>1, ReaderAlone DEF IInv
<1>3. /\ \A r \in Procs : r # p => proc'[r] = proc[r] /\ reader'[r] = reader[r]
      /\ ~proc'[p].live
      /\ \/ /\ WantsPeer(p)
            /\ reader'[p].pc = "kill" /\ proc'[p].worker = proc[p].worker
            /\ lifecycle' = lifecycle
         \/ /\ reader'[p].pc = "done" /\ proc'[p].worker \in {None, proc[p].worker}
            /\ lifecycle' = None
  BY <1>1 DEF SkipRestart, ReaderDone, Go, Blank, IInv, TypeOK, ReaderState
<1>4. SlotsMatchPorts' /\ CallerPhases'
  BY <1>1 DEF IInv, SlotsMatchPorts, CallerPhases
<1>5. LockHolders' /\ ReadersFollow'
  BY <1>1, <1>2, <1>3 DEF IInv, LockHolders, ReadersFollow, Changing
<1>6. PeerPhases'
  <2>1. \A r \in Procs : reader'[r].pc \in {"kill", "respawn"} =>
          r = p /\ reader'[p].pc = "kill" /\ WantsPeer(p) /\ proc'[p].worker = proc[p].worker
    BY <1>1, <1>2, <1>3 DEF Changing
  <2>2. QED
    BY <1>1, <2>1 DEF PeerPhases, Peer, WantsPeer, Current, Owned
<1>7. NoOrphan'
  BY <1>1, <1>2, <1>3 DEF IInv, NoOrphan, Current, Owned
<1>8. NobodyWaitsInVain'
  <2>1. ~Current(p)'
    BY <1>1, <1>3 DEF Current, Owned
  <2>2. QED
    BY <1>1, <1>3, <2>1 DEF IInv, NobodyWaitsInVain, Current, Owned
<1>9. QED
  BY <1>4, <1>5, <1>6, <1>7, <1>8 DEF IInv

\* The RTSP peer is terminated before it is replaced.
LEMMA KillPeerKeeps ==
  ASSUME IInv, TypeOK', NEW p \in Procs, KillPeer(p)
  PROVE  IInv'
<1> DEFINE q == Peer(p)
<1>1. /\ reader[p].pc = "kill"
      /\ lifecycle = Reader(p)
      /\ UNCHANGED <<registered, services, lifecycle, caller, starter>>
  BY DEF KillPeer, IInv, LockHolders, managerVars
<1>2. q \in Procs /\ registered \in Workers /\ registered = proc[p].worker
  BY <1>1, PeerIsProc DEF IInv
<1>3. /\ \A r \in Procs : /\ proc'[r].worker = proc[r].worker
                          /\ proc'[r].status = proc[r].status
                          /\ proc'[r].live => proc[r].live /\ r # q
      /\ \A r \in Procs : reader'[r].pc = IF r = p THEN "respawn" ELSE reader[r].pc
      /\ ~proc'[q].live
  BY <1>2 DEF KillPeer, Terminate, Terminated, Go, IInv, TypeOK, Process, ReaderState
<1>4. \A r \in Procs : r # p => reader[r].pc \notin Changing
  BY <1>1, ReaderAlone DEF IInv
<1>5. SlotsMatchPorts' /\ CallerPhases'
  BY <1>1 DEF IInv, SlotsMatchPorts, CallerPhases
<1>6. LockHolders'
  BY <1>1, <1>3 DEF IInv, LockHolders
<1>7. ReadersFollow'
  BY <1>1, <1>3 DEF IInv, ReadersFollow
<1>8. PeerPhases'
  <2>1. \A r \in Procs : reader'[r].pc \in {"kill", "respawn"} => r = p
    BY <1>3, <1>4 DEF Changing
  <2>2. Peer(p)' = q
    BY <1>1, <1>3 DEF Peer
  <2>3. QED
    BY <1>1, <1>2, <1>3, <2>1, <2>2 DEF IInv, PeerPhases, Owned
<1>9. NoOrphan' /\ NobodyWaitsInVain'
  BY <1>1, <1>3 DEF IInv, NoOrphan, NobodyWaitsInVain, Current, Owned
<1>10. QED
  BY <1>5, <1>6, <1>7, <1>8, <1>9 DEF IInv

\* The terminated peer is replaced in its slot.
LEMMA RespawnPeerKeeps ==
  ASSUME IInv, TypeOK', NEW p \in Procs, RespawnPeer(p)
  PROVE  IInv'
<1>1. /\ reader[p].pc = "respawn"
      /\ ~proc[p].live
      /\ lifecycle = Reader(p)
      /\ lifecycle' = None
      /\ UNCHANGED <<registered, caller, starter>>
  BY DEF RespawnPeer, ReleasesBoth, IInv, LockHolders, ReadersFollow
<1>2. PICK peer \in Procs :
        /\ peer = Peer(p)
        /\ registered \in Workers /\ registered = proc[p].worker
        /\ peer = services[registered]["rtsp"]
        /\ ~proc[peer].live
        /\ p \notin Owned(registered)
  BY <1>1, PeerIsProc DEF IInv, PeerPhases
<1>3. /\ \A c \in Callers : caller[c].pc = "idle" /\ caller[c].doomed = {}
      /\ \A w \in Workers : starter[w].pc # "spawn"
      /\ \A q \in Procs : q # p => reader[q].pc \notin Changing
  BY <1>1, ReaderAlone DEF IInv
<1>4. PICK q \in FreeProcs("rtsp") :
        /\ services' = [services EXCEPT ![registered]["rtsp"] = q]
        /\ proc' = [r \in Procs |->
             IF r = q THEN Launched(registered)
             ELSE IF r \in Replaced(p) THEN Blank ELSE proc[r]]
        /\ reader' = [reader EXCEPT ![q].pc = "read",
                                    ![p] = [pc |-> "done", peer |-> FALSE]]
  BY <1>2 DEF RespawnPeer
<1>5. /\ q \in RtspProcs /\ q \in Procs
      /\ reader[q].pc = "done"
      /\ q # p /\ q # peer /\ p # peer
  BY <1>1, <1>2, FreeProcsAreProcs DEF FreeProcs, ProcsOf, Services, Owned
<1>6. /\ \A r \in Procs : r # q => reader'[r].pc = IF r = p THEN "done" ELSE reader[r].pc
      /\ reader'[q].pc = "read"
  BY <1>4, <1>5 DEF IInv, TypeOK, ReaderState
<1>7. /\ proc'[q].worker = registered
      /\ ~proc'[p].live /\ proc'[p].worker = None
      /\ \A r \in Procs \ {p, q, peer} : proc'[r] = proc[r]
      /\ \/ proc'[peer] = proc[peer]
         \/ /\ reader[peer].pc = "done"
            /\ ~proc'[peer].live
  <2>1. Launched(registered).worker = registered
    BY DEF Launched, Blank
  <2>2. Blank.worker = None /\ ~Blank.live
    BY DEF Blank
  <2>3. Replaced(p) = {p} \cup {r \in {peer} : reader[r].pc = "done"}
    BY <1>2 DEF Replaced
  <2>4. QED
    BY <1>2, <1>4, <1>5, <2>1, <2>2, <2>3
<1>8. /\ services'[registered]["rtsp"] = q
      /\ services'[registered]["onvif"] = services[registered]["onvif"]
      /\ \A w \in Workers : w # registered => services'[w] = services[w]
  BY <1>2, <1>4 DEF IInv, TypeOK, Services
<1>9. SlotsMatchPorts'
  BY <1>5, <1>8 DEF IInv, SlotsMatchPorts, Services, ProcsOf
<1>10. LockHolders' /\ CallerPhases' /\ PeerPhases'
  BY <1>1, <1>3, <1>6 DEF LockHolders, CallerPhases, PeerPhases, Changing
<1>11. ReadersFollow'
  BY <1>1, <1>2, <1>5, <1>6, <1>7, NoneAssumption DEF IInv, ReadersFollow
<1>12. /\ Current(q)' /\ ~Current(p)'
       /\ ~Current(peer)'
       /\ \A r \in Procs \ {p, q, peer} : Current(r)' <=> Current(r)
  <2>1. peer # services[registered]["onvif"]
    BY <1>2, SlotAssumption, NoneAssumption DEF IInv, SlotsMatchPorts, ProcsOf, Services, Procs
  <2>2. Current(q)' /\ ~Current(p)'
    BY <1>1, <1>2, <1>5, <1>7, <1>8, NoneAssumption DEF Current, Owned, Services
  <2>3. ~Current(peer)'
    BY <1>1, <1>2, <1>5, <1>8, <2>1 DEF Current, Owned, Services
  <2>4. ASSUME NEW r \in Procs \ {p, q, peer} PROVE Current(r)' <=> Current(r)
    BY <1>1, <1>2, <1>7, <1>8 DEF Current, Owned, Services
  <2>5. QED
    BY <2>2, <2>3, <2>4
<1>13. NoOrphan'
  BY <1>1, <1>2, <1>3, <1>7, <1>12 DEF IInv, NoOrphan
<1>14. NobodyWaitsInVain'
  BY <1>6, <1>7, <1>12 DEF IInv, NobodyWaitsInVain
<1>15. QED
  BY <1>9, <1>10, <1>11, <1>13, <1>14 DEF IInv

\* A failed Popen ends the reader and frees its locks.
LEMMA ReaderCrashesKeeps ==
  ASSUME IInv, TypeOK', NEW p \in Procs, ReaderCrashes(p)
  PROVE  IInv'
<1>1. /\ reader[p].pc \in {"restart", "respawn"}
      /\ ~proc[p].live
      /\ lifecycle = Reader(p)
      /\ lifecycle' = None
      /\ UNCHANGED <<registered, services, caller, starter>>
  BY DEF ReaderCrashes, ReleasesBoth, IInv, LockHolders, ReadersFollow
<1>2. /\ \A c \in Callers : caller[c].pc = "idle" /\ caller[c].doomed = {}
      /\ \A w \in Workers : starter[w].pc # "spawn"
      /\ \A q \in Procs : q # p => reader[q].pc \notin Changing
  BY <1>1, ReaderAlone DEF IInv
<1>3. /\ \A r \in Procs : r # p => proc'[r] = proc[r] /\ reader'[r] = reader[r]
      /\ ~proc'[p].live
      /\ \/ reader'[p].pc = "crashed" /\ proc'[p].worker = proc[p].worker
         \/ /\ reader[p].pc = "respawn" /\ reader'[p].pc = "done"
            /\ proc'[p].worker \in {None, proc[p].worker}
  BY <1>1 DEF ReaderCrashes, ReaderDone, Blank, IInv, TypeOK, ReaderState
<1>4. SlotsMatchPorts' /\ CallerPhases' /\ LockHolders' /\ PeerPhases'
  BY <1>1, <1>2, <1>3
  DEF IInv, SlotsMatchPorts, CallerPhases, LockHolders, PeerPhases, Changing
<1>5. ReadersFollow'
  BY <1>1, <1>3 DEF IInv, ReadersFollow
<1>6. NoOrphan'
  BY <1>1, <1>2, <1>3 DEF IInv, NoOrphan, Current, Owned
<1>7. NobodyWaitsInVain'
  BY <1>1, <1>3 DEF IInv, NobodyWaitsInVain, PeerPhases, Current, Owned
<1>8. QED
  BY <1>4, <1>5, <1>6, <1>7 DEF IInv

\* A starter thread looks and waits outside the lifecycle lock.
LEMMA StarterWaitsKeeps ==
  ASSUME IInv, TypeOK', NEW w \in Workers,
         LookAtRtsp(w) \/ WaitForRtsp(w) \/ GiveUpWaiting(w)
  PROVE  IInv'
<1>1. /\ UNCHANGED <<registered, services, lifecycle, proc, caller, reader>>
      /\ \A v \in Workers : starter'[v].pc = "spawn" => starter[v].pc = "spawn"
  <2>1. CASE LookAtRtsp(w)
    BY <2>1 DEF LookAtRtsp, StarterDone, managerVars, IInv, TypeOK, StarterState
  <2>2. CASE WaitForRtsp(w)
    BY <2>2 DEF WaitForRtsp, managerVars, IInv, TypeOK, StarterState
  <2>3. CASE GiveUpWaiting(w)
    BY <2>3 DEF GiveUpWaiting, Go, managerVars, IInv, TypeOK, StarterState
  <2>4. QED
    BY <2>1, <2>2, <2>3
<1>2. QED
  BY <1>1
  DEF IInv, SlotsMatchPorts, LockHolders, CallerPhases, ReadersFollow, PeerPhases, Peer,
      NoOrphan, NobodyWaitsInVain, Current, Owned

\* A process runs, speaks and ends; its reader follows.
LEMMA FollowKeeps ==
  ASSUME IInv, TypeOK', NEW p \in Procs,
         \/ ReadLine(p)
         \/ EndOfOutput(p)
         \/ \E line \in Lines : PrintLine(p, line)
         \/ \E code \in {"reconnect", "other"} : ProcessExits(p, code)
  PROVE  IInv'
<1>1. /\ UNCHANGED <<registered, services, lifecycle, caller, starter>>
      /\ \A q \in Procs : /\ proc'[q].worker = proc[q].worker
                          /\ proc'[q].live => proc[q].live
      /\ \A q \in Procs :
           \/ reader'[q].pc = reader[q].pc
           \/ /\ reader[q].pc = "read" /\ reader'[q].pc = "exited"
              /\ ~proc'[q].live
      /\ \A q \in Procs : reader[q].pc = "done" => proc'[q].status = proc[q].status
  <2>1. CASE ReadLine(p)
    BY <2>1 DEF ReadLine, managerVars, IInv, TypeOK, Process
  <2>2. CASE EndOfOutput(p)
    BY <2>2 DEF EndOfOutput, Go, managerVars, IInv, TypeOK, Process, ReaderState
  <2>3. ASSUME NEW line \in Lines, PrintLine(p, line)
        PROVE  /\ UNCHANGED <<registered, services, lifecycle, caller, starter, reader>>
               /\ \A q \in Procs : /\ proc'[q].worker = proc[q].worker
                                   /\ proc'[q].live = proc[q].live
                                   /\ proc'[q].status = proc[q].status
    BY <2>3 DEF PrintLine, managerVars, IInv, TypeOK, Process
  <2>4. ASSUME NEW code \in {"reconnect", "other"}, ProcessExits(p, code)
        PROVE  /\ UNCHANGED <<registered, services, lifecycle, caller, starter, reader>>
               /\ \A q \in Procs : /\ proc'[q].worker = proc[q].worker
                                   /\ proc'[q].live => proc[q].live
                                   /\ proc'[q].status = proc[q].status
    BY <2>4 DEF ProcessExits, managerVars, IInv, TypeOK, Process
  <2>5. QED
    BY <2>1, <2>2, <2>3, <2>4
<1>2. SlotsMatchPorts' /\ CallerPhases'
  BY <1>1 DEF IInv, SlotsMatchPorts, CallerPhases
<1>3. LockHolders' /\ ReadersFollow'
  BY <1>1 DEF IInv, LockHolders, ReadersFollow
<1>4. PeerPhases'
  <2>1. ASSUME NEW q \in Procs, reader'[q].pc \in {"kill", "respawn"}
        PROVE  /\ reader[q].pc = reader'[q].pc
               /\ Peer(q)' = Peer(q) /\ Peer(q) \in Procs
    BY <1>1, <2>1, PeerIsProc DEF Peer, IInv
  <2>2. QED
    BY <1>1, <2>1 DEF IInv, PeerPhases, Owned
<1>5. NoOrphan'
  BY <1>1 DEF IInv, NoOrphan, Current, Owned
<1>6. NobodyWaitsInVain'
  BY <1>1 DEF IInv, NobodyWaitsInVain, Current, Owned
<1>7. QED
  BY <1>2, <1>3, <1>4, <1>5, <1>6 DEF IInv

\* Taking the free lifecycle lock.
LEMMA EnterKeeps ==
  ASSUME IInv, TypeOK',
         \/ \E c \in Callers, op \in {"start", "stop"} : BeginCall(c, op)
         \/ \E w \in Workers : EnterStarter(w)
         \/ \E p \in Procs : EnterReader(p)
  PROVE  IInv'
<1>1. lifecycle = None /\ UNCHANGED <<registered, services, proc>>
  BY DEF BeginCall, EnterStarter, EnterReader
<1>2. /\ \A c \in Callers : caller[c].pc = "idle" /\ caller[c].doomed = {}
      /\ \A w \in Workers : starter[w].pc # "spawn"
      /\ \A p \in Procs : reader[p].pc \notin Changing
  BY <1>1, Exclusive, ThreadsDiffer DEF IInv
<1> DEFINE Entered ==
             /\ \A c \in Callers : caller'[c].doomed = {} /\ caller'[c].pc \in {"idle", "pop"}
             /\ \A c \in Callers : caller'[c].pc # "idle" => lifecycle' = Caller(c)
             /\ \A w \in Workers : starter'[w].pc = "spawn" => lifecycle' = Starter(w)
             /\ \A p \in Procs : reader'[p].pc \in Changing => lifecycle' = Reader(p)
             /\ \A p \in Procs : \/ reader'[p].pc = reader[p].pc
                                 \/ reader[p].pc = "delay" /\ reader'[p].pc = "restart"
<1>3. ASSUME NEW c \in Callers, NEW op \in {"start", "stop"}, BeginCall(c, op)
      PROVE  Entered
  <2>1. /\ \A d \in Callers : d # c => caller'[d] = caller[d]
        /\ caller'[c].pc = "pop" /\ caller'[c].doomed = caller[c].doomed
    BY <1>3 DEF BeginCall, IInv, TypeOK, CallerState
  <2>2. lifecycle' = Caller(c) /\ starter' = starter /\ reader' = reader
    BY <1>3 DEF BeginCall
  <2>3. QED
    BY <1>2, <2>1, <2>2
<1>4. ASSUME NEW w \in Workers, EnterStarter(w)
      PROVE  Entered
  <2>1. \A v \in Workers : v # w => starter'[v] = starter[v]
    BY <1>4 DEF EnterStarter, Go, IInv, TypeOK
  <2>2. lifecycle' = Starter(w) /\ caller' = caller /\ reader' = reader
    BY <1>4 DEF EnterStarter
  <2>3. QED
    BY <1>2, <2>1, <2>2
<1>5. ASSUME NEW p \in Procs, EnterReader(p)
      PROVE  Entered
  <2>1. /\ \A q \in Procs : q # p => reader'[q] = reader[q]
        /\ reader[p].pc = "delay" /\ reader'[p].pc = "restart"
    BY <1>5 DEF EnterReader, Go, IInv, TypeOK, ReaderState
  <2>2. lifecycle' = Reader(p) /\ caller' = caller /\ starter' = starter
    BY <1>5 DEF EnterReader
  <2>3. QED
    BY <1>2, <2>1, <2>2
<1>6. Entered
  BY <1>3, <1>4, <1>5
<1> HIDE DEF Entered
<1>7. SlotsMatchPorts' /\ CallerPhases'
  BY <1>1, <1>6 DEF IInv, SlotsMatchPorts, CallerPhases, Entered
<1>8. LockHolders'
  BY <1>6 DEF LockHolders, Entered, Changing
<1>9. ReadersFollow'
  BY <1>1, <1>6 DEF IInv, ReadersFollow, Entered
<1>10. PeerPhases'
  BY <1>1, <1>2, <1>6 DEF PeerPhases, Entered, Changing
<1>11. NoOrphan'
  BY <1>1, <1>2, <1>6 DEF IInv, NoOrphan, Current, Owned
<1>12. NobodyWaitsInVain'
  BY <1>1, <1>6 DEF IInv, NobodyWaitsInVain, Current, Owned, Entered
<1>13. QED
  BY <1>7, <1>8, <1>9, <1>10, <1>11, <1>12 DEF IInv

\* The worker is taken out of the table and its processes are doomed.
LEMMA PopWorkerKeeps ==
  ASSUME IInv, TypeOK', NEW c \in Callers, PopWorker(c)
  PROVE  IInv'
<1>1. /\ caller[c].pc = "pop" /\ caller[c].doomed = {}
      /\ lifecycle = Caller(c)
      /\ registered' = None
      /\ UNCHANGED <<lifecycle, starter>>
  BY DEF PopWorker, IInv, LockHolders, CallerPhases
<1>2. /\ \A d \in Callers : d # c => caller[d].pc = "idle" /\ caller[d].doomed = {}
      /\ \A w \in Workers : starter[w].pc # "spawn"
      /\ \A p \in Procs : reader[p].pc \notin Changing
  BY <1>1, CallerAlone DEF IInv
<1>3. /\ \A d \in Callers : d # c => caller'[d] = caller[d]
      /\ caller'[c].pc = "terminate"
      /\ caller'[c].doomed = IF registered = None THEN {} ELSE Owned(registered)
  BY DEF PopWorker, IInv, TypeOK, CallerState
<1>4. ASSUME NEW p \in Procs
      PROVE  /\ \/ proc'[p] = proc[p]
                \/ /\ proc'[p] = Blank
                   /\ reader[p].pc \in {"done", "crashed"} /\ reader'[p].pc = "done"
             /\ reader'[p].pc = reader[p].pc \/ reader'[p].pc = "done"
             /\ proc[p].live => proc'[p] = proc[p] /\ reader'[p] = reader[p]
  <2> DEFINE dropped == registered # None /\ p \in Owned(registered)
  <2>1. proc'[p] = IF dropped /\ reader[p].pc \in {"done", "crashed"}
                   THEN Blank ELSE proc[p]
    BY DEF PopWorker
  <2>2. reader'[p] = IF dropped /\ reader[p].pc = "crashed"
                     THEN [pc |-> "done", peer |-> FALSE] ELSE reader[p]
    BY DEF PopWorker
  <2>3. proc[p].live => reader[p].pc = "read"
    BY DEF IInv, ReadersFollow
  <2> HIDE DEF dropped
  <2>4. QED
    BY <2>1, <2>2, <2>3
<1>5. \A w \in Workers : services'[w] = services[w] \/ services'[w] = NoServices
  BY DEF PopWorker
<1>6. SlotsMatchPorts'
  BY <1>5 DEF IInv, SlotsMatchPorts, NoServices
<1>7. LockHolders' /\ PeerPhases'
  BY <1>1, <1>2, <1>3, <1>4 DEF LockHolders, PeerPhases, Changing
<1>8. \A s \in Services : \A p, q \in Owned(registered) \cap ProcsOf(s) :
        registered # None => p = q
  <2>1. ASSUME NEW s \in Services, NEW p \in Owned(registered) \cap ProcsOf(s),
               registered # None
        PROVE  p = services[registered][s]
    <3>1. PICK x \in Services : services[registered][x] = p
      BY <2>1 DEF Owned
    <3>2. p \in ProcsOf(x) /\ p \in ProcsOf(s)
      BY <2>1, <3>1, NoneAssumption DEF IInv, TypeOK, SlotsMatchPorts, Owned
    <3>3. x = s
      BY <3>2, SlotAssumption DEF ProcsOf, Services
    <3>4. QED
      BY <3>1, <3>3
  <2>2. QED
    BY <2>1
<1>9. CallerPhases'
  BY <1>1, <1>2, <1>3, <1>8 DEF CallerPhases
<1>10. ReadersFollow'
  <2>1. ~Blank.live
    BY DEF Blank
  <2>2. QED
    BY <1>4, <2>1 DEF IInv, ReadersFollow
<1>11. NoOrphan'
  <2>1. ~Blank.live
    BY DEF Blank
  <2>2. ASSUME NEW p \in Procs, proc[p].live PROVE registered # None /\ p \in Owned(registered)
    BY <1>1, <1>2, <2>2, ThreadsDiffer DEF IInv, NoOrphan, Current
  <2>3. QED
    BY <1>1, <1>3, <1>4, <2>1, <2>2 DEF NoOrphan
<1>12. NobodyWaitsInVain'
  BY <1>1 DEF NobodyWaitsInVain, Current
<1>13. QED
  BY <1>6, <1>7, <1>9, <1>10, <1>11, <1>12 DEF IInv

\* A doomed process is terminated.
LEMMA TerminateKeeps ==
  ASSUME IInv, TypeOK', NEW c \in Callers, NEW p \in Procs, TerminateNext(c, p)
  PROVE  IInv'
<1>1. /\ caller[c].pc = "terminate"
      /\ lifecycle = Caller(c)
      /\ UNCHANGED <<registered, services, lifecycle, starter, reader>>
  BY DEF TerminateNext, managerVars, IInv, LockHolders
<1>2. /\ \A d \in Callers : caller'[d].pc = caller[d].pc
      /\ \A d \in Callers : caller'[d].doomed =
           IF d = c THEN caller[d].doomed \ {p} ELSE caller[d].doomed
  BY DEF TerminateNext, IInv, TypeOK, CallerState
<1>3. \A q \in Procs : /\ proc'[q].worker = proc[q].worker
                       /\ proc'[q].status = proc[q].status
                       /\ proc'[q].live => proc[q].live /\ q # p
  BY DEF TerminateNext, Terminate, Terminated, IInv, TypeOK, Process
<1>4. \A q \in Procs : reader[q].pc \notin Changing
  BY <1>1, CallerAlone DEF IInv
<1>5. SlotsMatchPorts' /\ LockHolders'
  BY <1>1, <1>2 DEF IInv, SlotsMatchPorts, LockHolders
<1>10. CallerPhases'
  <2>1. \A d \in Callers : caller'[d].doomed \subseteq caller[d].doomed
    BY <1>2
  <2>2. \A d \in Callers : caller'[d].pc # "terminate" => caller'[d].doomed = {}
    BY <1>1, <1>2 DEF IInv, CallerPhases
  <2>3. QED
    BY <1>1, <1>2, <2>1, <2>2 DEF IInv, CallerPhases
<1>6. ReadersFollow' /\ PeerPhases'
  BY <1>1, <1>3, <1>4 DEF IInv, ReadersFollow, PeerPhases, Changing
<1>7. NoOrphan'
  BY <1>1, <1>2, <1>3 DEF IInv, NoOrphan, Current, Owned
<1>8. NobodyWaitsInVain'
  BY <1>1, <1>3 DEF IInv, NobodyWaitsInVain, Current, Owned
<1>11. QED
  BY <1>5, <1>6, <1>7, <1>8, <1>10 DEF IInv

\* A call returns, fails or goes on, with no process left to terminate.
LEMMA CallerMovesKeeps ==
  ASSUME IInv, TypeOK', NEW c \in Callers, AllTerminated(c) \/ CallRaises(c)
  PROVE  IInv'
<1>1. /\ caller[c].pc \in {"terminate", "register", "spawn"}
      /\ caller[c].doomed = {}
      /\ lifecycle = Caller(c)
      /\ UNCHANGED <<registered, services, proc, starter, reader>>
  BY DEF AllTerminated, CallRaises, IInv, LockHolders, CallerPhases
<1>2. /\ \A d \in Callers : d # c => caller'[d] = caller[d]
      /\ caller'[c].doomed = {}
      /\ \/ caller'[c].pc = "idle" /\ lifecycle' = None
         \/ /\ caller'[c].pc = "register" /\ lifecycle' = lifecycle
            /\ caller[c].pc = "terminate"
  <2>1. CASE AllTerminated(c)
    <3>1. CASE caller[c].op = "stop"
      BY <1>1, <2>1, <3>1 DEF AllTerminated, Go, IInv, TypeOK, CallerState
    <3>2. CASE caller[c].op # "stop"
      BY <1>1, <2>1, <3>2 DEF AllTerminated, Go, IInv, TypeOK, CallerState
    <3>3. QED
      BY <3>1, <3>2
  <2>2. CASE CallRaises(c)
    BY <1>1, <2>2 DEF CallRaises, Go, IInv, TypeOK, CallerState
  <2>3. QED
    BY <2>1, <2>2
<1>3. /\ \A d \in Callers : d # c => caller[d].pc = "idle" /\ caller[d].doomed = {}
      /\ \A w \in Workers : starter[w].pc # "spawn"
      /\ \A p \in Procs : reader[p].pc \notin Changing
  BY <1>1, CallerAlone DEF IInv
<1>4. SlotsMatchPorts' /\ ReadersFollow' /\ PeerPhases'
  BY <1>1, <1>3
  DEF IInv, SlotsMatchPorts, ReadersFollow, PeerPhases, Changing
<1>5. LockHolders' /\ CallerPhases'
  BY <1>1, <1>2, <1>3 DEF IInv, LockHolders, CallerPhases, Changing
<1>6. NoOrphan'
  BY <1>1, <1>2, <1>3, ThreadsDiffer DEF IInv, NoOrphan, Current, Owned
<1>7. NobodyWaitsInVain'
  BY <1>1 DEF IInv, NobodyWaitsInVain, Current, Owned
<1>8. QED
  BY <1>4, <1>5, <1>6, <1>7 DEF IInv

\* The new worker is registered when nothing runs.
LEMMA RegisterWorkerKeeps ==
  ASSUME IInv, TypeOK', NEW c \in Callers, RegisterWorker(c)
  PROVE  IInv'
<1>1. /\ caller[c].pc = "register" /\ caller[c].doomed = {}
      /\ lifecycle = Caller(c)
      /\ registered = None
      /\ UNCHANGED <<lifecycle, proc, starter, reader>>
  BY DEF RegisterWorker, IInv, LockHolders, CallerPhases
<1>2. PICK w \in Workers :
        /\ \A p \in Procs : proc[p].worker # w
        /\ registered' = w
        /\ services' = [services EXCEPT ![w] = NoServices]
  BY DEF RegisterWorker, FreeWorkers
<1>3. /\ \A d \in Callers : d # c => caller'[d] = caller[d]
      /\ caller'[c].pc = "spawn" /\ caller'[c].doomed = {}
  BY <1>1 DEF RegisterWorker, Go, IInv, TypeOK, CallerState
<1>4. /\ \A d \in Callers : d # c => caller[d].pc = "idle" /\ caller[d].doomed = {}
      /\ \A p \in Procs : reader[p].pc \notin Changing
  BY <1>1, CallerAlone DEF IInv
<1>5. /\ services'[w] = NoServices
      /\ \A v \in Workers : v # w => services'[v] = services[v]
  BY <1>2 DEF IInv, TypeOK
<1>6. SlotsMatchPorts'
  BY <1>5 DEF IInv, SlotsMatchPorts, NoServices
<1>7. LockHolders' /\ CallerPhases'
  BY <1>1, <1>2, <1>3, <1>4, <1>5, NoneAssumption DEF IInv, LockHolders, CallerPhases
<1>8. ReadersFollow' /\ PeerPhases'
  BY <1>1, <1>4 DEF IInv, ReadersFollow, PeerPhases, Changing
<1>9. \A p \in Procs : ~proc[p].live
  BY <1>1, <1>4, ThreadsDiffer DEF IInv, NoOrphan, Current
<1>10. NoOrphan'
  BY <1>1, <1>9 DEF NoOrphan
<1>11. NobodyWaitsInVain'
  BY <1>1, <1>2 DEF NobodyWaitsInVain, Current
<1>12. QED
  BY <1>6, <1>7, <1>8, <1>10, <1>11 DEF IInv

\* The worker's first process starts when nothing else runs.
LEMMA SpawnRtspKeeps ==
  ASSUME IInv, TypeOK', NEW c \in Callers, SpawnRtsp(c)
  PROVE  IInv'
<1>1. /\ caller[c].pc = "spawn" /\ caller[c].doomed = {}
      /\ lifecycle = Caller(c) /\ lifecycle' = None
      /\ registered \in Workers /\ services[registered] = NoServices
      /\ UNCHANGED registered
  BY DEF SpawnRtsp, IInv, TypeOK, LockHolders, CallerPhases
<1>2. /\ \A d \in Callers : d # c => caller[d].pc = "idle" /\ caller[d].doomed = {}
      /\ \A w \in Workers : starter[w].pc # "spawn"
      /\ \A p \in Procs : reader[p].pc \notin Changing
  BY <1>1, CallerAlone DEF IInv
<1>3. /\ \A d \in Callers : caller'[d].pc = "idle" /\ caller'[d].doomed = {}
      /\ \A w \in Workers : starter'[w].pc # "spawn"
  BY <1>1, <1>2 DEF SpawnRtsp, Go, IInv, TypeOK, CallerState, StarterState
<1>4. PICK p \in Procs :
        /\ StartService(registered, "rtsp", p)
        /\ reader' = [reader EXCEPT ![p].pc = "read"]
  BY DEF SpawnRtsp
<1>5. /\ p \in RtspProcs
      /\ \A q \in Procs : q # p => proc'[q] = proc[q]
      /\ proc'[p].worker = registered
      /\ \A q \in Procs : reader'[q].pc = IF q = p THEN "read" ELSE reader[q].pc
  BY <1>4 DEF StartService, FreeProcs, ProcsOf, Launched, Blank, IInv, TypeOK, ReaderState
<1>6. /\ services'[registered]["rtsp"] = p
      /\ services'[registered]["onvif"] = None
      /\ \A w \in Workers : w # registered => services'[w] = services[w]
  BY <1>1, <1>4 DEF StartService, IInv, TypeOK, NoServices, Services
<1>7. \A q \in Procs : ~proc[q].live /\ ~Current(q)
  BY <1>1, <1>2, ThreadsDiffer, NoneAssumption
  DEF IInv, NoOrphan, Current, Owned, NoServices, Services, Procs
<1>8. SlotsMatchPorts'
  BY <1>5, <1>6 DEF IInv, SlotsMatchPorts, ProcsOf, Services
<1>9. LockHolders' /\ CallerPhases' /\ PeerPhases'
  BY <1>2, <1>3, <1>5 DEF LockHolders, CallerPhases, PeerPhases, Changing
<1>10. ReadersFollow'
  BY <1>1, <1>5, <1>7, NoneAssumption DEF IInv, ReadersFollow
<1>11. Current(p)' /\ \A q \in Procs : q # p => ~Current(q)'
  BY <1>1, <1>5, <1>6, NoneAssumption DEF Current, Owned, Services, Procs
<1>12. NoOrphan'
  BY <1>5, <1>7, <1>11 DEF NoOrphan
<1>13. NobodyWaitsInVain'
  BY <1>5, <1>11 DEF NobodyWaitsInVain
<1>14. QED
  BY <1>8, <1>9, <1>10, <1>12, <1>13 DEF IInv

-----------------------------------------------------------------------------
(* The theorems. *)

\* The inductive invariant holds initially.
LEMMA InitHolds == Init => IInv
<1> SUFFICES ASSUME Init PROVE IInv
  OBVIOUS
<1>1. TypeOK
  BY TypeInit
<1>2. /\ \A p \in Procs : /\ ~proc[p].live /\ proc[p].worker = None
                          /\ reader[p].pc = "done"
      /\ \A c \in Callers : caller[c].pc = "idle" /\ caller[c].doomed = {}
      /\ \A w \in Workers : starter[w].pc = "done" /\ services[w] = NoServices
      /\ registered = None
  BY DEF Init, Blank
<1>3. SlotsMatchPorts /\ CallerPhases
  BY <1>2 DEF SlotsMatchPorts, CallerPhases, NoServices
<1>4. LockHolders /\ ReadersFollow /\ PeerPhases
  BY <1>2 DEF LockHolders, ReadersFollow, PeerPhases
<1>5. NoOrphan /\ NobodyWaitsInVain
  BY <1>2 DEF NoOrphan, NobodyWaitsInVain, Current
<1>6. QED
  BY <1>1, <1>3, <1>4, <1>5 DEF IInv

\* The inductive invariant is inductive.
LEMMA StepKeeps == IInv /\ [Next]_vars => IInv'
<1> SUFFICES ASSUME IInv, [Next]_vars PROVE IInv'
  OBVIOUS
<1>1. TypeOK'
  BY TypeStep DEF IInv
<1>2. CASE UNCHANGED vars
  BY <1>1, <1>2
  DEF vars, IInv, SlotsMatchPorts, LockHolders, CallerPhases, ReadersFollow, PeerPhases,
      Peer, NoOrphan, NobodyWaitsInVain, Current, Owned
<1>3. ASSUME NEW c \in Callers, NEW op \in {"start", "stop"}, BeginCall(c, op)
      PROVE  IInv'
  BY <1>1, <1>3, EnterKeeps
<1>4. ASSUME NEW c \in Callers, CallerStep(c) PROVE IInv'
  BY <1>1, <1>4, PopWorkerKeeps, TerminateKeeps, CallerMovesKeeps, RegisterWorkerKeeps,
     SpawnRtspKeeps
  DEF CallerStep
<1>5. ASSUME NEW w \in Workers, StarterStep(w) PROVE IInv'
  BY <1>1, <1>5, StarterWaitsKeeps, EnterKeeps, StartOnvifKeeps DEF StarterStep
<1>6. ASSUME NEW p \in Procs, ReaderStep(p) PROVE IInv'
  BY <1>1, <1>6, FollowKeeps, HandleExitKeeps, EnterKeeps, RestartServiceKeeps,
     SkipRestartKeeps, KillPeerKeeps, RespawnPeerKeeps, ReaderCrashesKeeps
  DEF ReaderStep
<1>7. ASSUME NEW p \in Procs, ProcessStep(p) PROVE IInv'
  BY <1>1, <1>7, FollowKeeps DEF ProcessStep
<1>8. QED
  BY <1>2, <1>3, <1>4, <1>5, <1>6, <1>7 DEF Next

\* The inductive invariant is an invariant.
LEMMA Invariance == Spec => []IInv
BY InitHolds, StepKeeps, PTL DEF Spec

\* Two processes never bind the same local port of the camera at the same time.
THEOREM PortsHaveOneOwner == Spec => []SingleOwnerPerPort
<1>1. IInv => SingleOwnerPerPort
  <2> SUFFICES ASSUME IInv,
                      NEW s \in Services,
                      NEW p \in ProcsOf(s), NEW q \in ProcsOf(s),
                      proc[p].live, proc[q].live
               PROVE  p = q
    BY DEF SingleOwnerPerPort
  <2>1. p \in Procs /\ q \in Procs /\ ServiceOf(p) = s /\ ServiceOf(q) = s
    BY SlotAssumption DEF ProcsOf, Procs, ServiceOf, Services
  <2>2. CASE \E c \in Callers : lifecycle = Caller(c) /\ p \in caller[c].doomed
    <3>1. PICK c \in Callers : lifecycle = Caller(c) /\ p \in caller[c].doomed
      BY <2>2
    <3>2. registered = None
      BY <3>1 DEF IInv, CallerPhases
    <3>3. q \in caller[c].doomed
      BY <2>1, <3>1, <3>2, ThreadsDiffer DEF IInv, NoOrphan, Current
    <3>4. QED
      BY <3>1, <3>3 DEF IInv, CallerPhases
  <2>3. CASE Current(p)
    <3>1. registered # None
      BY <2>3 DEF Current
    <3>2. Current(q)
      BY <2>1, <3>1 DEF IInv, NoOrphan, CallerPhases
    <3>3. QED
      BY <2>1, <2>3, <3>2, CurrentSlot DEF IInv
  <2>4. QED
    BY <2>1, <2>2, <2>3 DEF IInv, NoOrphan
<1>2. QED
  BY <1>1, Invariance, PTL

\* A process that runs belongs to the registered worker or is about to be
\* terminated by the call that holds the lifecycle lock.
THEOREM NoProcessIsOrphaned == Spec => []NoOrphan
<1>1. IInv => NoOrphan
  BY DEF IInv
<1>2. QED
  BY <1>1, Invariance, PTL

\* A service that is not given up has a thread that acts when its process ends.
THEOREM EveryServiceIsFollowed == Spec => []NobodyWaitsInVain
<1>1. IInv => NobodyWaitsInVain
  BY DEF IInv
<1>2. QED
  BY <1>1, Invariance, PTL
=============================================================================
