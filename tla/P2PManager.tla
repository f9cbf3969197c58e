----------------------------- MODULE P2PManager ------------------------------
(***************************************************************************)
(* The P2PManager of app/p2p_manager.py for one camera, with the default   *)
(* backend: API calls start and stop its worker, a starter thread per      *)
(* worker opens the ONVIF session after the RTSP one, and a reader thread  *)
(* per process follows its output and restarts it when it exits.           *)
(*                                                                         *)
(* The camera's lifecycle lock is held over several steps; a section under *)
(* the manager's own lock is one step, except for the restart of a peer    *)
(* service, which waits for a process while it holds that lock.            *)
(*                                                                         *)
(* A process stands for its ServiceState too: _start_service creates both. *)
(* Worker and process slots are used again once nothing refers to them.    *)
(***************************************************************************)
EXTENDS Naturals, Sequences, FiniteSets

CONSTANTS
  Callers,      \* threads that serve API requests, startup and shutdown
  Workers,      \* slots for WorkerState objects
  RtspProcs,    \* slots for processes that bind the RTSP port
  OnvifProcs,   \* slots for processes that bind the ONVIF port
  None,         \* no worker, no process, no thread
  MaxUnread,    \* bound: lines a process has printed and its reader not seen
  SpawnFails    \* TRUE if Popen may raise an OSError

Services == {"rtsp", "onvif"}
ProcsOf(s) == IF s = "rtsp" THEN RtspProcs ELSE OnvifProcs
Procs == RtspProcs \cup OnvifProcs
ServiceOf(p) == IF p \in RtspProcs THEN "rtsp" ELSE "onvif"

Caller(c)  == <<"caller", c>>
Starter(w) == <<"starter", w>>
Reader(p)  == <<"reader", p>>
Threads == {Caller(c) : c \in Callers} \cup {Starter(w) : w \in Workers}
             \cup {Reader(p) : p \in Procs}

ASSUME NoneAssumption == None \notin Workers \cup Procs \cup Threads
ASSUME SlotAssumption == RtspProcs \cap OnvifProcs = {}
ASSUME SpawnAssumption == SpawnFails \in BOOLEAN
ASSUME UnreadAssumption == MaxUnread \in Nat \ {0}

VARIABLES
  (* P2PManager *)
  registered,  \* _workers.get(camera_id)
  services,    \* worker.services
  lifecycle,   \* thread that holds the camera's lifecycle lock
  locked,      \* reader thread that keeps _lock over several steps
  (* per process: the operating system's part and the ServiceState *)
  proc,
  (* threads *)
  caller,      \* [pc, op, doomed]
  starter,     \* per worker: [pc, seen]
  reader       \* per process: [pc, peer]

vars == <<registered, services, lifecycle, locked, proc, caller,
          starter, reader>>
managerVars == <<registered, services, lifecycle, locked>>

-----------------------------------------------------------------------------
(* Processes and their slots. *)

\* What _read_output tells apart of a process's output.
Lines == {"ready", "media"}

Process ==
  [worker : Workers \cup {None}, live : BOOLEAN,
   code : {"none", "reconnect", "other"},
   out : Seq(Lines),
   status : {"connecting", "online", "error"}, readyEvent : BOOLEAN,
   attempt : Nat]

CallerState ==
  [pc : {"idle", "pop", "terminate", "register", "spawn"},
   op : {"start", "stop"}, doomed : SUBSET Procs]

StarterState ==
  [pc : {"done", "look", "wait", "enter", "spawn"}, seen : Procs \cup {None}]

ReaderState ==
  [pc : {"done", "read", "exited", "delay", "restart", "kill", "respawn", "crashed"},
   peer : BOOLEAN]

Blank == [worker |-> None, live |-> FALSE, code |-> "none", out |-> <<>>,
          status |-> "connecting", readyEvent |-> FALSE, attempt |-> 0]

Launched(w) == [Blank EXCEPT !.worker = w, !.live = TRUE]

NoServices == [s \in Services |-> None]

Owned(w) == {p \in Procs : \E s \in Services : services[w][s] = p}

\* any(value is state for value in worker.services.values()), with the worker
\* still the registered one.
Current(p) == registered # None /\ proc[p].worker = registered /\ p \in Owned(registered)

FreeProcs(s) ==
  {p \in ProcsOf(s) :
                 /\ reader[p].pc = "done"
                 /\ \A w \in Workers : p \notin Owned(w) /\ starter[w].seen # p
                 /\ \A c \in Callers : p \notin caller[c].doomed}

FreeWorkers ==
  {w \in Workers : /\ registered # w
                   /\ starter[w].pc = "done"
                   /\ \A p \in Procs : proc[p].worker # w}

TypeOK ==
  /\ registered \in Workers \cup {None}
  /\ services \in [Workers -> [Services -> Procs \cup {None}]]
  /\ lifecycle \in Threads \cup {None}
  /\ locked \in Procs \cup {None}
  /\ proc \in [Procs -> Process]
  /\ caller \in [Callers -> CallerState]
  /\ starter \in [Workers -> StarterState]
  /\ reader \in [Procs -> ReaderState]

Init ==
  /\ registered = None
  /\ services = [w \in Workers |-> NoServices]
  /\ lifecycle = None
  /\ locked = None
  /\ proc = [p \in Procs |-> Blank]
  /\ caller = [c \in Callers |-> [pc |-> "idle", op |-> "stop", doomed |-> {}]]
  /\ starter = [w \in Workers |-> [pc |-> "done", seen |-> None]]
  /\ reader = [p \in Procs |-> [pc |-> "done", peer |-> FALSE]]

-----------------------------------------------------------------------------
(* Building blocks. *)

\* _start_service: a process, its ServiceState in worker.services, its reader.
StartService(w, s, p) ==
  /\ p \in FreeProcs(s)
  /\ proc' = [proc EXCEPT ![p] = Launched(w)]
  /\ services' = [services EXCEPT ![w][s] = p]

\* Mutant: an exit status that _read_output does not know.
TerminatedBySignal(p) == [proc[p] EXCEPT !.live = FALSE, !.code = "signal"]

Terminated(p) == [proc[p] EXCEPT !.live = FALSE, !.code = "other"]

\* _terminate_process_group: SIGTERM, then SIGKILL, until the process is gone.
Terminate(p) == proc' = IF proc[p].live THEN [proc EXCEPT ![p] = Terminated(p)] ELSE proc

Go(thread, who, where) == [thread EXCEPT ![who].pc = where]

-----------------------------------------------------------------------------
(* API calls: start and stop. *)

\* A call starts with the lifecycle lock; while it waits for it, it does nothing
\* that shows.  A bound: it begins only when the slots it needs are free.
BeginCall(c, op) ==
  /\ caller[c].pc = "idle"
  /\ lifecycle = None
  /\ op = "start" => FreeWorkers # {} /\ \A s \in Services : FreeProcs(s) # {}
  /\ lifecycle' = Caller(c)
  /\ caller' = [caller EXCEPT ![c].pc = "pop", ![c].op = op]
  /\ UNCHANGED <<registered, services, locked, proc, starter, reader>>

\* _stop_locked: the worker is taken out of the table first.
PopWorker(c) ==
  /\ caller[c].pc = "pop"
  /\ locked = None
  /\ registered' = None
  /\ caller' = [caller EXCEPT
       ![c].pc = "terminate",
       ![c].doomed = IF registered = None THEN {} ELSE Owned(registered)]
  /\ services' = [w \in Workers |-> IF w = registered THEN NoServices ELSE services[w]]
  /\ proc' = [p \in Procs |->
       IF registered # None /\ p \in Owned(registered) /\ reader[p].pc \in {"done", "crashed"}
       THEN Blank ELSE proc[p]]
  /\ reader' = [p \in Procs |->
       IF registered # None /\ p \in Owned(registered) /\ reader[p].pc = "crashed"
       THEN [pc |-> "done", peer |-> FALSE] ELSE reader[p]]
  /\ UNCHANGED <<lifecycle, locked, starter>>

TerminateNext(c, p) ==
  /\ caller[c].pc = "terminate"
  /\ p \in caller[c].doomed
  /\ Terminate(p)
  /\ caller' = [caller EXCEPT ![c].doomed = @ \ {p}]
  /\ UNCHANGED <<managerVars, starter, reader>>

\* stop returns; start goes on to create its worker.
AllTerminated(c) ==
  /\ caller[c].pc = "terminate"
  /\ caller[c].doomed = {}
  /\ IF caller[c].op = "stop"
     THEN /\ caller' = Go(caller, c, "idle")
          /\ lifecycle' = None
     ELSE /\ caller' = Go(caller, c, "register")
          /\ UNCHANGED lifecycle
  /\ UNCHANGED <<registered, services, locked, proc, starter, reader>>

RegisterWorker(c) ==
  /\ caller[c].pc = "register"
  /\ locked = None
  /\ \E w \in FreeWorkers :
       /\ registered' = w
       /\ services' = [services EXCEPT ![w] = NoServices]
  /\ caller' = Go(caller, c, "spawn")
  /\ UNCHANGED <<lifecycle, locked, proc, starter, reader>>

\* The RTSP session, and the thread that opens the ONVIF session later.
SpawnRtsp(c) ==
  /\ caller[c].pc = "spawn"
  /\ \E p \in Procs :
       /\ StartService(registered, "rtsp", p)
       /\ reader' = [reader EXCEPT ![p].pc = "read"]
  /\ starter' = Go(starter, registered, "look")
  /\ caller' = Go(caller, c, "idle")
  /\ lifecycle' = None
  /\ UNCHANGED <<registered, locked>>

\* Popen raises in start, or the vendor has no adapter: the call ends.
CallRaises(c) ==
  /\ \/ caller[c].pc = "register"
     \/ SpawnFails /\ caller[c].pc = "spawn"
  /\ caller' = Go(caller, c, "idle")
  /\ lifecycle' = None
  /\ UNCHANGED <<registered, services, locked, proc, starter, reader>>

-----------------------------------------------------------------------------
(* _start_onvif_after_rtsp *)

StarterDone(w) == starter' = [starter EXCEPT ![w] = [pc |-> "done", seen |-> None]]

LookAtRtsp(w) ==
  /\ starter[w].pc = "look"
  /\ locked = None
  /\ IF registered # w \/ services[w]["rtsp"] = None
     THEN StarterDone(w)
     ELSE starter' = [starter EXCEPT ![w] = [pc |-> "wait", seen |-> services[w]["rtsp"]]]
  /\ UNCHANGED <<managerVars, proc, caller, reader>>

\* ready_event.wait(1.0), then poll(), on the state it looked at.
WaitForRtsp(w) ==
  /\ starter[w].pc = "wait"
  /\ LET p == starter[w].seen IN
       starter' = [starter EXCEPT ![w] =
         [pc |-> IF proc[p].readyEvent \/ ~proc[p].live THEN "enter" ELSE "look",
          seen |-> None]]
  /\ UNCHANGED <<managerVars, proc, caller, reader>>

\* Mutant: at the deadline the thread ends instead of starting ONVIF.
GiveUpForGood(w) ==
  /\ starter[w].pc = "look"
  /\ StarterDone(w)
  /\ UNCHANGED <<managerVars, proc, caller, reader>>

\* The deadline passes: P2P_ONVIF_WAIT_FOR_RTSP_SECONDS.
GiveUpWaiting(w) ==
  /\ starter[w].pc = "look"
  /\ starter' = Go(starter, w, "enter")
  /\ UNCHANGED <<managerVars, proc, caller, reader>>

EnterStarter(w) ==
  /\ starter[w].pc = "enter"
  /\ lifecycle = None
  /\ registered = w => FreeProcs("onvif") # {}
  /\ lifecycle' = Starter(w)
  /\ starter' = Go(starter, w, "spawn")
  /\ UNCHANGED <<registered, services, locked, proc, caller, reader>>

\* Mutant: the worker may have been stopped in the meantime.
StartOnvifUnchecked(w) ==
  /\ starter[w].pc = "spawn"
  /\ locked = None
  /\ \E p \in Procs :
       /\ StartService(w, "onvif", p)
       /\ reader' = [reader EXCEPT ![p].pc = "read"]
  /\ StarterDone(w)
  /\ lifecycle' = None
  /\ UNCHANGED <<registered, locked, caller>>

StartOnvif(w) ==
  /\ starter[w].pc = "spawn"
  /\ locked = None
  /\ IF registered = w /\ services[w]["onvif"] = None
     THEN \/ \E p \in Procs :
               /\ StartService(w, "onvif", p)
               /\ reader' = [reader EXCEPT ![p].pc = "read"]
          \/ SpawnFails /\ UNCHANGED <<proc, services, reader>>
     ELSE UNCHANGED <<proc, services, reader>>
  /\ StarterDone(w)
  /\ lifecycle' = None
  /\ UNCHANGED <<registered, locked, caller>>

-----------------------------------------------------------------------------
(* _read_output *)

\* A reader that ends leaves its process and its slot behind, unless the
\* ServiceState is still shown by status().
ReaderDone(p) ==
  /\ reader' = [reader EXCEPT ![p] = [pc |-> "done", peer |-> FALSE]]
  /\ proc' = IF Current(p) THEN proc ELSE [proc EXCEPT ![p] = Blank]

ReadLine(p) ==
  /\ reader[p].pc = "read"
  /\ locked = None
  /\ proc[p].out # <<>>
  /\ LET line == Head(proc[p].out)
         rest == [proc[p] EXCEPT !.out = Tail(@)]
     IN  proc' = [proc EXCEPT ![p] =
           IF line = "ready" THEN [rest EXCEPT !.readyEvent = TRUE]
                             ELSE [rest EXCEPT !.status = "online"]]
  /\ UNCHANGED <<managerVars, caller, starter, reader>>

\* End of file: the process and its children have closed their output.
EndOfOutput(p) ==
  /\ reader[p].pc = "read"
  /\ proc[p].out = <<>>
  /\ ~proc[p].live
  /\ proc' = [proc EXCEPT ![p].readyEvent = TRUE]
  /\ reader' = Go(reader, p, "exited")
  /\ UNCHANGED <<managerVars, caller, starter>>

\* The RTSP session a failed ONVIF session also wants rebuilt.
StuckPeer(p) ==
  /\ p \in OnvifProcs
  /\ LET q == services[proc[p].worker]["rtsp"] IN
       /\ q # None
       /\ proc[q].status = "connecting"
       /\ proc[q].live

\* Mutant: the restart is never carried out.
ForgetsRestart(p, peer) ==
  /\ reader' = [reader EXCEPT ![p] = [pc |-> "done", peer |-> FALSE]]
  /\ proc' = [proc EXCEPT ![p].status = "connecting"]

\* What reconnect_attempt is counted up from: 0 if the session may have been
\* online for the last 60 seconds (online_since is set with that status).  The
\* session that follows has a ServiceState of its own and counts from 0 again
\* (Blank), so that the back-off this counter is for never grows.
CountsFrom(p) ==
  {proc[p].attempt} \cup (IF proc[p].status = "online" THEN {0} ELSE {})

\* Only an exit with status 75 counts; the transient delay is constant.
SchedulesRestart(p, peer) ==
  /\ reader' = [reader EXCEPT ![p] = [pc |-> "delay", peer |-> peer]]
  /\ \E base \in CountsFrom(p) :
       proc' = [proc EXCEPT ![p].status = "connecting",
                            ![p].attempt = IF proc[p].code = "reconnect" THEN base + 1 ELSE @]

\* Mutant: the status keeps what it was.
GivesUpSilently(p) == reader' = Go(reader, p, "done") /\ UNCHANGED proc

\* "error" stands for "stopped" too, the status after exit status 0.
GivesUp(p) ==
  /\ reader' = Go(reader, p, "done")
  /\ proc' = [proc EXCEPT ![p].status = "error"]

\* Status 75 restarts the session.  Another failure restarts it if one of the
\* last 100 lines of the log, which both services share, holds a transient
\* marker: that may or may not be so.
HandleExit(p) ==
  /\ reader[p].pc = "exited"
  /\ locked = None
  /\ \/ ~Current(p) /\ ReaderDone(p)
     \/ /\ Current(p)
        /\ proc[p].code = "reconnect"
        /\ SchedulesRestart(p, StuckPeer(p))
     \/ /\ Current(p)
        /\ proc[p].code # "reconnect"
        /\ SchedulesRestart(p, FALSE) \/ GivesUp(p)
  /\ UNCHANGED <<managerVars, caller, starter>>

WantsPeer(p) ==
  /\ reader[p].peer
  /\ registered = proc[p].worker
  /\ services[proc[p].worker]["rtsp"] # None

\* The restart delay has passed.
EnterReader(p) ==
  /\ reader[p].pc = "delay"
  /\ lifecycle = None
  /\ Current(p) => FreeProcs(ServiceOf(p)) # {}
  /\ WantsPeer(p) => FreeProcs("rtsp") # {}
  /\ lifecycle' = Reader(p)
  /\ reader' = Go(reader, p, "restart")
  /\ UNCHANGED <<registered, services, locked, proc, caller, starter>>

\* _start_service creates a ServiceState: reconnect_attempt starts at 0 again.
Successor(p) == Launched(proc[p].worker)

\* The session restarts itself, if it is still the worker's.
RestartService(p) ==
  /\ reader[p].pc = "restart"
  /\ locked = None
  /\ Current(p)
  /\ \E q \in FreeProcs(ServiceOf(p)) :
       /\ services' = [services EXCEPT ![proc[p].worker][ServiceOf(p)] = q]
       /\ IF WantsPeer(p)
          THEN /\ proc' = [proc EXCEPT ![q] = Successor(p)]
               /\ reader' = [reader EXCEPT ![q].pc = "read", ![p].pc = "kill"]
               /\ locked' = p
               /\ UNCHANGED lifecycle
          ELSE /\ proc' = [proc EXCEPT ![q] = Successor(p), ![p] = Blank]
               /\ reader' = [reader EXCEPT ![q].pc = "read",
                                           ![p] = [pc |-> "done", peer |-> FALSE]]
               /\ lifecycle' = None
               /\ UNCHANGED locked
  /\ UNCHANGED <<registered, caller, starter>>

\* Another thread replaced or stopped it in the meantime.
SkipRestart(p) ==
  /\ reader[p].pc = "restart"
  /\ locked = None
  /\ ~Current(p)
  /\ IF WantsPeer(p)
     THEN /\ reader' = Go(reader, p, "kill")
          /\ locked' = p
          /\ UNCHANGED <<lifecycle, proc>>
     ELSE /\ ReaderDone(p)
          /\ lifecycle' = None
          /\ UNCHANGED locked
  /\ UNCHANGED <<registered, services, caller, starter>>

Peer(p) == services[proc[p].worker]["rtsp"]

\* Mutant: the peer is left running beside its successor.
SparePeer(p) ==
  /\ reader[p].pc = "kill"
  /\ reader' = Go(reader, p, "respawn")
  /\ UNCHANGED <<managerVars, proc, caller, starter>>

KillPeer(p) ==
  /\ reader[p].pc = "kill"
  /\ Terminate(Peer(p))
  /\ reader' = Go(reader, p, "respawn")
  /\ UNCHANGED <<managerVars, caller, starter>>

\* Mutant: _lock stays taken.
ReleasesLifecycleOnly == lifecycle' = None /\ UNCHANGED locked

ReleasesBoth == lifecycle' = None /\ locked' = None

\* The slots that RespawnPeer leaves unused.
Replaced(p) == {p} \cup {q \in {Peer(p)} : reader[q].pc = "done"}

RespawnPeer(p) ==
  /\ reader[p].pc = "respawn"
  /\ \E q \in FreeProcs("rtsp") :
       /\ services' = [services EXCEPT ![proc[p].worker]["rtsp"] = q]
       /\ proc' = [r \in Procs |-> IF r = q THEN Launched(proc[p].worker)
                                  ELSE IF r \in Replaced(p) THEN Blank ELSE proc[r]]
       /\ reader' = [reader EXCEPT ![q].pc = "read",
                                   ![p] = [pc |-> "done", peer |-> FALSE]]
  /\ ReleasesBoth
  /\ UNCHANGED <<registered, caller, starter>>

\* Popen raises in the reader thread: it dies and nobody restarts the service.
ReaderCrashes(p) ==
  /\ SpawnFails
  /\ \/ /\ reader[p].pc = "restart"
        /\ locked = None
        /\ Current(p)
        /\ reader' = [reader EXCEPT ![p] = [pc |-> "crashed", peer |-> FALSE]]
        /\ UNCHANGED proc
     \/ /\ reader[p].pc = "respawn"
        /\ ReaderDone(p)
  /\ ReleasesBoth
  /\ UNCHANGED <<registered, services, caller, starter>>

-----------------------------------------------------------------------------
(* The processes (app/vendor/dh_p2p/main.py and the engine it launches). *)

\* "Ready to connect" is printed when the engine takes over.
Negotiated(p) == proc[p].readyEvent \/ \E i \in DOMAIN proc[p].out : proc[p].out[i] = "ready"

PrintLine(p, line) ==
  /\ proc[p].live
  /\ Len(proc[p].out) < MaxUnread
  /\ line = "media" <=> Negotiated(p)
  /\ line = "media" => p \in RtspProcs
  /\ proc' = [proc EXCEPT ![p].out = Append(@, line)]
  /\ UNCHANGED <<managerVars, caller, starter, reader>>

\* The negotiation fails, or the engine asks for a new session with status 75.
ProcessExits(p, code) ==
  /\ proc[p].live
  /\ code = "reconnect" => Negotiated(p)
  /\ proc' = [proc EXCEPT ![p].live = FALSE, ![p].code = code]
  /\ UNCHANGED <<managerVars, caller, starter, reader>>

-----------------------------------------------------------------------------
CallerStep(c) ==
  \/ PopWorker(c)
  \/ \E p \in Procs : TerminateNext(c, p)
  \/ AllTerminated(c)
  \/ RegisterWorker(c)
  \/ SpawnRtsp(c)
  \/ CallRaises(c)

StarterStep(w) ==
  \/ LookAtRtsp(w)
  \/ WaitForRtsp(w)
  \/ GiveUpWaiting(w)
  \/ EnterStarter(w)
  \/ StartOnvif(w)

ReaderStep(p) ==
  \/ ReadLine(p)
  \/ EndOfOutput(p)
  \/ HandleExit(p)
  \/ EnterReader(p)
  \/ RestartService(p)
  \/ SkipRestart(p)
  \/ KillPeer(p)
  \/ RespawnPeer(p)
  \/ ReaderCrashes(p)

ProcessStep(p) ==
  \/ \E line \in Lines : PrintLine(p, line)
  \/ \E code \in {"reconnect", "other"} : ProcessExits(p, code)

Next ==
  \/ \E c \in Callers, op \in {"start", "stop"} : BeginCall(c, op)
  \/ \E c \in Callers : CallerStep(c)
  \/ \E w \in Workers : StarterStep(w)
  \/ \E p \in Procs : ReaderStep(p) \/ ProcessStep(p)

Spec == Init /\ [][Next]_vars

-----------------------------------------------------------------------------
(* Safety. *)

\* Test, reconnect, startup and the recovery threads never run two processes
\* that bind the same local port at the same time.
SingleOwnerPerPort ==
  \A s \in Services : \A p, q \in ProcsOf(s) :
    proc[p].live /\ proc[q].live => p = q

\* No process outlives its worker: what runs belongs to the registered worker,
\* or a call that holds the lifecycle lock is about to terminate it.  So after
\* stop has returned nothing of the camera runs until it is started again.
NoOrphan ==
  \A p \in Procs : proc[p].live =>
    \/ Current(p)
    \/ \E c \in Callers : lifecycle = Caller(c) /\ p \in caller[c].doomed

\* A service shown as connecting or online always has a thread that will act
\* when its process ends; one that is given up is shown as an error, unless
\* the thread itself died in a failed Popen.
NobodyWaitsInVain ==
  \A p \in Procs : Current(p) /\ reader[p].pc = "done" => proc[p].status = "error"

\* WorkerState.status: online when every required channel is ready.
WorkerOnline(w) ==
  /\ Owned(w) # {}
  /\ \A p \in Owned(w) : proc[p].status = "online"

\* The comment in WorkerState.status: a camera is shown online only when each of
\* its channels, RTSP and ONVIF, is there and its transport is ready.  It does
\* not hold: status looks at the sessions that exist, and a camera whose ONVIF
\* session has not started yet has one of the two.
OnlineMeansReady ==
  registered # None /\ WorkerOnline(registered) =>
    \A s \in Services : /\ services[registered][s] # None
                        /\ proc[services[registered][s]].readyEvent

-----------------------------------------------------------------------------
(* Liveness. *)

\* Threads that can run do run, and a thread that waits for the lifecycle lock
\* gets it when it is free again and again.
ThreadFairness ==
  /\ \A c \in Callers : WF_vars(CallerStep(c))
  /\ \A w \in Workers :
       /\ WF_vars(StarterStep(w))
       /\ SF_vars(GiveUpWaiting(w))
       /\ SF_vars(EnterStarter(w))
  /\ \A p \in Procs : WF_vars(ReaderStep(p))
  /\ \A s \in Services : SF_vars(\E p \in ProcsOf(s) : EnterReader(p))

LiveSpec == Spec /\ ThreadFairness

\* start and stop return.
CallsReturn == \A c \in Callers : caller[c].pc # "idle" ~> caller[c].pc = "idle"

\* The registered worker's session on a port, if its engine asked for a new one.
AwaitsReconnect(s) ==
  \E p \in ProcsOf(s) :
    Current(p) /\ proc[p].code = "reconnect" /\ reader[p].pc # "crashed"

\* A session whose engine asked for a reconnect is rebuilt, unless its worker is
\* stopped or Popen fails.
ReconnectHappens == \A s \in Services : AwaitsReconnect(s) ~> ~AwaitsReconnect(s)

\* Every worker that keeps running gets its ONVIF session.
OnvifStarts ==
  \A w \in Workers :
    registered = w /\ services[w]["rtsp"] # None ~>
      (registered # w \/ services[w]["onvif"] # None)
=============================================================================
