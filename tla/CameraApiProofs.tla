--------------------------- MODULE CameraApiProofs ---------------------------
(***************************************************************************)
(* Proofs about CameraApi, for any number of clients and cameras.          *)
(***************************************************************************)
EXTENDS CameraApi, TLAPS

\* No request is served before startup is through, and no session runs before.
PhaseInv ==
  /\ phase # "serving" => settled = {} /\ \A c \in Clients : calls[c] = Idle
  /\ phase = "down" => workers = NoWorkers
  /\ phase # "starting" => boot = {}

\* One transaction at a time, and what is committed is a new or an existing row.
LockInv ==
  /\ \A c, d \in Clients : calls[c].step = "commit" /\ calls[d].step = "commit" => c = d
  /\ \A c \in Clients : calls[c].step # "idle" => calls[c].id \in Ids
  /\ \A c \in Clients : calls[c].step = "commit" =>
       \/ (calls[c].op = "add" /\ calls[c].id = lastId + 1)
       \/ (calls[c].op = "update" /\ cameras[calls[c].id] # None)

\* A request about c's camera in the meantime is noticed.
AloneInv ==
  \A c, d \in Clients : calls[c].alone =>
    /\ calls[c].id \in Ids
    /\ calls[d].id = calls[c].id => d = c

\* Nothing refers to an id that no row has had.
IdInv ==
  /\ lastId <= MaxCameras
  /\ \A id \in Ids : cameras[id] # None \/ workers[id] # None => id <= lastId
  /\ \A c \in Clients : calls[c].row # None =>
       /\ calls[c].id \in Ids
       /\ calls[c].id <= lastId \/ (calls[c].step = "commit" /\ calls[c].op = "add")

\* Whatever refers to a camera by an id refers to the same camera.
SerialInv ==
  /\ NeverAnothersCamera
  /\ \A c \in Clients : calls[c].row # None =>
       /\ cameras[calls[c].id] # None => cameras[calls[c].id].serial = calls[c].row.serial
       /\ workers[calls[c].id] # None => workers[calls[c].id].row.serial = calls[c].row.serial
  /\ \A c, d \in Clients :
       calls[c].row # None /\ calls[d].row # None /\ calls[c].id = calls[d].id =>
         calls[c].row.serial = calls[d].row.serial

Wanted(id) ==
  cameras[id] # None /\ cameras[id].enabled /\ HasAdapter(cameras[id]) /\ cameras[id].key = secret

Follows(id) == workers[id] # None => cameras[id] # None /\ workers[id].row = cameras[id]

Runs(id) == Wanted(id) => workers[id] # None /\ workers[id].up

\* What a request that runs alone knows at each of its steps.
StepInv ==
  \A c \in Clients : calls[c].alone =>
    /\ calls[c].step \in {"stop", "start"} => cameras[calls[c].id] = calls[c].row
    /\ calls[c].step = "write" => workers[calls[c].id] = None

AgreeInv ==
  /\ \A id \in Ids : AtRest(id) => Follows(id) /\ Runs(id)
  /\ phase = "starting" => \A id \in Ids : Follows(id) /\ (id \in boot \/ Runs(id))
  /\ \A id \in boot : cameras[id] # None

IInv == TypeOK /\ PhaseInv /\ LockInv /\ AloneInv /\ IdInv /\ SerialInv /\ StepInv /\ AgreeInv

-----------------------------------------------------------------------------
(* Steps of a request. *)

\* What a request's first step does to the table of requests.
Entered(c, op, step, id, row) ==
  /\ phase = "serving"
  /\ calls[c] = Idle
  /\ calls' \in [Clients -> Call]
  /\ \A d \in Clients : calls'[d].step \in {"commit", "stop", "start"} => calls'[d].row # None
  /\ calls'[c] = [op |-> op, step |-> step, id |-> id, row |-> row, alone |-> Quiet(id)]
  /\ \A d \in Clients \ {c} :
       /\ calls'[d].op = calls[d].op
       /\ calls'[d].step = calls[d].step
       /\ calls'[d].id = calls[d].id
       /\ calls'[d].row = calls[d].row
       /\ calls'[d].alone => calls[d].alone /\ calls[d].id # id
  /\ \A i \in Ids : Quiet(i)' => Quiet(i) /\ i # id
  /\ settled' \subseteq settled

\* Enter, expanded once for the proofs below.
LEMMA EnterFacts ==
  ASSUME TypeOK, NEW c \in Clients, NEW op \in {"add", "update", "delete", "test"},
         NEW step \in {"commit", "stop", "start", "write"}, NEW id \in Ids,
         NEW row \in Row \cup {None}, step # "write" => row # None,
         Enter(c, op, step, id, row)
  PROVE  Entered(c, op, step, id, row)
<1>1. 0 \notin Ids
  BY DEF Ids
<1>2. QED
  BY <1>1 DEF TypeOK, Enter, Entered, Call, Idle, Quiet

\* What its last step does.
Left(c, done) ==
  /\ phase = "serving"
  /\ calls' \in [Clients -> Call]
  /\ calls'[c] = Idle
  /\ \A d \in Clients \ {c} : calls'[d] = calls[d]
  /\ settled' \subseteq Ids
  /\ \A i \in Ids \ {calls[c].id} : i \in settled' <=> i \in settled
  /\ calls[c].id \in settled' => calls[c].alone /\ done
  /\ \A i \in Ids \ {calls[c].id} : Quiet(i)' => Quiet(i)

\* Leave, expanded once.
LEMMA LeaveFacts ==
  ASSUME IInv, NEW c \in Clients, NEW done \in BOOLEAN, calls[c].step # "idle", Leave(c, done)
  PROVE  Left(c, done) /\ calls[c].id \in Ids
<1>1. phase = "serving"
  BY DEF IInv, PhaseInv, Idle
<1>2. calls[c].id \in Ids
  BY DEF IInv, LockInv
<1>3. QED
  BY <1>1, <1>2 DEF IInv, TypeOK, Leave, Left, Call, Idle, Quiet

\* And the ones in between.
Stepped(c, step) ==
  /\ phase = "serving"
  /\ calls' \in [Clients -> Call]
  /\ calls'[c] = [calls[c] EXCEPT !.step = step]
  /\ \A d \in Clients \ {c} : calls'[d] = calls[d]
  /\ settled' = settled
  /\ \A i \in Ids : Quiet(i)' => Quiet(i) /\ i # calls[c].id

\* Step, expanded once.
LEMMA StepFacts ==
  ASSUME IInv, NEW c \in Clients, NEW step \in {"stop", "start"}, calls[c].step # "idle",
         Step(c, step)
  PROVE  Stepped(c, step) /\ calls[c].id \in Ids
<1>1. phase = "serving"
  BY DEF IInv, PhaseInv, Idle
<1>2. calls[c].id \in Ids
  BY DEF IInv, LockInv
<1>3. QED
  BY <1>1, <1>2 DEF IInv, TypeOK, Step, Stepped, Call, Quiet

-----------------------------------------------------------------------------
(* The steps keep the invariant. *)

\* The first steps of add, update and test, which only read the data.
LEMMA EnterKeeps ==
  ASSUME IInv, NEW c \in Clients, NEW id \in Ids, NEW row \in Row,
         NEW op \in {"add", "update", "test"}, NEW step \in {"commit", "start"},
         Enter(c, op, step, id, row),
         UNCHANGED <<cameras, lastId, workers, secret, phase, boot>>,
         op = "add" => id = lastId + 1 /\ step = "commit",
         op # "add" => cameras[id] # None /\ cameras[id].serial = row.serial,
         step = "commit" => ~Locked /\ op \in {"add", "update"},
         step = "start" => cameras[id] = row
  PROVE  IInv'
<1>1. row # None /\ row \in Row \cup {None}
  BY NoneAssumption
<1>2. Entered(c, op, step, id, row)
  BY <1>1, EnterFacts DEF IInv
<1>3. TypeOK'
  BY <1>2 DEF IInv, TypeOK, Entered
<1>4. PhaseInv'
  BY <1>2 DEF IInv, PhaseInv, Entered
<1>5. LockInv'
  BY <1>2 DEF IInv, LockInv, Locked, Entered
<1>6. AloneInv'
  BY <1>2 DEF IInv, AloneInv, Quiet, Entered
<1>7. IdInv'
  BY <1>2 DEF IInv, IdInv, Entered
<1>8. SerialInv'
  BY <1>2 DEF IInv, IdInv, SerialInv, NeverAnothersCamera, TypeOK, Locked, Entered
<1>9. StepInv'
  BY <1>2 DEF IInv, StepInv, Entered
<1>10. AgreeInv'
  BY <1>2 DEF IInv, AgreeInv, AtRest, Follows, Runs, Wanted, HasAdapter, Entered
<1>11. QED
  BY <1>3, <1>4, <1>5, <1>6, <1>7, <1>8, <1>9, <1>10 DEF IInv

\* The INSERT of add_camera takes the next id, which nothing refers to yet.
LEMMA AddInsertsKeeps ==
  ASSUME IInv, NEW c \in Clients, AddInserts(c)
  PROVE  IInv'
<1>1. PICK id \in NewIds, row \in Row : Enter(c, "add", "commit", id, row)
  BY DEF AddInserts
<1>2. id = lastId + 1 /\ id \in Ids
  BY CamerasAssumption DEF NewIds, IInv, TypeOK, IdInv, Ids
<1>3. ~Locked /\ UNCHANGED <<cameras, lastId, workers, secret, phase, boot>>
  BY DEF AddInserts, processVars
<1>4. QED
  BY <1>1, <1>2, <1>3, EnterKeeps

\* The UPDATE of update_camera; the serial number stays.
LEMMA UpdateWritesKeeps ==
  ASSUME IInv, NEW c \in Clients, NEW id \in Ids, UpdateWrites(c, id)
  PROVE  IInv'
<1>1. PICK row \in Patched(cameras[id]) : Enter(c, "update", "commit", id, row)
  BY DEF UpdateWrites
<1>2. /\ ~Locked
      /\ cameras[id] # None
      /\ UNCHANGED <<cameras, lastId, workers, secret, phase, boot>>
  BY DEF UpdateWrites, processVars
<1>3. row \in Row /\ row.serial = cameras[id].serial
  BY DEF Patched
<1>4. QED
  BY <1>1, <1>2, <1>3, EnterKeeps

\* test_camera reads the row and holds no transaction.
LEMMA TestReadsKeeps ==
  ASSUME IInv, NEW c \in Clients, NEW id \in Ids, TestReads(c, id)
  PROVE  IInv'
<1>1. /\ cameras[id] # None
      /\ Enter(c, "test", "start", id, cameras[id])
      /\ UNCHANGED <<cameras, lastId, workers, secret, phase, boot>>
  BY DEF TestReads, processVars
<1>2. cameras[id] \in Row
  BY <1>1 DEF IInv, TypeOK
<1>3. QED
  BY <1>1, <1>2, EnterKeeps

\* delete_camera stops the worker before it writes.
LEMMA DeleteStopsKeeps ==
  ASSUME IInv, NEW c \in Clients, NEW id \in Ids, DeleteStops(c, id)
  PROVE  IInv'
<1>1. /\ Enter(c, "delete", "write", id, None)
      /\ workers' = [workers EXCEPT ![id] = None]
      /\ UNCHANGED <<cameras, lastId, secret, phase, boot>>
  BY DEF DeleteStops, processVars
<1>2. Entered(c, "delete", "write", id, None)
  BY <1>1, EnterFacts DEF IInv
<1>3. TypeOK'
  BY <1>1, <1>2 DEF IInv, TypeOK, Entered
<1>4. PhaseInv'
  BY <1>1, <1>2 DEF IInv, PhaseInv, Entered
<1>5. LockInv'
  BY <1>1, <1>2 DEF IInv, LockInv, Entered
<1>6. AloneInv'
  BY <1>2 DEF IInv, AloneInv, Quiet, Entered
<1>7. IdInv'
  BY <1>1, <1>2 DEF IInv, IdInv, TypeOK, Entered
<1>8. SerialInv'
  BY <1>1, <1>2 DEF IInv, SerialInv, NeverAnothersCamera, TypeOK, Entered
<1>9. StepInv'
  BY <1>1, <1>2 DEF IInv, StepInv, TypeOK, Entered
<1>10. AgreeInv'
  BY <1>1, <1>2 DEF IInv, AgreeInv, TypeOK, AtRest, Follows, Runs, Wanted, HasAdapter, Entered
<1>11. QED
  BY <1>3, <1>4, <1>5, <1>6, <1>7, <1>8, <1>9, <1>10 DEF IInv

\* The end of a transaction: the row becomes visible, an add starts or ends.
LEMMA CommitsKeeps ==
  ASSUME IInv, NEW c \in Clients, Commits(c)
  PROVE  IInv'
<1> DEFINE id == calls[c].id
           row == calls[c].row
<1>0. MaxCameras \in Nat /\ 0 \notin Ids
  BY CamerasAssumption DEF Ids
<1>1. /\ calls[c].step = "commit"
      /\ cameras' = [cameras EXCEPT ![id] = row]
      /\ UNCHANGED <<workers, secret, phase, boot>>
  BY DEF Commits, processVars
<1>2. row \in Row /\ id \in Ids /\ row # None
  BY <1>1 DEF IInv, TypeOK, LockInv, Call
<1>3. \/ calls[c].op = "add" /\ lastId' = id /\ id = lastId + 1 /\ id <= MaxCameras
      \/ calls[c].op = "update" /\ cameras[id] # None /\ UNCHANGED lastId
  BY <1>1 DEF Commits, HasPort, IInv, LockInv
<1>4. /\ lastId \in Nat /\ lastId' \in Nat /\ lastId' <= MaxCameras
      /\ id <= lastId'
      /\ \A i \in Ids \cup {0} : i <= lastId => i <= lastId'
  BY <1>0, <1>2, <1>3 DEF IInv, TypeOK, IdInv, Ids
<1>5. \A d \in Clients \ {c} :
        calls[d].row # None => calls[d].id <= lastId /\ calls[d].id <= lastId'
  BY <1>1, <1>4 DEF IInv, TypeOK, Call, IdInv, LockInv
<1>6. calls[c].op = "add" =>
        /\ cameras[id] = None
        /\ workers[id] = None
        /\ \A d \in Clients \ {c} : calls[d].row # None => calls[d].id # id
  BY <1>2, <1>3, <1>4, <1>5 DEF IInv, IdInv
<1>7. ASSUME NEW step \in {"stop", "start"}, Step(c, step)
      PROVE  IInv'
  <2>1. Stepped(c, step)
    BY <1>1, <1>7, StepFacts
  <2>2. TypeOK'
    BY <1>1, <1>2, <1>3, <2>1 DEF IInv, TypeOK, Stepped, Call
  <2>3. PhaseInv'
    BY <1>1, <2>1 DEF IInv, PhaseInv, Stepped
  <2>4. LockInv'
    <3>1. calls'[c].step # "commit" /\ calls'[c].id = id
      BY <2>1 DEF IInv, TypeOK, Stepped, Call
    <3>2. \A d \in Clients \ {c} : calls'[d] = calls[d] /\ calls[d].step # "commit"
      BY <1>1, <2>1 DEF IInv, LockInv, Stepped
    <3>3. \A d \in Clients : calls'[d].step # "commit"
      BY <3>1, <3>2
    <3>4. \A d \in Clients : calls'[d].step # "idle" => calls'[d].id \in Ids
      BY <1>2, <3>1, <3>2 DEF IInv, LockInv
    <3>5. QED
      BY <3>3, <3>4 DEF LockInv, Ids
  <2>5. AloneInv'
    BY <2>1 DEF IInv, TypeOK, AloneInv, Stepped, Call
  <2>6. IdInv'
    BY <1>1, <1>2, <1>3, <1>4, <1>5, <2>1 DEF IInv, TypeOK, IdInv, Stepped, Call
  <2>7. SerialInv'
    <3>1. \A d \in Clients : calls'[d].id = calls[d].id /\ calls'[d].row = calls[d].row
      BY <2>1 DEF IInv, TypeOK, Stepped, Call
    <3>2. \A i \in Ids : cameras'[i] = IF i = id THEN row ELSE cameras[i]
      BY <1>1 DEF IInv, TypeOK
    <3>3. NeverAnothersCamera'
      BY <1>1, <1>2, <1>3, <1>6, <3>2 DEF IInv, SerialInv, NeverAnothersCamera
    <3>4. ASSUME NEW d \in Clients, calls[d].row # None
          PROVE  /\ cameras'[calls[d].id] # None => cameras'[calls[d].id].serial = calls[d].row.serial
                 /\ workers[calls[d].id] # None => workers[calls[d].id].row.serial = calls[d].row.serial
      <4>1. calls[d].id \in Ids
        BY <3>4 DEF IInv, IdInv
      <4>2. QED
        BY <1>2, <3>2, <3>4, <4>1 DEF IInv, SerialInv
    <3>5. QED
      BY <1>1, <3>1, <3>3, <3>4 DEF IInv, SerialInv
  <2>8. StepInv'
    BY <1>1, <1>2, <2>1 DEF IInv, TypeOK, StepInv, AloneInv, Stepped, Call
  <2>9. AgreeInv'
    BY <1>1, <1>2, <2>1 DEF IInv, TypeOK, PhaseInv, AgreeInv, AtRest, Follows, Runs, Wanted, HasAdapter, Stepped
  <2>10. QED
    BY <2>2, <2>3, <2>4, <2>5, <2>6, <2>7, <2>8, <2>9 DEF IInv
<1>8. CASE /\ calls[c].op = "add"
           /\ ~(row.enabled /\ HasAdapter(row))
           /\ Leave(c, TRUE)
  <2>1. Left(c, TRUE)
    BY <1>1, <1>8, LeaveFacts
  <2>2. TypeOK'
    BY <1>1, <1>2, <1>3, <2>1 DEF IInv, TypeOK, Left, Idle
  <2>3. PhaseInv'
    BY <1>1, <2>1 DEF IInv, PhaseInv, Left
  <2>4. LockInv'
    BY <1>1, <1>2, <1>3, <2>1 DEF IInv, TypeOK, LockInv, Left, Idle
  <2>5. AloneInv'
    BY <1>0, <2>1 DEF IInv, AloneInv, Left, Idle
  <2>6. IdInv'
    BY <1>1, <1>2, <1>3, <1>4, <1>5, <2>1 DEF IInv, TypeOK, IdInv, Left, Idle
  <2>7. SerialInv'
    BY <1>1, <1>2, <1>3, <1>6, <2>1 DEF IInv, TypeOK, SerialInv, NeverAnothersCamera, Left, Idle
  <2>8. StepInv'
    BY <1>1, <1>2, <2>1 DEF IInv, TypeOK, StepInv, AloneInv, Left, Idle
  <2>9. AgreeInv'
    BY <1>1, <1>2, <1>3, <1>8, <2>1 DEF IInv, TypeOK, IdInv, PhaseInv, AgreeInv, AtRest, Follows, Runs, Wanted, HasAdapter, Left
  <2>10. QED
    BY <2>2, <2>3, <2>4, <2>5, <2>6, <2>7, <2>8, <2>9 DEF IInv
<1>9. QED
  BY <1>7, <1>8 DEF Commits

\* The last steps of requests that commit no new row.
LEMMA LeaveKeeps ==
  ASSUME IInv, NEW c \in Clients, NEW done \in BOOLEAN, NEW id \in Ids, id = calls[c].id,
         calls[c].step # "idle",
         Leave(c, done),
         UNCHANGED <<lastId, secret, phase, boot>>,
         NEW r \in {cameras[id], None}, r = cameras[id] \/ ~Locked,
         cameras' = [cameras EXCEPT ![id] = r],
         NEW w \in Worker \cup {None},
         \/ w \in {workers[id], None}
         \/ calls[c].step # "commit" /\ calls[c].row # None /\ w.row = calls[c].row,
         workers' = [workers EXCEPT ![id] = w],
         calls[c].alone /\ done => Follows(id)' /\ Runs(id)'
  PROVE  IInv'
<1>1. Left(c, done)
  BY LeaveFacts
<1>2. calls[c].row \in Row \cup {None}
  BY DEF IInv, TypeOK, Call
<1>3. /\ \A i \in Ids : cameras'[i] = IF i = id THEN r ELSE cameras[i]
      /\ \A i \in Ids : workers'[i] = IF i = id THEN w ELSE workers[i]
  BY DEF IInv, TypeOK
<1>4. TypeOK'
  BY <1>1, <1>2 DEF IInv, TypeOK, Worker, Left, Idle
<1>5. PhaseInv'
  BY <1>1 DEF IInv, PhaseInv, Left
<1>6. LockInv'
  BY <1>1, <1>3 DEF IInv, LockInv, Locked, Left, Idle
<1>7. AloneInv'
  <2>1. 0 \notin Ids
    BY DEF Ids
  <2>2. QED
    BY <1>1, <2>1 DEF IInv, AloneInv, Left, Idle
<1>8. IdInv'
  BY <1>1, <1>3 DEF IInv, IdInv, Left, Idle
<1>9. SerialInv'
  BY <1>1, <1>3 DEF IInv, SerialInv, NeverAnothersCamera, IdInv, Left, Idle
<1>10. StepInv'
  BY <1>1, <1>3 DEF IInv, StepInv, AloneInv, Left, Idle
<1>11. AgreeInv'
  BY <1>1, <1>3 DEF IInv, PhaseInv, AgreeInv, AtRest, Follows, Runs, Wanted, HasAdapter, Left
<1>12. QED
  BY <1>4, <1>5, <1>6, <1>7, <1>8, <1>9, <1>10, <1>11 DEF IInv

\* An INSERT without a port is undone; its id refers to nothing again.
LEMMA RollsBackKeeps ==
  ASSUME IInv, NEW c \in Clients, RollsBack(c)
  PROVE  IInv'
<1>1. /\ calls[c].step = "commit"
      /\ Leave(c, FALSE)
      /\ UNCHANGED <<cameras, lastId, workers, secret, phase, boot>>
  BY DEF RollsBack, processVars
<1>2. PICK id \in Ids : id = calls[c].id
  BY <1>1 DEF IInv, LockInv
<1>3. /\ cameras = [cameras EXCEPT ![id] = cameras[id]]
      /\ workers = [workers EXCEPT ![id] = workers[id]]
      /\ workers[id] \in Worker \cup {None}
  BY DEF IInv, TypeOK
<1>4. QED
  BY <1>1, <1>2, <1>3, LeaveKeeps

\* update_camera stops the worker of the older row, after its commit.
LEMMA UpdateStopsKeeps ==
  ASSUME IInv, NEW c \in Clients, UpdateStops(c)
  PROVE  IInv'
<1> DEFINE id == calls[c].id
           row == calls[c].row
<1>1. /\ calls[c].step = "stop"
      /\ workers' = [workers EXCEPT ![id] = None]
      /\ UNCHANGED <<cameras, lastId, secret, phase, boot>>
  BY DEF UpdateStops, processVars
<1>2. CASE Step(c, "start")
  <2>1. Stepped(c, "start") /\ id \in Ids
    BY <1>1, <1>2, StepFacts
  <2>2. TypeOK'
    <3>1. workers' \in [Ids -> Worker \cup {None}]
      BY <1>1 DEF IInv, TypeOK
    <3>2. \A d \in Clients : calls'[d].step \in {"commit", "stop", "start"} => calls'[d].row # None
      BY <1>1, <2>1 DEF IInv, TypeOK, Stepped, Call
    <3>3. QED
      BY <1>1, <2>1, <3>1, <3>2 DEF IInv, TypeOK, Stepped
  <2>3. PhaseInv'
    BY <1>1, <2>1 DEF IInv, PhaseInv, Stepped
  <2>4. LockInv'
    BY <1>1, <2>1 DEF IInv, TypeOK, LockInv, Stepped, Call
  <2>5. AloneInv'
    BY <2>1 DEF IInv, TypeOK, AloneInv, Stepped, Call
  <2>6. IdInv'
    BY <1>1, <2>1 DEF IInv, TypeOK, IdInv, Stepped, Call
  <2>7. SerialInv'
    BY <1>1, <2>1 DEF IInv, TypeOK, SerialInv, NeverAnothersCamera, IdInv, Stepped, Call
  <2>8. StepInv'
    BY <1>1, <2>1 DEF IInv, TypeOK, StepInv, Stepped, Call
  <2>9. AgreeInv'
    BY <1>1, <2>1 DEF IInv, TypeOK, AgreeInv, AtRest, Follows, Runs, Wanted, HasAdapter, Stepped
  <2>10. QED
    BY <2>2, <2>3, <2>4, <2>5, <2>6, <2>7, <2>8, <2>9 DEF IInv
<1>3. CASE /\ ~(row.enabled /\ HasAdapter(row) /\ row.key = secret)
           /\ Leave(c, TRUE)
  <2>1. PICK i \in Ids : i = calls[c].id
    BY <1>1 DEF IInv, LockInv
  <2>2. workers'[i] = None /\ cameras = [cameras EXCEPT ![i] = cameras[i]]
    BY <1>1, <2>1 DEF IInv, TypeOK
  <2>3. calls[c].alone => cameras[i] = row
    BY <1>1, <2>1 DEF IInv, StepInv
  <2>4. calls[c].alone => Follows(i)' /\ Runs(i)'
    BY <1>1, <1>3, <2>2, <2>3 DEF Follows, Runs, Wanted, HasAdapter
  <2>5. QED
    BY <1>1, <1>3, <2>1, <2>2, <2>4, LeaveKeeps
<1>4. QED
  BY <1>2, <1>3 DEF UpdateStops

\* The worker is started from the row the request holds; Popen may fail.
LEMMA StartsKeeps ==
  ASSUME IInv, NEW c \in Clients, Starts(c)
  PROVE  IInv'
<1> DEFINE row == calls[c].row
<1>1. /\ calls[c].step = "start"
      /\ UNCHANGED <<cameras, lastId, secret, phase, boot>>
  BY DEF Starts, processVars
<1>2. row # None /\ row \in Row
  BY <1>1 DEF IInv, TypeOK, Call
<1>3. PICK id \in Ids : id = calls[c].id
  BY <1>1 DEF IInv, LockInv
<1>4. PICK up \in BOOLEAN : /\ workers' = [workers EXCEPT ![id] = [row |-> row, up |-> up]]
                            /\ Leave(c, up)
  BY <1>3 DEF Starts
<1>5. /\ workers'[id] = [row |-> row, up |-> up]
      /\ [row |-> row, up |-> up] \in Worker
      /\ cameras = [cameras EXCEPT ![id] = cameras[id]]
  BY <1>2, <1>4 DEF IInv, TypeOK, Worker
<1>6. workers'[id] # None
  BY <1>5, NoneAssumption DEF Worker
<1>7. calls[c].alone => cameras[id] = row
  BY <1>1, <1>3 DEF IInv, StepInv
<1>8. calls[c].alone /\ up => Follows(id)' /\ Runs(id)'
  BY <1>1, <1>2, <1>5, <1>6, <1>7 DEF Follows, Runs
<1>9. PICK w \in Worker : w = [row |-> row, up |-> up]
  BY <1>5
<1>10. /\ w \in Worker \cup {None}
       /\ calls[c].step # "commit" /\ calls[c].row # None /\ w.row = calls[c].row
       /\ workers' = [workers EXCEPT ![id] = w]
  BY <1>1, <1>2, <1>4, <1>9
<1>11. /\ cameras' = [cameras EXCEPT ![id] = cameras[id]]
       /\ calls[c].step # "idle"
  BY <1>1, <1>5
<1>12. Leave(c, up) /\ UNCHANGED <<lastId, secret, phase, boot>>
  BY <1>1, <1>4
<1> HIDE DEF row
<1>13. QED
  BY <1>3, <1>8, <1>10, <1>11, <1>12, LeaveKeeps

\* The DELETE; a request alone has stopped the worker and finds it stopped.
LEMMA DeleteWritesKeeps ==
  ASSUME IInv, NEW c \in Clients, DeleteWrites(c)
  PROVE  IInv'
<1>1. /\ calls[c].step = "write"
      /\ ~Locked
      /\ Leave(c, TRUE)
      /\ UNCHANGED <<lastId, workers, secret, phase, boot>>
  BY DEF DeleteWrites, processVars
<1>2. PICK id \in Ids : id = calls[c].id
  BY <1>1 DEF IInv, LockInv
<1>3. /\ cameras' = [cameras EXCEPT ![id] = None]
      /\ cameras'[id] = None
      /\ workers = [workers EXCEPT ![id] = workers[id]]
      /\ workers[id] \in Worker \cup {None}
  BY <1>2 DEF DeleteWrites, IInv, TypeOK
<1>4. calls[c].alone => workers[id] = None
  BY <1>1, <1>2 DEF IInv, StepInv
<1>5. calls[c].alone => Follows(id)' /\ Runs(id)'
  BY <1>1, <1>3, <1>4 DEF Follows, Runs, Wanted
<1>6. QED
  BY <1>1, <1>2, <1>3, <1>5, LeaveKeeps

\* The DELETE that gives up: the camera is no longer settled.
LEMMA DeleteIsBusyKeeps ==
  ASSUME IInv, NEW c \in Clients, DeleteIsBusy(c)
  PROVE  IInv'
<1>1. /\ calls[c].step = "write"
      /\ Leave(c, FALSE)
      /\ UNCHANGED <<cameras, lastId, workers, secret, phase, boot>>
  BY DEF DeleteIsBusy, processVars
<1>2. PICK id \in Ids : id = calls[c].id
  BY <1>1 DEF IInv, LockInv
<1>3. /\ cameras = [cameras EXCEPT ![id] = cameras[id]]
      /\ workers = [workers EXCEPT ![id] = workers[id]]
      /\ workers[id] \in Worker \cup {None}
  BY DEF IInv, TypeOK
<1>4. QED
  BY <1>1, <1>2, <1>3, LeaveKeeps

-----------------------------------------------------------------------------
(* The process. *)

\* The process ends and takes its workers and open transactions with it.
LEMMA DiesKeeps ==
  ASSUME IInv, Dies
  PROVE  IInv'
<1>1. 0 \notin Ids
  BY DEF Ids
<1>2. /\ \A c \in Clients : calls'[c] = Idle
      /\ \A id \in Ids : workers'[id] = None
  BY DEF Dies, NoWorkers
<1>3. TypeOK'
  BY DEF Dies, NoWorkers, IInv, TypeOK, Call, Idle
<1>4. PhaseInv' /\ LockInv' /\ AloneInv' /\ StepInv'
  BY <1>2 DEF Dies, PhaseInv, LockInv, AloneInv, StepInv, Idle
<1>5. IdInv'
  BY <1>2 DEF Dies, IInv, IdInv, Idle
<1>6. SerialInv'
  BY <1>2 DEF Dies, SerialInv, NeverAnothersCamera, Idle
<1>7. AgreeInv'
  BY DEF Dies, AgreeInv, AtRest
<1>8. QED
  BY <1>3, <1>4, <1>5, <1>6, <1>7 DEF IInv

\* Startup reads the rows, perhaps with another secret.
LEMMA StartupReadsKeeps ==
  ASSUME IInv, StartupReads
  PROVE  IInv'
<1>1. /\ \A c \in Clients : calls[c] = Idle
      /\ \A id \in Ids : workers[id] = None
      /\ settled = {}
  BY DEF StartupReads, NoWorkers, IInv, PhaseInv
<1>2. TypeOK'
  BY DEF StartupReads, IInv, TypeOK
<1>3. PhaseInv' /\ LockInv' /\ AloneInv' /\ StepInv'
  BY <1>1 DEF StartupReads, IInv, PhaseInv, LockInv, AloneInv, StepInv, Idle
<1>4. IdInv' /\ SerialInv'
  BY DEF StartupReads, IInv, IdInv, SerialInv, NeverAnothersCamera
<1>5. AgreeInv'
  BY <1>1 DEF StartupReads, AgreeInv, AtRest, Follows, Runs, Wanted
<1>6. QED
  BY <1>2, <1>3, <1>4, <1>5 DEF IInv

\* Startup starts the worker of one row, or skips it.
LEMMA StartupCameraKeeps ==
  ASSUME IInv, NEW id \in Ids, StartupCamera(id)
  PROVE  IInv'
<1>1. /\ phase = "starting"
      /\ id \in boot
      /\ boot' = boot \ {id}
      /\ UNCHANGED <<cameras, lastId, calls, secret, phase, settled>>
  BY DEF StartupCamera, Skips
<1>2. /\ \A c \in Clients : calls[c] = Idle
      /\ settled = {}
      /\ cameras[id] \in Row
      /\ cameras[id] # None
  BY <1>1 DEF IInv, TypeOK, PhaseInv, AgreeInv
<1>3. \/ /\ ~Wanted(id)
         /\ workers' = workers
      \/ /\ workers' = [workers EXCEPT ![id] = [row |-> cameras[id], up |-> TRUE]]
  BY DEF StartupCamera, Wanted
<1>4. [row |-> cameras[id], up |-> TRUE] \in Worker /\ [row |-> cameras[id], up |-> TRUE] # None
  <2>1. [row |-> cameras[id], up |-> TRUE] \in Worker
    BY <1>2 DEF Worker
  <2>2. QED
    BY <2>1, NoneAssumption DEF Worker
<1>5. TypeOK'
  BY <1>1, <1>3, <1>4 DEF IInv, TypeOK
<1>6. PhaseInv' /\ LockInv' /\ AloneInv' /\ StepInv'
  <2>1. PhaseInv'
    BY <1>1, <1>2 DEF PhaseInv
  <2>2. LockInv' /\ AloneInv'
    BY <1>1 DEF IInv, LockInv, AloneInv
  <2>3. StepInv'
    BY <1>1, <1>2 DEF StepInv, Idle
  <2>4. QED
    BY <2>1, <2>2, <2>3
<1>7. \A i \in Ids : workers'[i] = workers[i] \/ (i = id /\ workers'[i] = [row |-> cameras[id], up |-> TRUE])
  BY <1>3 DEF IInv, TypeOK
<1>8. IdInv'
  BY <1>1, <1>2, <1>7 DEF IInv, IdInv, Idle
<1>9. SerialInv'
  BY <1>1, <1>2, <1>7 DEF IInv, SerialInv, NeverAnothersCamera, Idle
<1>10. AgreeInv'
  BY <1>1, <1>2, <1>3, <1>4, <1>7 DEF IInv, TypeOK, AgreeInv, AtRest, Follows, Runs, Wanted, HasAdapter
<1>11. QED
  BY <1>5, <1>6, <1>8, <1>9, <1>10 DEF IInv

\* Startup has passed every row.
LEMMA StartupDoneKeeps ==
  ASSUME IInv, StartupDone
  PROVE  IInv'
<1>1. \A c \in Clients : calls[c] = Idle
  BY DEF StartupDone, IInv, PhaseInv
<1>2. TypeOK'
  BY DEF StartupDone, IInv, TypeOK
<1>3. PhaseInv' /\ LockInv' /\ AloneInv' /\ StepInv'
  BY <1>1 DEF StartupDone, IInv, PhaseInv, LockInv, AloneInv, StepInv, Idle
<1>4. IdInv' /\ SerialInv'
  BY DEF StartupDone, IInv, IdInv, SerialInv, NeverAnothersCamera
<1>5. AgreeInv'
  BY DEF StartupDone, IInv, AgreeInv, AtRest, Follows, Runs, Wanted, HasAdapter
<1>6. QED
  BY <1>2, <1>3, <1>4, <1>5 DEF IInv

-----------------------------------------------------------------------------
(* Theorems. *)

\* The empty table satisfies the invariant.
LEMMA InitHolds == Init => IInv
<1> SUFFICES ASSUME Init PROVE IInv
  OBVIOUS
<1>1. /\ \A c \in Clients : calls[c] = Idle
      /\ \A id \in Ids : cameras[id] = None /\ workers[id] = None
      /\ 0 \notin Ids
  BY DEF Init, NoWorkers, Ids
<1>2. TypeOK
  BY DEF Init, NoWorkers, TypeOK, Call, Idle
<1>3. PhaseInv /\ LockInv /\ AloneInv /\ StepInv
  BY <1>1 DEF Init, PhaseInv, LockInv, AloneInv, StepInv, Idle
<1>4. IdInv /\ SerialInv
  BY <1>1, CamerasAssumption DEF Init, IdInv, SerialInv, NeverAnothersCamera, Idle
<1>5. AgreeInv
  BY <1>1 DEF Init, AgreeInv, AtRest
<1>6. QED
  BY <1>2, <1>3, <1>4, <1>5 DEF IInv

\* Every step keeps the invariant.
LEMMA NextKeeps == IInv /\ [Next]_vars => IInv'
<1> SUFFICES ASSUME IInv, [Next]_vars PROVE IInv'
  OBVIOUS
<1>1. ASSUME NEW c \in Clients, Request(c) PROVE IInv'
  BY <1>1, AddInsertsKeeps, UpdateWritesKeeps, DeleteStopsKeeps, TestReadsKeeps, CommitsKeeps, RollsBackKeeps,
     UpdateStopsKeeps, StartsKeeps, DeleteWritesKeeps, DeleteIsBusyKeeps DEF Request
<1>2. CASE Process
  BY <1>2, StartupReadsKeeps, StartupCameraKeeps, StartupDoneKeeps, DiesKeeps
     DEF Process, StartupFails, Shutdown, Killed
<1>3. CASE UNCHANGED vars
  <2>1. UNCHANGED <<cameras, lastId, workers, calls, secret, phase, boot, settled>>
    BY <1>3 DEF vars
  <2>2. TypeOK' /\ PhaseInv' /\ LockInv' /\ AloneInv'
    BY <2>1 DEF IInv, TypeOK, PhaseInv, LockInv, AloneInv
  <2>3. IdInv' /\ SerialInv' /\ StepInv'
    BY <2>1 DEF IInv, IdInv, SerialInv, NeverAnothersCamera, StepInv
  <2>4. AgreeInv'
    BY <2>1 DEF IInv, AgreeInv, AtRest, Quiet, Follows, Runs, Wanted, HasAdapter
  <2>5. QED
    BY <2>2, <2>3, <2>4 DEF IInv
<1>4. QED
  BY <1>1, <1>2, <1>3 DEF Next

\* The inductive invariant holds for any number of clients, cameras and secrets.
THEOREM Invariance == Spec => []IInv
BY InitHolds, NextKeeps, PTL DEF Spec

\* Table, workers and requests keep their types, whatever is killed or restarted.
THEOREM TypeCorrect == Spec => []TypeOK
<1>1. IInv => TypeOK
  BY DEF IInv
<1>2. QED
  BY <1>1, Invariance, PTL

\* For any number of clients whose requests overlap in any way, and any number
\* of restarts, a camera's ports never serve a camera that had the id before.
THEOREM WorkerIsOfItsCamera == Spec => []NeverAnothersCamera
<1>1. IInv => NeverAnothersCamera
  BY DEF IInv, SerialInv
<1>2. QED
  BY <1>1, Invariance, PTL

\* After a request that ran alone, and after a restart, worker and row agree.
THEOREM WorkerAgrees == Spec => []WorkerFollowsRow
<1>1. IInv => WorkerFollowsRow
  BY DEF IInv, AgreeInv, WorkerFollowsRow, Follows
<1>2. QED
  BY <1>1, Invariance, PTL

\* And an enabled camera then has its session.
THEOREM EnabledRuns == Spec => []EnabledCameraRuns
<1>1. IInv => EnabledCameraRuns
  BY DEF IInv, AgreeInv, EnabledCameraRuns, Runs, Wanted
<1>2. QED
  BY <1>1, Invariance, PTL
=============================================================================
