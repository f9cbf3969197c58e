------------------------------ MODULE CameraApi ------------------------------
(***************************************************************************)
(* The camera endpoints and the startup of app/main.py: requests that      *)
(* change a row of the cameras table in one transaction and the camera's   *)
(* worker in separate calls of the P2PManager, in threads of their own.    *)
(*                                                                         *)
(* start and stop hold the camera's lifecycle lock from beginning to end   *)
(* (P2PManager), so that each is one step here; a worker is the row it was *)
(* started with.  A step that changes nothing before it fails, such as a   *)
(* request that is refused, is a step that is not taken.                   *)
(***************************************************************************)
EXTENDS Naturals, FiniteSets

CONSTANTS
  Clients,     \* threads that serve requests
  Serials,     \* serial numbers of cameras
  Supported,   \* those of a vendor with a P2P adapter, dahua or policetech
  Logins,      \* what else of a row its worker uses: user name and password
  Secrets,     \* values of APP_SECRET_KEY
  Short,       \* one of less than 24 characters: cipher() raises
  MaxCameras,  \* P2PManager.max_cameras
  SpawnFails,  \* TRUE if Popen may raise an OSError
  None         \* no row, no worker

ASSUME CamerasAssumption == MaxCameras \in Nat \ {0}
ASSUME SupportedAssumption == Supported \subseteq Serials
ASSUME SpawnAssumption == SpawnFails \in BOOLEAN
ASSUME ShortAssumption == Short \notin Secrets

\* port_for raises a ValueError for an id beyond the ports.
HasPort(id) == id <= MaxCameras

\* The ids that have a port and one more, of a row that will be rolled back.
Ids == 1 .. MaxCameras + 1

Row == [serial : Serials, login : Logins, enabled : BOOLEAN, key : Secrets]

ASSUME NoneAssumption == None \notin Row \cup [row : Row, up : BOOLEAN]

VARIABLES
  cameras,  \* the committed rows of the table, by id
  lastId,   \* the id of the last committed INSERT (sqlite_sequence)
  workers,  \* P2PManager._workers: the row a worker has, and if its session was launched
  calls,    \* the request each thread serves
  secret,   \* APP_SECRET_KEY of the running process
  phase,    \* of the process
  boot,     \* the rows startup has not come to
  settled   \* history: ids whose last request ran alone and was carried out

vars == <<cameras, lastId, workers, calls, secret, phase, boot, settled>>
processVars == <<secret, phase, boot>>

Idle == [op |-> "none", step |-> "idle", id |-> 0, row |-> None, alone |-> FALSE]

Call == [op : {"none", "add", "update", "delete", "test"},
         step : {"idle", "commit", "stop", "start", "write"},
         id : Ids \cup {0}, row : Row \cup {None}, alone : BOOLEAN]

Worker == [row : Row, up : BOOLEAN]

TypeOK ==
  /\ cameras \in [Ids -> Row \cup {None}]
  /\ lastId \in Nat
  /\ workers \in [Ids -> Worker \cup {None}]
  /\ calls \in [Clients -> Call]
  /\ \A c \in Clients : calls[c].step \in {"commit", "stop", "start"} => calls[c].row # None
  /\ secret \in Secrets \cup {Short}
  /\ phase \in {"down", "starting", "serving"}
  /\ boot \subseteq Ids
  /\ settled \subseteq Ids

NoWorkers == [id \in Ids |-> None]

Init ==
  /\ cameras = [id \in Ids |-> None]
  /\ lastId = 0
  /\ workers = NoWorkers
  /\ calls = [c \in Clients |-> Idle]
  /\ secret = Short
  /\ phase = "down"
  /\ boot = {}
  /\ settled = {}

-----------------------------------------------------------------------------
(* Requests. *)

Quiet(id) == \A c \in Clients : calls[c].id # id

\* The request of c is the first thing it does about the camera.
Enter(c, op, step, id, row) ==
  /\ phase = "serving"
  /\ calls[c] = Idle
  /\ calls' = [d \in Clients |->
       IF d = c THEN [op |-> op, step |-> step, id |-> id, row |-> row, alone |-> Quiet(id)]
       ELSE [calls[d] EXCEPT !.alone = @ /\ calls[d].id # id]]
  /\ settled' = IF Quiet(id) THEN settled ELSE settled \ {id}

\* It returns; done says whether all of it was carried out.
Leave(c, done) ==
  /\ calls' = [calls EXCEPT ![c] = Idle]
  /\ settled' = IF done /\ calls[c].alone THEN settled \cup {calls[c].id}
                ELSE settled \ {calls[c].id}

Step(c, step) == calls' = [calls EXCEPT ![c].step = step] /\ UNCHANGED settled

\* A transaction that has written keeps the others from writing until it ends.
Locked == \E c \in Clients : calls[c].step = "commit"

HasAdapter(row) == row.serial \in Supported

\* Mutant: an id that is free again is given again.
LowestUnused == {id \in Ids : cameras[id] = None /\ \A i \in 1 .. id - 1 : cameras[i] # None}

\* AUTOINCREMENT, also when the new row will have no port.
NewIds == {lastId + 1}

\* INSERT: the serial is UNIQUE, the password encrypted under the secret.
AddInserts(c) ==
  /\ ~Locked
  /\ \E id \in NewIds, row \in Row :
       /\ row.key = secret
       /\ \A i \in Ids : cameras[i] # None => cameras[i].serial # row.serial
       /\ Enter(c, "add", "commit", id, row)
  /\ UNCHANGED <<cameras, lastId, workers, processVars>>

\* The rows a PATCH can make of a row; a new password is encrypted anew.
Patched(row) == {new \in Row : new.serial = row.serial /\ new.key \in {row.key, secret}}

UpdateWrites(c, id) ==
  /\ ~Locked
  /\ cameras[id] # None
  /\ \E row \in Patched(cameras[id]) : Enter(c, "update", "commit", id, row)
  /\ UNCHANGED <<cameras, lastId, workers, processVars>>

\* The end of the with block of add_camera and update_camera.
Commits(c) ==
  /\ calls[c].step = "commit"
  /\ cameras' = [cameras EXCEPT ![calls[c].id] = calls[c].row]
  /\ \/ /\ calls[c].op = "add"
        /\ HasPort(calls[c].id)
        /\ lastId' = calls[c].id
        /\ IF calls[c].row.enabled /\ HasAdapter(calls[c].row)
           THEN Step(c, "start") ELSE Leave(c, TRUE)
     \/ /\ calls[c].op = "update"
        /\ Step(c, "stop")
        /\ UNCHANGED lastId
  /\ UNCHANGED <<workers, processVars>>

\* public_camera asks for the ports of the row just inserted: the ValueError
\* leaves the with block, the connection is closed and takes the row and the
\* count of AUTOINCREMENT back.
RollsBack(c) ==
  /\ calls[c].step = "commit"
  /\ calls[c].op = "add"
  /\ ~HasPort(calls[c].id)
  /\ Leave(c, FALSE)
  /\ UNCHANGED <<cameras, lastId, workers, processVars>>

\* Mutant: a camera that was disabled keeps its worker.
StopsIfEnabled(c) ==
  /\ calls[c].step = "stop"
  /\ IF calls[c].row.enabled /\ HasAdapter(calls[c].row) /\ calls[c].row.key = secret
     THEN workers' = [workers EXCEPT ![calls[c].id] = None] /\ Step(c, "start")
     ELSE Leave(c, TRUE) /\ UNCHANGED workers
  /\ UNCHANGED <<cameras, lastId, processVars>>

\* update_camera stops the worker; a password that cannot be decrypted ends it here.
UpdateStops(c) ==
  /\ calls[c].step = "stop"
  /\ workers' = [workers EXCEPT ![calls[c].id] = None]
  /\ IF calls[c].row.enabled /\ HasAdapter(calls[c].row) /\ calls[c].row.key = secret
     THEN Step(c, "start") ELSE Leave(c, TRUE)
  /\ UNCHANGED <<cameras, lastId, processVars>>

\* start of the manager, which leaves a worker behind when Popen raises.
Starts(c) ==
  /\ calls[c].step = "start"
  /\ \E up \in BOOLEAN :
       /\ ~up => SpawnFails
       /\ workers' = [workers EXCEPT ![calls[c].id] = [row |-> calls[c].row, up |-> up]]
       /\ Leave(c, up)
  /\ UNCHANGED <<cameras, lastId, processVars>>

DeleteStops(c, id) ==
  /\ Enter(c, "delete", "write", id, None)
  /\ workers' = [workers EXCEPT ![id] = None]
  /\ UNCHANGED <<cameras, lastId, processVars>>

\* DELETE of a row, or 404 if there is none.
DeleteWrites(c) ==
  /\ calls[c].step = "write"
  /\ ~Locked
  /\ cameras' = [cameras EXCEPT ![calls[c].id] = None]
  /\ Leave(c, TRUE)
  /\ UNCHANGED <<lastId, workers, processVars>>

\* "database is locked": another camera's transaction lasts longer than the
\* five seconds sqlite3 waits, for it waits for the manager's lock itself.
DeleteIsBusy(c) ==
  /\ calls[c].step = "write"
  /\ Locked
  /\ Leave(c, FALSE)
  /\ UNCHANGED <<cameras, lastId, workers, processVars>>

\* Mutant: the answer 404 is left out.
TestsWhatever(c, id) ==
  /\ Enter(c, "test", "start", id, cameras[id])
  /\ UNCHANGED <<cameras, lastId, workers, processVars>>

\* test_camera starts a disabled camera too.
TestReads(c, id) ==
  /\ cameras[id] # None
  /\ HasAdapter(cameras[id])
  /\ cameras[id].key = secret
  /\ Enter(c, "test", "start", id, cameras[id])
  /\ UNCHANGED <<cameras, lastId, workers, processVars>>

-----------------------------------------------------------------------------
(* The process. *)

\* Every session ends with the container; a transaction is rolled back.
Dies ==
  /\ phase' = "down"
  /\ workers' = NoWorkers
  /\ calls' = [c \in Clients |-> Idle]
  /\ boot' = {}
  /\ settled' = {}
  /\ UNCHANGED <<cameras, lastId, secret>>

\* shutdown, when the last request has been answered.
Shutdown ==
  /\ phase = "serving"
  /\ \A c \in Clients : calls[c] = Idle
  /\ Dies

Killed == phase # "down" /\ Dies

\* startup reads the enabled rows; the operator may have changed the secret.
StartupReads ==
  /\ phase = "down"
  /\ phase' = "starting"
  /\ secret' \in Secrets \cup {Short}
  /\ boot' = {id \in Ids : cameras[id] # None /\ cameras[id].enabled}
  /\ UNCHANGED <<cameras, lastId, workers, calls, settled>>

\* Mutant: one row that cannot be decrypted ends the loop.
SkipsTheRest(id) == boot' = {}

\* InvalidToken and ValueError are caught for each row.
Skips(id) == boot' = boot \ {id}

StartupCamera(id) ==
  /\ phase = "starting"
  /\ id \in boot
  /\ secret # Short
  /\ IF cameras[id].key = secret /\ HasAdapter(cameras[id])
     THEN /\ workers' = [workers EXCEPT ![id] = [row |-> cameras[id], up |-> TRUE]]
          /\ boot' = boot \ {id}
     ELSE Skips(id) /\ UNCHANGED workers
  /\ UNCHANGED <<cameras, lastId, calls, secret, phase, settled>>

\* HTTPException for the secret and OSError are not: the process ends.
StartupFails ==
  /\ phase = "starting"
  /\ boot # {}
  /\ secret = Short \/ SpawnFails
  /\ Dies

StartupDone ==
  /\ phase = "starting"
  /\ boot = {}
  /\ phase' = "serving"
  /\ settled' = Ids
  /\ UNCHANGED <<cameras, lastId, workers, calls, secret, boot>>

-----------------------------------------------------------------------------
Request(c) ==
  \/ AddInserts(c)
  \/ \E id \in Ids : UpdateWrites(c, id) \/ DeleteStops(c, id) \/ TestReads(c, id)
  \/ Commits(c)
  \/ RollsBack(c)
  \/ UpdateStops(c)
  \/ Starts(c)
  \/ DeleteWrites(c)
  \/ DeleteIsBusy(c)

Process ==
  \/ StartupReads
  \/ \E id \in Ids : StartupCamera(id)
  \/ StartupFails
  \/ StartupDone
  \/ Shutdown
  \/ Killed

Next == (\E c \in Clients : Request(c)) \/ Process

Spec == Init /\ [][Next]_vars

-----------------------------------------------------------------------------
(* Properties. *)

\* However requests overlap, the worker on a camera's ports is never that of
\* another camera, deleted before: ids and with them ports are not reused, so
\* that a late start of a deleted camera cannot take over a later camera.
NeverAnothersCamera ==
  \A id \in Ids : cameras[id] # None /\ workers[id] # None =>
    workers[id].row.serial = cameras[id].serial

AtRest(id) == phase = "serving" /\ Quiet(id) /\ id \in settled

\* A worker has the credentials of the committed row and none runs for a
\* deleted or disabled camera that was not tested since, once a request that
\* did not overlap with another one on the same camera has been carried out, or
\* the process has been restarted.
WorkerFollowsRow ==
  \A id \in Ids : AtRest(id) /\ workers[id] # None =>
    cameras[id] # None /\ workers[id].row = cameras[id]

\* An enabled camera whose password can be decrypted then has its session,
\* whatever became of the other cameras at startup.
EnabledCameraRuns ==
  \A id \in Ids :
    /\ AtRest(id)
    /\ cameras[id] # None
    /\ cameras[id].enabled
    /\ HasAdapter(cameras[id])
    /\ cameras[id].key = secret
    => workers[id] # None /\ workers[id].up
=============================================================================
