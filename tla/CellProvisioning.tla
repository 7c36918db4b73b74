--------------------------- MODULE CellProvisioning ---------------------------
(***************************************************************************)
(* The life cycle of a tenant's agent cell: provision_cell and             *)
(* deprovision_cell (workers/provision_cell.py), restart_cell              *)
(* (api/v1/cells.py), the fleet CLI they drive (services/fleet_cli.py) and *)
(* the agent_cells row they keep.                                          *)
(*                                                                         *)
(* Three things are updated by one request: the row, the config files in   *)
(* the fleet's directory, and the container.  A lock of the server process *)
(* spans the fleet calls of a provisioning; the transaction commits after  *)
(* the lock is released; a restart by a platform admin takes no lock.      *)
(* A request blocks at its flush while another one holds the row.          *)
(***************************************************************************)
EXTENDS Integers

CONSTANTS
  Orgs, Requests, Processes,
  ProcessOf,       \* the server process that serves a request
  Restartable,     \* orgs whose cell platform admins restart
  Retirable,       \* orgs whose cell is deprovisioned (no route does, yet)
  Faults,          \* which failures of an org's requests are considered
  MaxRevision, MaxVersion,  \* bounds, for each org
  NoRequest

ASSUME ProcessAssumption ==
  /\ ProcessOf \in [Requests -> Processes]
  /\ NoRequest \notin Requests
ASSUME OrgsAssumption ==
  Restartable \subseteq Orgs /\ Retirable \subseteq Orgs
ASSUME FaultsAssumption == Faults \in [Orgs -> SUBSET {"cli", "timeout", "disk", "cut", "crash"}]
ASSUME BoundsAssumption == MaxRevision \in [Orgs -> Nat] /\ MaxVersion \in [Orgs -> Nat]

VARIABLES
  cells,      \* the agent_cells table, as committed
  settings,   \* revision of what is rendered for an org; 0: no mailbox yet
  fleet,      \* the container of a tenant
  files,      \* the revision of each config file on disk; 0: fleet's default
  loaded,     \* what the gateway read when the container last started
  lock,       \* who holds _provision_lock in each process
  requests

vars == <<cells, settings, fleet, files, loaded, lock, requests>>
host == <<fleet, files, loaded>>

NoCell == [status |-> "none"]
CellRow == [status : {"provisioning", "running", "error", "deprovisioned"},
            version : Nat \ {0}]

\* A file that a write has left incomplete is of no revision.
Cut == -1
Revision == Nat \union {Cut}
Config == [config : Revision, vips : Revision]

Idle == [step |-> "idle"]
\* seen: the status the session loaded; status: the one it is about to write.
Job == [step : {"create", "write_config", "write_vips", "insert", "start",
                "restart", "remove", "flush", "commit"},
        kind : {"create", "update", "restart", "remove"},
        org : Orgs, revision : Nat, version : Nat \ {0},
        seen : {"none", "provisioning", "running", "error", "deprovisioned"},
        status : {"provisioning", "running", "error", "deprovisioned"}]

TypeOK ==
  /\ cells \in [Orgs -> CellRow \union {NoCell}]
  /\ settings \in [Orgs -> Nat]
  /\ fleet \in [Orgs -> {"none", "created", "running"}]
  /\ files \in [Orgs -> Config]
  /\ loaded \in [Orgs -> Config]
  /\ lock \in [Processes -> Requests \union {NoRequest}]
  /\ requests \in [Requests -> Job \union {Idle}]

Init ==
  /\ cells = [o \in Orgs |-> NoCell]
  /\ settings = [o \in Orgs |-> 0]
  /\ fleet = [o \in Orgs |-> "none"]
  /\ files = [o \in Orgs |-> [config |-> 0, vips |-> 0]]
  /\ loaded = files
  /\ lock = [p \in Processes |-> NoRequest]
  /\ requests = [r \in Requests |-> Idle]

\* A mailbox is connected, a skill toggled or a VIP rule changed.
ChangeSettings(o) ==
  /\ settings[o] < MaxRevision[o]
  /\ settings' = [settings EXCEPT ![o] = @ + 1]
  /\ UNCHANGED <<cells, host, lock, requests>>

------------------------------------------------------------------------------
(* The lock and the steps of a request.                                     *)

\* Mistakes to catch: provisioning goes ahead without the lock; a request that
\* ends does not release it.
NeedsNoLock(r) == TRUE
StillLocked(r) == lock
LockFree(r) == lock[ProcessOf[r]] = NoRequest

Unlocked(r) ==
  [lock EXCEPT ![ProcessOf[r]] = IF @ = r THEN NoRequest ELSE @]

Goto(r, step) == requests' = [requests EXCEPT ![r].step = step]

Active(p) == {r \in Requests : ProcessOf[r] = p /\ requests[r] # Idle}
Fails(fault, r) == fault \in Faults[requests[r].org]

\* The request leaves with nothing to commit: an exception rolls back.
GiveUp(r) ==
  /\ requests' = [requests EXCEPT ![r] = Idle]
  /\ lock' = Unlocked(r)

\* A session that has flushed a write to the row keeps the others out of it.
HoldsRow(r, o) ==
  /\ requests[r] # Idle
  /\ requests[r].org = o
  /\ \/ requests[r].step = "commit"
     \/ requests[r].kind = "create" /\ requests[r].step \in {"start", "flush"}

RowFree(r) == \A s \in Requests \ {r} : ~HoldsRow(s, requests[r].org)

------------------------------------------------------------------------------
(* Reading: the lock, the row and, for a provisioning, the rendered config. *)

\* A mistake to catch: versions are counted from zero.
ZeroVersion == 0
FirstVersion == 1

ProvisionRead(r, o) ==
  /\ requests[r] = Idle
  /\ LockFree(r)
  /\ settings[o] > 0
  /\ \/ /\ cells[o] = NoCell
        /\ requests' = [requests EXCEPT ![r] =
             [step |-> "create", kind |-> "create", org |-> o,
              revision |-> settings[o], version |-> FirstVersion,
              seen |-> "none", status |-> "provisioning"]]
     \/ /\ cells[o] # NoCell
        /\ cells[o].version < MaxVersion[o]
        /\ requests' = [requests EXCEPT ![r] =
             [step |-> "write_config", kind |-> "update", org |-> o,
              revision |-> settings[o], version |-> cells[o].version + 1,
              seen |-> cells[o].status, status |-> cells[o].status]]
  /\ lock' = [lock EXCEPT ![ProcessOf[r]] = r]
  /\ UNCHANGED <<cells, settings, host>>

\* restart_cell and deprovision_cell start from an existing row.
CellJob(r, o, kind) ==
  /\ requests[r] = Idle
  /\ cells[o] # NoCell
  /\ requests' = [requests EXCEPT ![r] =
       [step |-> kind, kind |-> kind, org |-> o, revision |-> 0,
        version |-> cells[o].version, seen |-> cells[o].status,
        status |-> cells[o].status]]
  /\ UNCHANGED <<cells, settings, host>>

RestartRead(r, o) ==
  /\ o \in Restartable
  /\ CellJob(r, o, "restart")
  /\ UNCHANGED lock

DeprovisionRead(r, o) ==
  /\ o \in Retirable
  /\ LockFree(r)
  /\ CellJob(r, o, "remove")
  /\ lock' = [lock EXCEPT ![ProcessOf[r]] = r]

------------------------------------------------------------------------------
(* Staging the rendered files, one after the other, and the INSERT of a new *)
(* row (org_id is unique).                                                  *)

WriteConfig(r) ==
  /\ requests[r].step = "write_config"
  /\ files' = [files EXCEPT ![requests[r].org].config = requests[r].revision]
  /\ Goto(r, "write_vips")
  /\ UNCHANGED <<cells, settings, fleet, loaded, lock>>

WriteVips(r) ==
  /\ requests[r].step = "write_vips"
  /\ files' = [files EXCEPT ![requests[r].org].vips = requests[r].revision]
  /\ Goto(r, IF requests[r].kind = "create" THEN "insert" ELSE "restart")
  /\ UNCHANGED <<cells, settings, fleet, loaded, lock>>

Writing(r) == requests[r].step \in {"write_config", "write_vips"}

\* write_text truncates the file before it writes.
CutOff(r) ==
  /\ Writing(r)
  /\ Fails("cut", r)
  /\ files' = [files EXCEPT ![requests[r].org] =
       IF requests[r].step = "write_config" THEN [@ EXCEPT !.config = Cut]
       ELSE [@ EXCEPT !.vips = Cut]]

DiskFails(r) ==
  /\ Writing(r)
  /\ Fails("disk", r)
  /\ CutOff(r) \/ UNCHANGED files
  /\ GiveUp(r)
  /\ UNCHANGED <<cells, settings, fleet, loaded>>

InsertRow(r) ==
  /\ requests[r].step = "insert"
  /\ RowFree(r)
  /\ \/ /\ cells[requests[r].org] = NoCell
        /\ Goto(r, "start")
        /\ UNCHANGED lock
     \/ /\ cells[requests[r].org] # NoCell
        /\ GiveUp(r)
  /\ UNCHANGED <<cells, settings, host>>

------------------------------------------------------------------------------
(* The fleet CLI: what a subcommand does to the container, and how it ends. *)
(* create seeds fleet's own config; start and restart make the gateway read *)
(* the files; an unknown cell, and a second create, are refused.            *)

FleetSteps == {"create", "start", "restart", "remove"}
InFleet(r) == requests[r].step \in FleetSteps

Allowed(r) == (requests[r].step = "create") <=> (fleet[requests[r].org] = "none")

FleetEffect(r) ==
  LET o == requests[r].org
      step == requests[r].step
  IN /\ Allowed(r)
     /\ fleet' = [fleet EXCEPT ![o] = CASE step = "create" -> "created"
                                        [] step = "remove" -> "none"
                                        [] OTHER -> "running"]
     /\ files' = [files EXCEPT ![o] = IF step = "create" THEN [config |-> 0, vips |-> 0] ELSE @]
     /\ loaded' = [loaded EXCEPT ![o] = IF step \in {"start", "restart"} THEN files[o] ELSE @]

\* A mistake to catch: a new cell is started before its files are staged.
StartAtOnce(r) == IF requests[r].step = "create" THEN "insert" ELSE "flush"
AfterFleet(r) == IF requests[r].step = "create" THEN "write_config" ELSE "flush"

FleetOk(r) ==
  /\ InFleet(r)
  /\ FleetEffect(r)
  /\ requests' = [requests EXCEPT
       ![r].step = AfterFleet(r),
       ![r].status = CASE requests[r].step = "create" -> @
                       [] requests[r].step = "remove" -> "deprovisioned"
                       [] OTHER -> "running"]
  /\ UNCHANGED <<cells, settings, lock>>

\* FleetCliError.  A failed create leaves nothing to write; after a failed
\* start or restart the route answers 502 and still commits: the new row as
\* "provisioning", a new config version, or, for restart_cell, "error".  A
\* cell that fails to restart may be left stopped.
FleetFails(r) ==
  /\ InFleet(r)
  /\ Fails("cli", r) \/ ~Allowed(r)
  /\ lock' = Unlocked(r)
  /\ requests' = [requests EXCEPT ![r] =
       IF requests[r].step \in {"create", "remove"} THEN Idle
       ELSE [requests[r] EXCEPT
               !.step = "flush",
               !.status = IF requests[r].kind = "restart" THEN "error" ELSE requests[r].status]]
  /\ \/ UNCHANGED fleet
     \/ /\ requests[r].step = "restart" /\ fleet[requests[r].org] = "running"
        /\ fleet' = [fleet EXCEPT ![requests[r].org] = "created"]
  /\ UNCHANGED <<cells, settings, files, loaded>>

\* subprocess.TimeoutExpired is no FleetCliError: the session rolls back,
\* whatever the subcommand did before it was killed.
FleetTimesOut(r) ==
  /\ InFleet(r)
  /\ Fails("timeout", r)
  /\ FleetEffect(r) \/ UNCHANGED host
  /\ GiveUp(r)
  /\ UNCHANGED <<cells, settings>>

FleetEnds(r) == FleetOk(r) \/ FleetFails(r) \/ FleetTimesOut(r)

------------------------------------------------------------------------------
(* The end of a request: the writes reach the row, the lock is released,    *)
(* and only then the transaction commits.  The UPDATE names the columns     *)
(* whose value differs from the loaded one.                                 *)

Flush(r) ==
  /\ requests[r].step = "flush"
  /\ RowFree(r)
  /\ Goto(r, "commit")
  /\ lock' = Unlocked(r)
  /\ UNCHANGED <<cells, settings, host>>

Written(j, row) ==
  IF j.kind = "create" THEN [status |-> j.status, version |-> j.version]
  ELSE [status |-> IF j.status = j.seen THEN row.status ELSE j.status,
        version |-> IF j.kind = "update" THEN j.version ELSE row.version]

Commit(r) ==
  LET j == requests[r]
  IN /\ j.step = "commit"
     /\ cells' = [cells EXCEPT ![j.org] = Written(j, @)]
     /\ requests' = [requests EXCEPT ![r] = Idle]
     /\ UNCHANGED <<settings, host, lock>>

Crash(p) ==
  /\ Active(p) # {} /\ \A r \in Active(p) : Fails("crash", r)
  /\ requests' = [r \in Requests |-> IF ProcessOf[r] = p THEN Idle ELSE requests[r]]
  /\ lock' = [lock EXCEPT ![p] = NoRequest]
  /\ UNCHANGED files \/ \E r \in Active(p) : CutOff(r)
  /\ UNCHANGED <<cells, settings, fleet, loaded>>

------------------------------------------------------------------------------
Stage(r) == WriteConfig(r) \/ WriteVips(r)

Next ==
  \/ \E o \in Orgs : ChangeSettings(o)
  \/ \E r \in Requests :
       \/ \E o \in Orgs : ProvisionRead(r, o) \/ RestartRead(r, o) \/ DeprovisionRead(r, o)
       \/ Stage(r)
       \/ InsertRow(r)
       \/ DiskFails(r)
       \/ FleetEnds(r)
       \/ Flush(r)
       \/ Commit(r)
  \/ \E p \in Processes : Crash(p)

Spec == Init /\ [][Next]_vars

\* A request under way goes on: the threads run, and a fleet call returns or is
\* killed after 120 seconds.  PostgreSQL queues the sessions that wait for a
\* row, so one that keeps finding it taken still gets it in the end.
Fairness ==
  \A r \in Requests :
    /\ WF_vars(Stage(r) \/ FleetEnds(r) \/ Commit(r))
    /\ SF_vars(InsertRow(r) \/ Flush(r))

FairSpec == Spec /\ Fairness

------------------------------------------------------------------------------
(* Properties                                                               *)

\* "callers MUST serialize concurrent `fleet` invocations against the same
\* host" (fleet_cli.py): the lock sees to it for all but restart_cell, which
\* calls fleet without it.
OnlyRestartsOverlap ==
  \A r, s \in Requests :
    InFleet(r) /\ InFleet(s) /\ r # s =>
      requests[r].kind = "restart" \/ requests[s].kind = "restart"

\* The gateway never runs with the config fleet seeds, which knows nothing of
\* the tenant: the files are staged before the first start (provision_cell).
\* Nor does it run with a file that a failed write has left incomplete, unless
\* an admin restarts it before the next provisioning writes the file again.
NeverDefaultConfig ==
  \A o \in Orgs :
    fleet[o] = "running" =>
      /\ loaded[o].config # 0 /\ loaded[o].vips # 0
      /\ o \notin Restartable => loaded[o].config # Cut /\ loaded[o].vips # Cut

\* The two files a gateway reads were rendered together, unless an admin's
\* restart came in between.
ConfigNotTorn ==
  \A o \in Orgs \ Restartable :
    fleet[o] = "running" => loaded[o].config = loaded[o].vips

RunningHasCell(o) ==
  Faults[o] \intersect {"timeout", "crash"} = {} /\ cells[o].status = "running" =>
    \/ fleet[o] # "none"
    \/ \E r \in Requests :
         requests[r] # Idle /\ requests[r].org = o /\ requests[r].kind = "remove"

DeprovisionedHasNoCell(o) == cells[o].status = "deprovisioned" => fleet[o] = "none"

\* A row says "running" only while fleet has the cell or its removal is under
\* way, and "deprovisioned" only when fleet has none (provision_cell,
\* deprovision_cell), unless an admin's restart writes what it saw earlier, or
\* the removal is cut off.
RowMatchesFleet ==
  \A o \in Orgs \ Restartable : RunningHasCell(o) /\ DeprovisionedHasNoCell(o)

ConfigGoesOn(o) ==
  \/ loaded'[o].config >= loaded[o].config
  \/ o \in Restartable /\ loaded'[o].config = Cut

VersionGoesOn(o) ==
  "cli" \notin Faults[o] /\ cells[o] # NoCell /\ fleet[o] # "none" =>
    cells'[o].version >= cells[o].version

\* A gateway that is started again never reads an older config than the one it
\* had, unless an admin restarts it on a file cut off in between, and while fleet
\* has the cell its config version never goes down, also when two provisionings
\* that read the same version commit one after the other: they render, stage and
\* restart in turn.  A provisioning whose restart failed, or was refused because
\* the cell had been removed, commits late and may take the version down.
NeverGoesBack == [][\A o \in Orgs : ConfigGoesOn(o) /\ VersionGoesOn(o)]_vars

\* The lock is always released: no holder waits for ever, not for the row of a
\* session that has yet to commit, not after a failed call.
LockIsReleased ==
  \A p \in Processes : lock[p] # NoRequest ~> lock[p] = NoRequest
==============================================================================
