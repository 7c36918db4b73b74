------------------------ MODULE CellProvisioningProofs ------------------------
(***************************************************************************)
(* Proofs about the life cycle of cells, for any number of orgs, requests, *)
(* settings and versions and for every choice of faults.                   *)
(***************************************************************************)
EXTENDS CellProvisioning, TLAPS

------------------------------------------------------------------------------
(* Types.                                                                   *)

Statuses == {"provisioning", "running", "error", "deprovisioned"}

LEMMA CellRows ==
  ASSUME NEW c \in CellRow \union {NoCell}, c # NoCell
  PROVE  /\ c \in CellRow /\ c.version \in Nat \ {0} /\ c.status \in Statuses
         /\ c.version + 1 \in Nat \ {0}
  BY DEF CellRow, Statuses

LEMMA IdleHasNoStep ==
  ASSUME TypeOK, NEW r \in Requests, requests[r].step # "idle"
  PROVE  requests[r] \in Job /\ requests[r] # Idle
  BY DEF TypeOK, Idle, Job

\* Only the first provisioning works without a row: an UPDATE has one to change.
RowsThere ==
  \A r \in Requests :
    requests[r] # Idle /\ requests[r].kind # "create" => cells[requests[r].org] # NoCell

LEMMA TypeInit == Init => TypeOK
  BY DEF Init, TypeOK, Config, Revision

\* A write that is cut off leaves one of the two files of its org incomplete.
LEMMA CutOne ==
  ASSUME TypeOK, NEW r \in Requests, CutOff(r)
  PROVE  /\ requests[r] \in Job /\ requests[r].org \in Orgs
         /\ \A o \in Orgs : o # requests[r].org => files'[o] = files[o]
         /\ files' \in [Orgs -> Config]
         /\ LET o == requests[r].org
            IN \/ /\ requests[r].step = "write_config"
                  /\ files'[o].config = Cut /\ files'[o].vips = files[o].vips
               \/ /\ requests[r].step = "write_vips"
                  /\ files'[o].vips = Cut /\ files'[o].config = files[o].config
<1>1. requests[r] \in Job /\ requests[r].org \in Orgs
  BY IdleHasNoStep DEF CutOff, Writing, Job
<1>2. PICK o \in Orgs : o = requests[r].org
  BY <1>1
<1>3. files[o] \in Config /\ Cut \in Revision
  BY DEF TypeOK, Revision
<1>4. CASE requests[r].step = "write_config"
  <2>1. files' = [files EXCEPT ![o] = [files[o] EXCEPT !.config = Cut]]
    BY <1>2, <1>4 DEF CutOff, TypeOK
  <2>2. [files[o] EXCEPT !.config = Cut] \in Config
    BY <1>3 DEF Config
  <2> QED
    BY <1>1, <1>2, <1>3, <1>4, <2>1, <2>2 DEF TypeOK, Config
<1>5. CASE requests[r].step = "write_vips"
  <2>1. files' = [files EXCEPT ![o] = [files[o] EXCEPT !.vips = Cut]]
    BY <1>2, <1>5 DEF CutOff, TypeOK
  <2>2. [files[o] EXCEPT !.vips = Cut] \in Config
    BY <1>3 DEF Config
  <2> QED
    BY <1>1, <1>2, <1>3, <1>5, <2>1, <2>2 DEF TypeOK, Config
<1> QED
  BY <1>4, <1>5 DEF CutOff, Writing

LEMMA TypeProvisionRead ==
  ASSUME TypeOK, NEW r \in Requests, NEW o \in Orgs, ProvisionRead(r, o)
  PROVE  TypeOK'
<1>1. settings[o] \in Nat /\ cells[o] \in CellRow \union {NoCell} /\ ProcessOf[r] \in Processes
  BY ProcessAssumption DEF TypeOK
<1>2. requests' \in [Requests -> Job \union {Idle}]
  <2>1. CASE cells[o] = NoCell
    <3>1. [step |-> "create", kind |-> "create", org |-> o,
           revision |-> settings[o], version |-> FirstVersion,
           seen |-> "none", status |-> "provisioning"] \in Job
      BY <1>1 DEF Job, FirstVersion
    <3> QED
      BY <2>1, <3>1 DEF ProvisionRead, TypeOK
  <2>2. CASE cells[o] # NoCell
    <3>1. [step |-> "write_config", kind |-> "update", org |-> o,
           revision |-> settings[o], version |-> cells[o].version + 1,
           seen |-> cells[o].status, status |-> cells[o].status] \in Job
      BY <1>1, <2>2, CellRows DEF Job, Statuses
    <3> QED
      BY <2>2, <3>1 DEF ProvisionRead, TypeOK
  <2> QED
    BY <2>1, <2>2
<1>3. lock' \in [Processes -> Requests \union {NoRequest}]
  BY <1>1 DEF ProvisionRead, TypeOK
<1> QED
  BY <1>2, <1>3 DEF ProvisionRead, TypeOK, host

LEMMA TypeCellJob ==
  ASSUME TypeOK, NEW r \in Requests, NEW o \in Orgs, NEW kind \in {"restart", "remove"},
         CellJob(r, o, kind)
  PROVE  requests' \in [Requests -> Job \union {Idle}]
<1>1. [step |-> kind, kind |-> kind, org |-> o, revision |-> 0,
       version |-> cells[o].version, seen |-> cells[o].status,
       status |-> cells[o].status] \in Job
  <2>1. cells[o] \in CellRow \union {NoCell} /\ cells[o] # NoCell
    BY DEF CellJob, TypeOK
  <2> QED
    BY <2>1, CellRows DEF Job, Statuses
<1> QED
  BY <1>1 DEF CellJob, TypeOK

LEMMA TypeFleet ==
  ASSUME TypeOK, NEW r \in Requests, InFleet(r), FleetEffect(r)
  PROVE  /\ fleet' \in [Orgs -> {"none", "created", "running"}]
         /\ files' \in [Orgs -> Config]
         /\ loaded' \in [Orgs -> Config]
<1>1. requests[r] \in Job
  BY IdleHasNoStep DEF InFleet, FleetSteps
<1>2. requests[r].org \in Orgs
  BY <1>1 DEF Job
<1> QED
  BY <1>2 DEF FleetEffect, TypeOK, Config, Revision

LEMMA TypeUnlocked ==
  ASSUME TypeOK, NEW r \in Requests
  PROVE  Unlocked(r) \in [Processes -> Requests \union {NoRequest}]
  BY ProcessAssumption DEF TypeOK, Unlocked

LEMMA CommitWrites ==
  ASSUME TypeOK, RowsThere, NEW r \in Requests, requests[r] \in Job
  PROVE  Written(requests[r], cells[requests[r].org]) \in CellRow
<1>1. requests[r] # Idle
  BY DEF Idle, Job
<1>2. requests[r].kind = "create" \/ cells[requests[r].org] \in CellRow
  BY <1>1 DEF RowsThere, TypeOK, Job
<1> QED
  BY <1>2 DEF Written, Job, CellRow

LEMMA TypeNext == TypeOK /\ RowsThere /\ [Next]_vars => TypeOK'
<1> SUFFICES ASSUME TypeOK, RowsThere, [Next]_vars PROVE TypeOK'
  OBVIOUS
<1>1. ASSUME NEW o \in Orgs, ChangeSettings(o) PROVE TypeOK'
  BY <1>1 DEF ChangeSettings, TypeOK, host
<1>2. ASSUME NEW r \in Requests, NEW o \in Orgs,
             ProvisionRead(r, o) \/ RestartRead(r, o) \/ DeprovisionRead(r, o)
      PROVE  TypeOK'
  <2>1. CASE RestartRead(r, o)
    <3>1. requests' \in [Requests -> Job \union {Idle}]
      BY <2>1, TypeCellJob DEF RestartRead
    <3> QED
      BY <2>1, <3>1 DEF RestartRead, CellJob, TypeOK, host
  <2>2. CASE DeprovisionRead(r, o)
    <3>1. requests' \in [Requests -> Job \union {Idle}]
      BY <2>2, TypeCellJob DEF DeprovisionRead
    <3> QED
      BY <2>2, <3>1, ProcessAssumption DEF DeprovisionRead, CellJob, TypeOK, host
  <2> QED
    BY <1>2, <2>1, <2>2, TypeProvisionRead
<1>3. ASSUME NEW r \in Requests, Stage(r) PROVE TypeOK'
  <2>1. requests[r] \in Job
    BY <1>3, IdleHasNoStep DEF Stage, WriteConfig, WriteVips
  <2>2. requests[r].org \in Orgs /\ requests[r].revision \in Nat
    BY <2>1 DEF Job
  <2>3. files' \in [Orgs -> Config]
    BY <1>3, <2>2 DEF Stage, WriteConfig, WriteVips, TypeOK, Config, Revision
  <2>4. \A step \in {"write_vips", "insert", "restart"} :
          [requests[r] EXCEPT !.step = step] \in Job
    BY <2>1 DEF Job
  <2>5. requests' \in [Requests -> Job \union {Idle}]
    BY <1>3, <2>4 DEF Stage, WriteConfig, WriteVips, Goto, TypeOK
  <2> QED
    BY <1>3, <2>3, <2>5 DEF Stage, WriteConfig, WriteVips, TypeOK
<1>4. ASSUME NEW r \in Requests, InsertRow(r) PROVE TypeOK'
  <2>1. [requests[r] EXCEPT !.step = "start"] \in Job
    BY <1>4, IdleHasNoStep DEF InsertRow, Job
  <2>2. requests' \in [Requests -> Job \union {Idle}]
    BY <1>4, <2>1 DEF InsertRow, Goto, GiveUp, TypeOK
  <2>3. lock' \in [Processes -> Requests \union {NoRequest}]
    BY <1>4, TypeUnlocked DEF InsertRow, GiveUp, TypeOK
  <2> QED
    BY <1>4, <2>2, <2>3 DEF InsertRow, TypeOK, host
<1>5. ASSUME NEW r \in Requests, DiskFails(r) PROVE TypeOK'
  <2>1. files' \in [Orgs -> Config]
    BY <1>5, CutOne DEF DiskFails, TypeOK
  <2> QED
    BY <1>5, <2>1, TypeUnlocked DEF DiskFails, GiveUp, TypeOK
<1>6. ASSUME NEW r \in Requests, FleetEnds(r) PROVE TypeOK'
  <2>1. requests[r] \in Job
    BY <1>6, IdleHasNoStep DEF FleetEnds, FleetOk, FleetFails, FleetTimesOut, InFleet, FleetSteps
  <2>2. requests[r].org \in Orgs
    BY <2>1 DEF Job
  <2>3. ASSUME FleetOk(r) PROVE TypeOK'
    <3>1. \A step \in {"write_config", "flush"}, status \in Statuses :
            [requests[r] EXCEPT !.step = step, !.status = status] \in Job
      BY <2>1 DEF Job, Statuses
    <3>2. requests[r].status \in Statuses
      BY <2>1 DEF Job, Statuses
    <3>3. requests' \in [Requests -> Job \union {Idle}]
      <4>1. PICK step \in {"write_config", "flush"}, status \in Statuses :
              requests' = [requests EXCEPT ![r].step = step, ![r].status = status]
        BY <2>3, <3>2 DEF FleetOk, AfterFleet, Statuses
      <4> QED
        BY <3>1, <4>1 DEF TypeOK
    <3> QED
      BY <2>3, <3>3, TypeFleet DEF FleetOk, TypeOK
  <2>4. ASSUME FleetFails(r) PROVE TypeOK'
    <3>3. requests' \in [Requests -> Job \union {Idle}]
      <4>1. PICK job \in Job \union {Idle} : requests' = [requests EXCEPT ![r] = job]
        <5>1. CASE requests[r].step \in {"create", "remove"}
          BY <2>4, <5>1 DEF FleetFails
        <5>2. CASE requests[r].step \notin {"create", "remove"}
          <6>1. \A status \in Statuses :
                  [requests[r] EXCEPT !.step = "flush", !.status = status] \in Job
            BY <2>1 DEF Job, Statuses
          <6>2. requests[r].status \in Statuses /\ "error" \in Statuses
            BY <2>1 DEF Job, Statuses
          <6> QED
            BY <2>4, <5>2, <6>1, <6>2 DEF FleetFails
        <5> QED
          BY <5>1, <5>2
      <4> QED
        BY <4>1 DEF TypeOK
    <3>4. fleet' \in [Orgs -> {"none", "created", "running"}]
      BY <2>2, <2>4 DEF FleetFails, TypeOK
    <3> QED
      BY <2>4, <3>3, <3>4, TypeUnlocked DEF FleetFails, TypeOK
  <2>5. ASSUME FleetTimesOut(r) PROVE TypeOK'
    BY <2>5, TypeFleet, TypeUnlocked DEF FleetTimesOut, GiveUp, TypeOK, host
  <2> QED
    BY <1>6, <2>3, <2>4, <2>5 DEF FleetEnds
<1>7. ASSUME NEW r \in Requests, Flush(r) PROVE TypeOK'
  <2>1. [requests[r] EXCEPT !.step = "commit"] \in Job
    BY <1>7, IdleHasNoStep DEF Flush, Job
  <2> QED
    BY <1>7, <2>1, TypeUnlocked DEF Flush, Goto, TypeOK, host
<1>8. ASSUME NEW r \in Requests, Commit(r) PROVE TypeOK'
  <2>1. requests[r] \in Job
    BY <1>8, IdleHasNoStep DEF Commit
  <2>2. requests[r].org \in Orgs
    BY <2>1 DEF Job
  <2>3. Written(requests[r], cells[requests[r].org]) \in CellRow
    BY <1>8, <2>1, CommitWrites
  <2> QED
    BY <1>8, <2>2, <2>3 DEF Commit, TypeOK, host
<1>9. ASSUME NEW p \in Processes, Crash(p) PROVE TypeOK'
  <2>1. files' \in [Orgs -> Config]
    BY <1>9, CutOne DEF Crash, Active, TypeOK
  <2> QED
    BY <1>9, <2>1 DEF Crash, TypeOK
<1>10. CASE UNCHANGED vars
  BY <1>10 DEF vars, host, TypeOK
<1> QED
  BY <1>1, <1>2, <1>3, <1>4, <1>5, <1>6, <1>7, <1>8, <1>9, <1>10 DEF Next

------------------------------------------------------------------------------
(* Rows stay, and a request keeps to the job it began with.                  *)

LEMMA RowsStay ==
  ASSUME TypeOK, RowsThere, [Next]_vars, NEW o \in Orgs, cells[o] # NoCell
  PROVE  cells'[o] # NoCell
<1>1. CASE UNCHANGED cells
  BY <1>1
<1>2. ASSUME NEW r \in Requests, Commit(r) PROVE cells'[o] # NoCell
  <2>1. requests[r] \in Job
    BY <1>2, IdleHasNoStep DEF Commit
  <2>2. Written(requests[r], cells[requests[r].org]) \in CellRow
    BY <2>1, CommitWrites
  <2>3. NoCell \notin CellRow
    BY DEF NoCell, CellRow
  <2> QED
    BY <1>2, <2>2, <2>3 DEF Commit, TypeOK
<1> QED
  BY <1>1, <1>2
     DEF Next, ChangeSettings, ProvisionRead, RestartRead, DeprovisionRead, CellJob, Stage,
         WriteConfig, WriteVips, InsertRow, DiskFails, FleetEnds, FleetOk, FleetFails,
         FleetTimesOut, Flush, Crash, vars

(* What a step does to one request, whoever takes it. *)

Begins(r) ==
  /\ requests[r] = Idle
  /\ requests'[r].kind = "create" <=> cells[requests'[r].org] = NoCell

Continues(r) ==
  /\ requests[r] # Idle
  /\ \/ requests'[r] = Idle
     \/ /\ requests'[r].kind = requests[r].kind
        /\ requests'[r].org = requests[r].org
        /\ requests'[r].revision = requests[r].revision

LEMMA JobsKeep ==
  ASSUME TypeOK, [Next]_vars, NEW r \in Requests, requests'[r] # requests[r]
  PROVE  Begins(r) \/ Continues(r)
<1>1. ASSUME NEW q \in Requests, NEW job, requests' = [requests EXCEPT ![q] = job]
      PROVE  q = r /\ requests'[r] = job
  BY <1>1 DEF TypeOK
<1>2. ASSUME NEW q \in Requests, NEW o \in Orgs,
             ProvisionRead(q, o) \/ RestartRead(q, o) \/ DeprovisionRead(q, o)
      PROVE  Begins(r)
  BY <1>1, <1>2 DEF ProvisionRead, RestartRead, DeprovisionRead, CellJob, Begins, TypeOK
<1>3. ASSUME NEW q \in Requests, requests[q] \in Job, NEW step,
             Goto(q, step) \/ GiveUp(q)
      PROVE  Continues(r)
  BY <1>1, <1>3 DEF Goto, GiveUp, Continues, Job, Idle
<1>4. ASSUME NEW q \in Requests,
             Stage(q) \/ InsertRow(q) \/ DiskFails(q) \/ FleetTimesOut(q) \/ Flush(q)
      PROVE  Continues(r)
  <2>1. requests[q] \in Job
    BY <1>4, IdleHasNoStep DEF Stage, WriteConfig, WriteVips, InsertRow, DiskFails, Writing,
                               FleetTimesOut, InFleet, FleetSteps, Flush
  <2> QED
    BY <1>3, <1>4, <2>1 DEF Stage, WriteConfig, WriteVips, InsertRow, DiskFails,
                            FleetTimesOut, Flush
<1>5. ASSUME NEW q \in Requests, FleetOk(q) \/ FleetFails(q) \/ Commit(q)
      PROVE  Continues(r)
  <2>1. requests[q] \in Job /\ requests[q] # Idle
    BY <1>5, IdleHasNoStep DEF FleetOk, FleetFails, InFleet, FleetSteps, Commit
  <2>2. CASE FleetOk(q)
    BY <2>1, <2>2 DEF FleetOk, Continues, TypeOK, Job
  <2>3. CASE FleetFails(q)
    BY <2>1, <2>3 DEF FleetFails, Continues, TypeOK, Job
  <2>4. CASE Commit(q)
    BY <2>1, <2>4 DEF Commit, Continues, TypeOK
  <2> QED
    BY <1>5, <2>2, <2>3, <2>4
<1>6. ASSUME NEW p \in Processes, Crash(p) PROVE Continues(r)
  BY <1>6 DEF Crash, Continues
<1>7. CASE UNCHANGED requests
  BY <1>7
<1> QED
  BY <1>2, <1>4, <1>5, <1>6, <1>7 DEF Next, ChangeSettings, FleetEnds, vars

LEMMA RowsThereNext == TypeOK /\ RowsThere /\ [Next]_vars => RowsThere'
<1> SUFFICES ASSUME TypeOK, RowsThere, [Next]_vars,
                    NEW r \in Requests, requests'[r] # Idle, requests'[r].kind # "create"
             PROVE  (cells[requests[r].org] # NoCell)'
  BY DEF RowsThere
<1>1. TypeOK'
  BY TypeNext
<1>2. requests'[r].org \in Orgs
  BY <1>1 DEF TypeOK, Job
<1>3. cells[requests'[r].org] # NoCell
  BY JobsKeep DEF Begins, Continues, RowsThere
<1> QED
  BY <1>2, <1>3, RowsStay

\* Every reachable state has the types of the columns, files and jobs.
THEOREM TypeCorrect == Spec => [](TypeOK /\ RowsThere)
<1>1. Init => TypeOK /\ RowsThere
  BY TypeInit DEF Init, RowsThere
<1>2. TypeOK /\ RowsThere /\ [Next]_vars => (TypeOK /\ RowsThere)'
  BY TypeNext, RowsThereNext
<1> QED
  BY <1>1, <1>2, PTL DEF Spec

------------------------------------------------------------------------------
(* The lock.  Every job goes through the phases of its kind; a provisioning  *)
(* and a removal hold the lock of their process until the flush.             *)

Phases ==
  [create |-> {"create", "write_config", "write_vips", "insert", "start", "flush", "commit"},
   update |-> {"write_config", "write_vips", "restart", "flush", "commit"},
   restart |-> {"restart", "flush", "commit"},
   remove |-> {"remove", "flush", "commit"}]

WellFormed(job) ==
  /\ job.step \in Phases[job.kind]
  /\ job.kind \in {"create", "update"} => job.revision > 0

JobsWellFormed == \A r \in Requests : requests[r] \in Job => WellFormed(requests[r])

Holds(r) ==
  requests[r] \in Job /\ requests[r].kind # "restart" /\ requests[r].step \notin {"flush", "commit"}

LockHeld == \A r \in Requests : Holds(r) => lock[ProcessOf[r]] = r

LInv == TypeOK /\ RowsThere /\ JobsWellFormed /\ LockHeld

LEMMA IdleIsNoJob == Idle \notin Job /\ Idle.step = "idle"
  BY DEF Idle, Job

LEMMA LInvInit == Init => LInv
<1> SUFFICES ASSUME Init PROVE LInv
  OBVIOUS
<1>1. TypeOK /\ RowsThere
  BY TypeInit DEF Init, RowsThere
<1>2. \A r \in Requests : requests[r] \notin Job
  BY IdleIsNoJob DEF Init
<1> QED
  BY <1>1, <1>2 DEF LInv, JobsWellFormed, LockHeld, Holds

\* One request moves on, and the lock changes for its own process at most:
\* taken while it was free, or released.
LEMMA MoveKeepsLock ==
  ASSUME LInv, TypeOK', RowsThere', NEW q \in Requests, NEW job,
         requests' = [requests EXCEPT ![q] = job],
         job \in Job => WellFormed(job),
         \/ lock' = [lock EXCEPT ![ProcessOf[q]] = q] /\ LockFree(q)
         \/ /\ lock' = Unlocked(q) \/ UNCHANGED lock
            /\ job \in Job /\ job.kind # "restart" /\ job.step \notin {"flush", "commit"}
                 => Holds(q) /\ UNCHANGED lock
  PROVE  LInv'
<1>1. /\ requests'[q] = job
      /\ \A r \in Requests \ {q} : requests'[r] = requests[r]
  BY DEF LInv, TypeOK
<1>2. JobsWellFormed'
  BY <1>1 DEF LInv, JobsWellFormed
<1>3. \A p \in Processes : lock[p] \in Requests \union {NoRequest}
  BY DEF LInv, TypeOK
<1>4. \A r \in Requests : ProcessOf[r] \in Processes /\ r # NoRequest
  BY ProcessAssumption
<1>5. LockHeld'
  <2> SUFFICES ASSUME NEW r \in Requests, Holds(r)' PROVE lock'[ProcessOf[r]] = r
    BY DEF LockHeld
  <2>1. CASE r # q
    <3>1. lock[ProcessOf[r]] = r
      BY <1>1, <2>1 DEF LInv, LockHeld, Holds
    <3> QED
      BY <1>3, <1>4, <2>1, <3>1 DEF LockFree, Unlocked, LInv, TypeOK
  <2>2. CASE r = q
    <3>1. job \in Job /\ job.kind # "restart" /\ job.step \notin {"flush", "commit"}
      BY <1>1, <2>2 DEF Holds
    <3> QED
      BY <1>4, <2>2, <3>1 DEF LInv, LockHeld, TypeOK
  <2> QED
    BY <2>1, <2>2
<1> QED
  BY <1>2, <1>5 DEF LInv

LEMMA LInvNext == LInv /\ [Next]_vars => LInv'
<1> SUFFICES ASSUME LInv, [Next]_vars PROVE LInv'
  OBVIOUS
<1>1. TypeOK /\ RowsThere /\ TypeOK' /\ RowsThere'
  BY TypeNext, RowsThereNext DEF LInv
<1>2. ASSUME UNCHANGED <<requests, lock>> PROVE LInv'
  BY <1>1, <1>2 DEF LInv, JobsWellFormed, LockHeld, Holds
<1>3. ASSUME NEW r \in Requests, NEW o \in Orgs, ProvisionRead(r, o) PROVE LInv'
  <2>1. PICK job : /\ requests' = [requests EXCEPT ![r] = job]
                   /\ WellFormed(job)
    <3> DEFINE first == [step |-> "create", kind |-> "create", org |-> o,
                         revision |-> settings[o], version |-> FirstVersion,
                         seen |-> "none", status |-> "provisioning"]
               later == [step |-> "write_config", kind |-> "update", org |-> o,
                         revision |-> settings[o], version |-> cells[o].version + 1,
                         seen |-> cells[o].status, status |-> cells[o].status]
    <3>1. settings[o] > 0
      BY <1>3 DEF ProvisionRead
    <3>2. WellFormed(first) /\ WellFormed(later)
      BY <3>1 DEF WellFormed, Phases
    <3>3. \/ requests' = [requests EXCEPT ![r] = first]
          \/ requests' = [requests EXCEPT ![r] = later]
      BY <1>3 DEF ProvisionRead
    <3> QED
      BY <3>2, <3>3
  <2> QED
    BY <1>1, <1>3, <2>1, MoveKeepsLock DEF ProvisionRead
<1>4. ASSUME NEW r \in Requests, NEW o \in Orgs, RestartRead(r, o) PROVE LInv'
  <2>1. PICK job : /\ requests' = [requests EXCEPT ![r] = job]
                   /\ job.kind = "restart" /\ WellFormed(job)
    <3> DEFINE job == [step |-> "restart", kind |-> "restart", org |-> o, revision |-> 0,
                       version |-> cells[o].version, seen |-> cells[o].status,
                       status |-> cells[o].status]
    <3>1. WellFormed(job) /\ job.kind = "restart"
      BY DEF WellFormed, Phases
    <3>2. requests' = [requests EXCEPT ![r] = job]
      BY <1>4 DEF RestartRead, CellJob
    <3> QED
      BY <3>1, <3>2
  <2> QED
    BY <1>1, <1>4, <2>1, MoveKeepsLock DEF RestartRead
<1>5. ASSUME NEW r \in Requests, NEW o \in Orgs, DeprovisionRead(r, o) PROVE LInv'
  <2>1. PICK job : /\ requests' = [requests EXCEPT ![r] = job]
                   /\ WellFormed(job)
    <3> DEFINE job == [step |-> "remove", kind |-> "remove", org |-> o, revision |-> 0,
                       version |-> cells[o].version, seen |-> cells[o].status,
                       status |-> cells[o].status]
    <3>1. WellFormed(job) /\ job.kind = "remove"
      BY DEF WellFormed, Phases
    <3>2. requests' = [requests EXCEPT ![r] = job]
      BY <1>5 DEF DeprovisionRead, CellJob
    <3> QED
      BY <3>1, <3>2
  <2> QED
    BY <1>1, <1>5, <2>1, MoveKeepsLock DEF DeprovisionRead
<1>6. ASSUME NEW r \in Requests, NEW step \in {"write_config", "write_vips", "insert", "start", "restart"},
             requests[r] \in Job, requests[r].step \notin {"flush", "commit"},
             step \in Phases[requests[r].kind],
             requests[r].kind # "restart",
             requests' = [requests EXCEPT ![r] = [requests[r] EXCEPT !.step = step]],
             UNCHANGED lock
      PROVE  LInv'
  <2>1. WellFormed([requests[r] EXCEPT !.step = step])
    BY <1>6 DEF LInv, JobsWellFormed, WellFormed, Job
  <2>2. Holds(r)
    BY <1>6 DEF Holds
  <2> QED
    BY <1>1, <1>6, <2>1, <2>2, MoveKeepsLock
<1>7. ASSUME NEW r \in Requests, requests' = [requests EXCEPT ![r] = Idle],
             lock' = Unlocked(r) \/ UNCHANGED lock
      PROVE  LInv'
  BY <1>1, <1>7, IdleIsNoJob, MoveKeepsLock
<1>8. ASSUME NEW r \in Requests, NEW step \in {"flush", "commit"}, NEW status,
             requests[r] \in Job,
             requests' = [requests EXCEPT ![r] = [requests[r] EXCEPT !.step = step, !.status = status]],
             lock' = Unlocked(r) \/ UNCHANGED lock
      PROVE  LInv'
  <2>1. WellFormed([requests[r] EXCEPT !.step = step, !.status = status])
    BY <1>8 DEF LInv, JobsWellFormed, WellFormed, Job, Phases
  <2>2. [requests[r] EXCEPT !.step = step, !.status = status].step \in {"flush", "commit"}
    BY <1>8 DEF Job
  <2> QED
    BY <1>1, <1>8, <2>1, <2>2, MoveKeepsLock
<1>9. ASSUME NEW r \in Requests, Stage(r) PROVE LInv'
  <2>1. requests[r] \in Job /\ WellFormed(requests[r])
    BY <1>1, <1>9, IdleHasNoStep
       DEF Stage, WriteConfig, WriteVips, LInv, JobsWellFormed
  <2>2. requests[r].kind \in {"create", "update"}
    BY <1>9, <2>1 DEF Stage, WriteConfig, WriteVips, WellFormed, Phases, Job
  <2>3. PICK step \in {"write_vips", "insert", "restart"} :
          /\ requests' = [requests EXCEPT ![r] = [requests[r] EXCEPT !.step = step]]
          /\ step \in Phases[requests[r].kind]
    <3>1. CASE WriteConfig(r)
      BY <2>2, <3>1 DEF WriteConfig, Goto, Phases
    <3>2. CASE WriteVips(r)
      <4>1. CASE requests[r].kind = "create"
        BY <3>2, <4>1 DEF WriteVips, Goto, Phases
      <4>2. CASE requests[r].kind = "update"
        BY <3>2, <4>2 DEF WriteVips, Goto, Phases
      <4> QED
        BY <2>2, <4>1, <4>2
    <3> QED
      BY <1>9, <3>1, <3>2 DEF Stage
  <2> QED
    BY <1>6, <1>9, <2>1, <2>2, <2>3 DEF Stage, WriteConfig, WriteVips
<1>10. ASSUME NEW r \in Requests, InsertRow(r) PROVE LInv'
  <2>1. requests[r] \in Job /\ WellFormed(requests[r])
    BY <1>1, <1>10, IdleHasNoStep DEF InsertRow, LInv, JobsWellFormed
  <2>2. requests[r].kind = "create" /\ "start" \in Phases[requests[r].kind]
    BY <1>10, <2>1 DEF InsertRow, WellFormed, Phases, Job
  <2>3. CASE GiveUp(r)
    BY <1>7, <2>3 DEF GiveUp
  <2>4. CASE Goto(r, "start") /\ UNCHANGED lock
    BY <1>6, <1>10, <2>1, <2>2, <2>4 DEF InsertRow, Goto
  <2> QED
    BY <1>10, <2>3, <2>4 DEF InsertRow
<1>11. ASSUME NEW r \in Requests, DiskFails(r) \/ FleetTimesOut(r) PROVE LInv'
  BY <1>7, <1>11 DEF DiskFails, FleetTimesOut, GiveUp
<1>12. ASSUME NEW r \in Requests, FleetOk(r) PROVE LInv'
  <2>1. requests[r] \in Job /\ WellFormed(requests[r])
    BY <1>1, <1>12, IdleHasNoStep DEF FleetOk, InFleet, FleetSteps, LInv, JobsWellFormed
  <2>2. CASE requests[r].step = "create"
    <3>1. requests[r].kind = "create" /\ "write_config" \in Phases[requests[r].kind]
      BY <2>1, <2>2 DEF WellFormed, Phases, Job
    <3>2. requests' = [requests EXCEPT ![r] = [requests[r] EXCEPT !.step = "write_config"]]
      BY <1>12, <2>1, <2>2 DEF FleetOk, AfterFleet, Job, TypeOK
    <3> QED
      BY <1>6, <1>12, <2>1, <2>2, <3>1, <3>2 DEF FleetOk
  <2>3. CASE requests[r].step # "create"
    <3>1. PICK status : requests' =
            [requests EXCEPT ![r] = [requests[r] EXCEPT !.step = "flush", !.status = status]]
      BY <1>12, <2>3 DEF FleetOk, AfterFleet
    <3> QED
      BY <1>8, <1>12, <2>1, <3>1 DEF FleetOk
  <2> QED
    BY <2>2, <2>3
<1>13. ASSUME NEW r \in Requests, FleetFails(r) PROVE LInv'
  <2>1. requests[r] \in Job
    BY <1>1, <1>13, IdleHasNoStep DEF FleetFails, InFleet, FleetSteps
  <2>2. CASE requests[r].step \in {"create", "remove"}
    BY <1>7, <1>13, <2>2 DEF FleetFails
  <2>3. CASE requests[r].step \notin {"create", "remove"}
    BY <1>8, <1>13, <2>1, <2>3 DEF FleetFails
  <2> QED
    BY <2>2, <2>3
<1>14. ASSUME NEW r \in Requests, Flush(r) PROVE LInv'
  <2>1. requests[r] \in Job
    BY <1>1, <1>14, IdleHasNoStep DEF Flush
  <2>2. requests' = [requests EXCEPT ![r] =
          [requests[r] EXCEPT !.step = "commit", !.status = requests[r].status]]
    BY <1>1, <1>14, <2>1 DEF Flush, Goto, Job, TypeOK
  <2> QED
    BY <1>8, <1>14, <2>1, <2>2 DEF Flush
<1>15. ASSUME NEW r \in Requests, Commit(r) PROVE LInv'
  BY <1>7, <1>15 DEF Commit
<1>16. ASSUME NEW p \in Processes, Crash(p) PROVE LInv'
  <2>1. \A r \in Requests :
          requests'[r] \in Job => requests'[r] = requests[r] /\ ProcessOf[r] # p
    BY <1>16, IdleIsNoJob DEF Crash
  <2>2. \A r \in Requests : ProcessOf[r] # p => lock'[ProcessOf[r]] = lock[ProcessOf[r]]
    BY <1>1, <1>16, ProcessAssumption DEF Crash, TypeOK
  <2> QED
    BY <1>1, <2>1, <2>2 DEF LInv, JobsWellFormed, LockHeld, Holds
<1> QED
  BY <1>2, <1>3, <1>4, <1>5, <1>9, <1>10, <1>11, <1>12, <1>13, <1>14, <1>15, <1>16
     DEF Next, ChangeSettings, FleetEnds, vars

\* Within one process the lock serialises the fleet commands, but for those of
\* restart_cell (the lock of provision_cell.py).
SingleProcess == \A r, s \in Requests : ProcessOf[r] = ProcessOf[s]

THEOREM FleetInTurn == ASSUME SingleProcess PROVE Spec => []OnlyRestartsOverlap
<1>1. LInv => OnlyRestartsOverlap
  <2> SUFFICES ASSUME LInv, NEW r \in Requests, NEW s \in Requests, InFleet(r), InFleet(s),
                      requests[r].kind # "restart", requests[s].kind # "restart"
               PROVE  r = s
    BY DEF OnlyRestartsOverlap
  <2>1. Holds(r) /\ Holds(s)
    BY IdleHasNoStep DEF LInv, InFleet, FleetSteps, Holds
  <2> QED
    BY <2>1 DEF LInv, LockHeld, SingleProcess
<1> QED
  BY <1>1, LInvInit, LInvNext, PTL DEF Spec

------------------------------------------------------------------------------
(* What a gateway reads.  In one process the files of a tenant change only   *)
(* in the hands of the request that holds the lock, so they are what it has  *)
(* staged when it starts the gateway; a first provisioning has them staged   *)
(* before its row is committed, and only then a restart or a removal can     *)
(* find the row.                                                             *)

Configured(o) == files[o].config # 0 /\ files[o].vips # 0

Good(job) ==
  /\ job.kind = "restart" => job.org \in Restartable
  /\ job.kind = "create" /\ job.step # "create" =>
       cells[job.org] = NoCell /\ fleet[job.org] # "none"
  /\ job.step = "create" /\ cells[job.org] # NoCell => fleet[job.org] # "none"
  /\ job.step = "write_vips" => files[job.org].config = job.revision
  /\ job.step \in {"insert", "start"} \/ (job.step = "restart" /\ job.kind = "update") =>
       files[job.org] = [config |-> job.revision, vips |-> job.revision]
  /\ job.kind = "create" /\ job.step \in {"flush", "commit"} => Configured(job.org)

Past(r) == requests[r] \in Job /\ requests[r].kind = "create" /\ requests[r].step # "create"

OneNewCell ==
  \A r, s \in Requests : Past(r) /\ Past(s) /\ requests[r].org = requests[s].org => r = s

RowIsConfigured == \A o \in Orgs : cells[o] # NoCell => Configured(o)

CInv ==
  /\ \A r \in Requests : requests[r] \in Job => Good(requests[r])
  /\ OneNewCell
  /\ RowIsConfigured
  /\ NeverDefaultConfig
  /\ ConfigNotTorn

LEMMA CInvInit == Init => CInv
<1> SUFFICES ASSUME Init PROVE CInv
  OBVIOUS
<1>1. \A r \in Requests : requests[r] \notin Job
  BY IdleIsNoJob DEF Init
<1>2. RowIsConfigured /\ NeverDefaultConfig /\ ConfigNotTorn
  BY DEF Init, RowIsConfigured, NeverDefaultConfig, ConfigNotTorn
<1> QED
  BY <1>1, <1>2 DEF CInv, OneNewCell, Past

\* The holder of the lock is alone with the files.
LEMMA HolderIsAlone ==
  ASSUME SingleProcess, LInv, NEW q \in Requests, NEW r \in Requests \ {q}, Holds(q)
  PROVE  ~Holds(r)
  BY DEF LInv, LockHeld, SingleProcess

LEMMA JobFields ==
  ASSUME LInv, NEW r \in Requests, requests[r] \in Job
  PROVE  /\ requests[r].org \in Orgs /\ requests[r].revision \in Nat
         /\ WellFormed(requests[r])
         /\ requests[r].kind \in {"create", "update", "restart", "remove"}
         /\ requests[r].kind # "create" => cells[requests[r].org] # NoCell
         /\ requests[r].step # "idle"
  BY IdleIsNoJob DEF LInv, JobsWellFormed, RowsThere, Job

(* Nothing but requests changes: every new job is good, and at most one more *)
(* request is past the creation of its cell.                                 *)

LEMMA SameWorld ==
  ASSUME CInv, UNCHANGED <<cells, fleet, files, loaded>>,
         \A r \in Requests : requests'[r] \in Job =>
           \/ requests'[r] = requests[r]
           \/ Good(requests'[r]) /\ (Past(r)' => Past(r) /\ requests'[r].org = requests[r].org)
  PROVE  CInv'
<1>1. \A job : Good(job) => Good(job)'
  BY DEF Good, Configured
<1>2. \A r \in Requests : requests'[r] \in Job => Good(requests'[r])
  BY DEF CInv
<1>3. (\A r \in Requests : requests[r] \in Job => Good(requests[r]))'
  BY <1>2 DEF Good, Configured
<1>4. \A r \in Requests : Past(r)' => Past(r) /\ requests'[r].org = requests[r].org
  BY DEF Past
<1>5. OneNewCell'
  BY <1>4 DEF CInv, OneNewCell
<1>6. (RowIsConfigured /\ NeverDefaultConfig /\ ConfigNotTorn)'
  BY DEF CInv, RowIsConfigured, NeverDefaultConfig, ConfigNotTorn, Configured
<1> QED
  BY <1>3, <1>5, <1>6 DEF CInv

(* One request moves on to a job that is good, the others stay good. *)

Others(q) == {requests[r] : r \in Requests \ {q}} \intersect Job
NewCell(job) == job.kind = "create" /\ job.step # "create"

LEMMA OneMoves ==
  ASSUME CInv, LInv, NEW q \in Requests, NEW job,
         requests' = [requests EXCEPT ![q] = job],
         job \in Job => Good(job)',
         \A other \in Others(q) : Good(other)',
         job \in Job /\ NewCell(job) =>
           \/ Past(q) /\ job.org = requests[q].org
           \/ \A other \in Others(q) : NewCell(other) => other.org # job.org,
         RowIsConfigured', NeverDefaultConfig', ConfigNotTorn'
  PROVE  CInv'
<1>1. /\ requests'[q] = job
      /\ \A r \in Requests \ {q} : requests'[r] = requests[r]
  BY DEF LInv, TypeOK
<1>2. \A r \in Requests \ {q} : requests[r] \in Job => requests[r] \in Others(q)
  BY DEF Others
<1>3. (\A r \in Requests : requests[r] \in Job => Good(requests[r]))'
  <2> SUFFICES ASSUME NEW r \in Requests, requests'[r] \in Job PROVE Good(requests[r])'
    OBVIOUS
  <2>1. PICK j : j = requests'[r]
    OBVIOUS
  <2>2. Good(j)'
    BY <1>1, <1>2, <2>1
  <2> QED
    BY <2>1, <2>2 DEF Good, Configured
<1>4. ASSUME NEW r \in Requests \ {q}, Past(r)', Past(q)', requests'[r].org = requests'[q].org
      PROVE  FALSE
  <2>1. requests[r] \in Others(q) /\ NewCell(requests[r]) /\ Past(r)
    BY <1>1, <1>2, <1>4 DEF Past, NewCell
  <2>2. job \in Job /\ NewCell(job)
    BY <1>1, <1>4 DEF Past, NewCell
  <2>3. requests[r].org = job.org
    BY <1>1, <1>4
  <2> QED
    BY <2>1, <2>2, <2>3 DEF CInv, OneNewCell
<1>5. \A r \in Requests \ {q} : Past(r)' <=> Past(r)
  BY <1>1 DEF Past
<1>6. OneNewCell'
  BY <1>1, <1>4, <1>5 DEF CInv, OneNewCell
<1> QED
  BY <1>3, <1>6 DEF CInv

LEMMA CInvRead ==
  ASSUME CInv, LInv, NEW r \in Requests, NEW o \in Orgs,
         ProvisionRead(r, o) \/ RestartRead(r, o) \/ DeprovisionRead(r, o)
  PROVE  CInv'
<1>1. UNCHANGED <<cells, fleet, files, loaded>>
  BY DEF ProvisionRead, RestartRead, DeprovisionRead, CellJob, host
<1>2. \A s \in Requests \ {r} : requests'[s] = requests[s]
  BY DEF ProvisionRead, RestartRead, DeprovisionRead, CellJob, LInv, TypeOK
<1>3. Good(requests'[r]) /\ ~NewCell(requests'[r])
  <2>1. CASE ProvisionRead(r, o)
    BY <2>1 DEF ProvisionRead, Good, NewCell, LInv, TypeOK
  <2>2. CASE RestartRead(r, o)
    BY <2>2 DEF RestartRead, CellJob, Good, NewCell, LInv, TypeOK
  <2>3. CASE DeprovisionRead(r, o)
    BY <2>3 DEF DeprovisionRead, CellJob, Good, NewCell, LInv, TypeOK
  <2> QED
    BY <2>1, <2>2, <2>3
<1>4. ~Past(r)'
  BY <1>3 DEF Past, NewCell
<1> QED
  BY <1>1, <1>2, <1>3, <1>4, SameWorld

\* A request gives up, or goes on to a step that asks for nothing new.
LEMMA CInvQuiet ==
  ASSUME CInv, LInv, UNCHANGED <<cells, fleet, files, loaded>>,
         \A r \in Requests :
           \/ requests'[r] = requests[r]
           \/ requests'[r] = Idle
           \/ /\ requests[r] \in Job /\ Good(requests'[r])
              /\ Past(r)' => Past(r) /\ requests'[r].org = requests[r].org
  PROVE  CInv'
  BY SameWorld, IdleIsNoJob

LEMMA CInvInsertRow ==
  ASSUME CInv, LInv, NEW r \in Requests, InsertRow(r)
  PROVE  CInv'
<1>1. requests[r] \in Job /\ WellFormed(requests[r]) /\ Good(requests[r])
  BY IdleHasNoStep, JobFields DEF InsertRow, LInv, CInv
<1>2. requests[r].kind = "create" /\ Past(r)
  BY <1>1 DEF InsertRow, WellFormed, Phases, Job, Past
<1>3. \A s \in Requests \ {r} : requests'[s] = requests[s]
  BY DEF InsertRow, Goto, GiveUp, LInv, TypeOK
<1>4. UNCHANGED <<cells, fleet, files, loaded>>
  BY DEF InsertRow, host
<1>5. \/ requests'[r] = Idle
      \/ Good(requests'[r]) /\ requests'[r].org = requests[r].org
  <2>1. CASE GiveUp(r)
    BY <2>1 DEF GiveUp, LInv, TypeOK
  <2>2. CASE Goto(r, "start")
    <3>1. requests'[r] = [requests[r] EXCEPT !.step = "start"]
      BY <2>2 DEF Goto, LInv, TypeOK
    <3>2. /\ requests'[r].step = "start" /\ requests'[r].kind = "create"
          /\ requests'[r].org = requests[r].org /\ requests'[r].revision = requests[r].revision
      BY <1>1, <1>2, <3>1 DEF Job
    <3> QED
      BY <1>1, <1>2, <3>2 DEF Good, InsertRow
  <2> QED
    BY <2>1, <2>2 DEF InsertRow
<1> QED
  BY <1>1, <1>2, <1>3, <1>4, <1>5, CInvQuiet

LEMMA CInvFlush ==
  ASSUME CInv, LInv, NEW r \in Requests, Flush(r)
  PROVE  CInv'
<1>1. requests[r] \in Job /\ WellFormed(requests[r]) /\ Good(requests[r])
  BY IdleHasNoStep, JobFields DEF Flush, LInv, CInv
<1>2. \A s \in Requests \ {r} : requests'[s] = requests[s]
  BY DEF Flush, Goto, LInv, TypeOK
<1>3. UNCHANGED <<cells, fleet, files, loaded>>
  BY DEF Flush, host
<1>4. requests'[r] = [requests[r] EXCEPT !.step = "commit"]
  BY DEF Flush, Goto, LInv, TypeOK
<1>5. /\ requests'[r].step = "commit" /\ requests'[r].kind = requests[r].kind
      /\ requests'[r].org = requests[r].org /\ requests'[r].revision = requests[r].revision
  BY <1>1, <1>4 DEF Job
<1>6. Good(requests'[r]) /\ (Past(r)' => Past(r))
  BY <1>1, <1>5 DEF Good, Flush, Past
<1> QED
  BY <1>1, <1>2, <1>3, <1>5, <1>6, CInvQuiet

LEMMA CInvStage ==
  ASSUME SingleProcess, CInv, LInv, NEW q \in Requests, Stage(q)
  PROVE  CInv'
<1>1. requests[q] \in Job /\ WellFormed(requests[q]) /\ Good(requests[q])
  BY IdleHasNoStep, JobFields DEF Stage, WriteConfig, WriteVips, LInv, CInv
<1>2. requests[q].kind \in {"create", "update"} /\ requests[q].org \in Orgs
      /\ requests[q].revision \in Nat /\ requests[q].revision > 0
  BY <1>1, JobFields DEF Stage, WriteConfig, WriteVips, WellFormed, Phases
<1>3. Holds(q)
  BY <1>1, <1>2 DEF Stage, WriteConfig, WriteVips, Holds
<1>4. PICK o \in Orgs, n \in Nat : o = requests[q].org /\ n = requests[q].revision /\ n > 0
  BY <1>2
<1>5. PICK job : /\ requests' = [requests EXCEPT ![q] = job]
                 /\ \E step : job = [requests[q] EXCEPT !.step = step]
  <2>1. PICK step : requests' = [requests EXCEPT ![q] = [requests[q] EXCEPT !.step = step]]
    BY DEF Stage, WriteConfig, WriteVips, Goto
  <2>2. PICK job : job = [requests[q] EXCEPT !.step = step]
    OBVIOUS
  <2> QED
    BY <2>1, <2>2
<1>6. /\ job.kind = requests[q].kind /\ job.org = o /\ job.revision = n
      /\ job.step = requests'[q].step
  BY <1>1, <1>4, <1>5 DEF Job, LInv, TypeOK
<1>7. UNCHANGED <<cells, fleet, loaded>>
  BY DEF Stage, WriteConfig, WriteVips
<1>8. \A p \in Orgs : p # o => files'[p] = files[p]
  BY <1>4 DEF Stage, WriteConfig, WriteVips, LInv, TypeOK
<1>9. \A p \in Orgs : files[p] \in Config
  BY DEF LInv, TypeOK
<1>10. \/ WriteConfig(q) /\ files'[o] = [files[o] EXCEPT !.config = n] /\ job.step = "write_vips"
       \/ WriteVips(q) /\ files'[o] = [files[o] EXCEPT !.vips = n]
          /\ job.step = (IF requests[q].kind = "create" THEN "insert" ELSE "restart")
  <2>1. CASE WriteConfig(q)
    <3>1. files'[o] = [files[o] EXCEPT !.config = n]
      BY <1>4, <2>1 DEF WriteConfig, LInv, TypeOK
    <3>2. requests'[q].step = "write_vips"
      BY <1>1, <2>1 DEF WriteConfig, Goto, LInv, TypeOK, Job
    <3> QED
      BY <1>6, <2>1, <3>1, <3>2
  <2>2. CASE WriteVips(q)
    <3>1. files'[o] = [files[o] EXCEPT !.vips = n]
      BY <1>4, <2>2 DEF WriteVips, LInv, TypeOK
    <3>2. requests'[q].step = (IF requests[q].kind = "create" THEN "insert" ELSE "restart")
      BY <1>1, <2>2 DEF WriteVips, Goto, LInv, TypeOK, Job
    <3> QED
      BY <1>6, <2>2, <3>1, <3>2
  <2> QED
    BY <2>1, <2>2 DEF Stage
<1>11. \A p \in Orgs : Configured(p) => Configured(p)'
  BY <1>4, <1>8, <1>9, <1>10 DEF Configured, Config
<1>12. Good(job)'
  <2>1. CASE WriteConfig(q)
    <3>1. job.step = "write_vips" /\ files'[o].config = n
      BY <1>9, <1>10, <2>1 DEF Config, WriteVips, WriteConfig
    <3> QED
      BY <1>1, <1>2, <1>4, <1>6, <1>7, <2>1, <3>1 DEF Good, WriteConfig
  <2>2. CASE WriteVips(q)
    <3>1. files[o].config = n
      BY <1>1, <1>4, <2>2 DEF Good, WriteVips
    <3>2. job.step \in {"insert", "restart"} /\ files'[o] = [config |-> n, vips |-> n]
      BY <1>9, <1>10, <2>2, <3>1 DEF Config, WriteVips, WriteConfig
    <3> QED
      BY <1>1, <1>2, <1>4, <1>6, <1>7, <2>2, <3>2 DEF Good, WriteVips
  <2> QED
    BY <1>10, <2>1, <2>2
<1>13. ASSUME NEW other \in Others(q) PROVE Good(other)'
  <2>1. PICK r \in Requests \ {q} : other = requests[r] /\ other \in Job
    BY DEF Others
  <2>2. Good(other) /\ other.org \in Orgs
    BY <2>1 DEF CInv, Job
  <2>3. other.step \in {"flush", "commit"} \/ other.kind = "restart"
    BY <1>3, <2>1, HolderIsAlone DEF Holds
  <2>4. WellFormed(other)
    BY <2>1, JobFields
  <2>5. other.step \in {"flush", "commit", "restart"}
        /\ (other.step = "restart" => other.kind = "restart")
    BY <2>3, <2>4 DEF WellFormed, Phases
  <2> QED
    BY <1>7, <1>11, <2>2, <2>5 DEF Good
<1>14. NewCell(job) => Past(q) /\ job.org = requests[q].org
  BY <1>1, <1>2, <1>4, <1>6 DEF NewCell, Past, Stage, WriteConfig, WriteVips
<1>15. (RowIsConfigured /\ NeverDefaultConfig /\ ConfigNotTorn)'
  BY <1>7, <1>11 DEF CInv, RowIsConfigured, NeverDefaultConfig, ConfigNotTorn
<1> QED
  BY <1>5, <1>12, <1>13, <1>14, <1>15, OneMoves

\* What the tenants' containers and files look like after a command of q: those
\* of the others are untouched, and q's own is running with what it has staged.
LEMMA EffectIsSound ==
  ASSUME SingleProcess, CInv, LInv, UNCHANGED cells,
         NEW q \in Requests, InFleet(q), FleetEffect(q)
  PROVE  /\ \A other \in Others(q) : Good(other)'
         /\ (RowIsConfigured /\ NeverDefaultConfig /\ ConfigNotTorn)'
<1>1. requests[q] \in Job /\ WellFormed(requests[q]) /\ Good(requests[q])
  BY IdleHasNoStep, JobFields DEF InFleet, FleetSteps, LInv, CInv
<1>2. PICK o \in Orgs, n \in Nat : o = requests[q].org /\ n = requests[q].revision
  BY <1>1 DEF Job
<1>3. \A p \in Orgs : p # o => fleet'[p] = fleet[p] /\ files'[p] = files[p] /\ loaded'[p] = loaded[p]
  BY <1>2 DEF FleetEffect, LInv, TypeOK
<1>4. ASSUME NEW other \in Others(q)
      PROVE  /\ Good(other) /\ WellFormed(other) /\ other.org \in Orgs
             /\ NewCell(other) => cells[other.org] = NoCell /\ fleet[other.org] # "none"
  <2>1. PICK r \in Requests \ {q} : other = requests[r] /\ other \in Job
    BY DEF Others
  <2> QED
    BY <2>1, JobFields DEF CInv, Good, NewCell
<1>5. CASE requests[q].step = "create"
  <2>1. /\ fleet[o] = "none" /\ fleet'[o] = "created"
        /\ loaded'[o] = loaded[o] /\ cells[o] = NoCell
    BY <1>1, <1>2, <1>5 DEF FleetEffect, Allowed, Good, LInv, TypeOK
  <2>2. ASSUME NEW other \in Others(q) PROVE Good(other)'
    <3>1. other.org = o => other.kind = "create" /\ other.step = "create"
      <4>1. PICK r \in Requests \ {q} : other = requests[r] /\ other \in Job
        BY DEF Others
      <4>2. other.kind # "create" => cells[other.org] # NoCell
        BY <4>1, JobFields
      <4> QED
        BY <1>4, <2>1, <4>2 DEF NewCell
    <3>2. CASE other.org = o
      BY <2>1, <3>1, <3>2 DEF Good
    <3>3. CASE other.org # o
      BY <1>3, <1>4, <3>3 DEF Good, Configured
    <3> QED
      BY <3>2, <3>3
  <2>3. (RowIsConfigured /\ NeverDefaultConfig /\ ConfigNotTorn)'
    BY <1>3, <2>1 DEF CInv, RowIsConfigured, NeverDefaultConfig, ConfigNotTorn, Configured
  <2> QED
    BY <2>2, <2>3
<1>6. CASE requests[q].step = "remove"
  <2>1. UNCHANGED files /\ fleet'[o] = "none" /\ cells[o] # NoCell /\ Holds(q)
    <3>1. requests[q].kind = "remove"
      BY <1>1, <1>6, JobFields DEF WellFormed, Phases
    <3>2. UNCHANGED files
      BY <1>2, <1>6 DEF FleetEffect, LInv, TypeOK
    <3> QED
      BY <1>1, <1>2, <1>6, <3>1, <3>2, JobFields DEF FleetEffect, Holds, LInv, TypeOK
  <2>2. ASSUME NEW other \in Others(q) PROVE Good(other)'
    <3>1. PICK r \in Requests \ {q} : other = requests[r] /\ other \in Job
      BY DEF Others
    <3>2. other.step # "create"
      BY <1>4, <2>1, <3>1, HolderIsAlone DEF Holds, WellFormed, Phases
    <3>3. other.org = o => ~NewCell(other)
      BY <1>4, <2>1
    <3> QED
      BY <1>3, <1>4, <2>1, <3>2, <3>3 DEF Good, NewCell, Configured
  <2>3. (RowIsConfigured /\ NeverDefaultConfig /\ ConfigNotTorn)'
    BY <1>3, <2>1 DEF CInv, RowIsConfigured, NeverDefaultConfig, ConfigNotTorn, Configured
  <2> QED
    BY <2>2, <2>3
<1>7. CASE requests[q].step \in {"start", "restart"}
  <2>1. UNCHANGED files
    BY <1>2, <1>7 DEF FleetEffect, LInv, TypeOK
  <2>2. fleet'[o] = "running" /\ fleet[o] # "none" /\ loaded'[o] = files[o]
    BY <1>2, <1>7 DEF FleetEffect, Allowed, LInv, TypeOK
  <2>3. /\ Configured(o)
        /\ o \notin Restartable => files[o].config = files[o].vips /\ files[o].config # Cut
    <3>1. CASE requests[q].kind = "restart"
      BY <1>1, <1>2, <3>1, JobFields DEF CInv, RowIsConfigured, Good
    <3>2. CASE requests[q].kind # "restart"
      <4>1. requests[q].kind \in {"create", "update"} /\ n > 0
        BY <1>1, <1>2, <1>7, <3>2, JobFields DEF WellFormed, Phases
      <4>2. files[o] = [config |-> n, vips |-> n]
        BY <1>1, <1>2, <1>7, <4>1 DEF Good, WellFormed, Phases
      <4> QED
        BY <4>1, <4>2 DEF Configured, Cut
    <3> QED
      BY <3>1, <3>2
  <2>4. ASSUME NEW other \in Others(q) PROVE Good(other)'
    BY <1>3, <1>4, <2>1, <2>2 DEF Good, NewCell, Configured
  <2>5. (RowIsConfigured /\ NeverDefaultConfig /\ ConfigNotTorn)'
    BY <1>3, <2>1, <2>2, <2>3 DEF CInv, RowIsConfigured, NeverDefaultConfig, ConfigNotTorn, Configured
  <2> QED
    BY <2>4, <2>5
<1> QED
  BY <1>5, <1>6, <1>7 DEF InFleet, FleetSteps

LEMMA CInvFleetOk ==
  ASSUME SingleProcess, CInv, LInv, NEW q \in Requests, FleetOk(q)
  PROVE  CInv'
<1>1. /\ requests[q] \in Job /\ WellFormed(requests[q]) /\ Good(requests[q])
      /\ requests[q].org \in Orgs /\ InFleet(q) /\ FleetEffect(q) /\ UNCHANGED cells
  BY IdleHasNoStep, JobFields DEF FleetOk, InFleet, FleetSteps, LInv, CInv
<1>2. PICK o \in Orgs : o = requests[q].org
  BY <1>1
<1>3. PICK job, status :
        /\ requests' = [requests EXCEPT ![q] = job]
        /\ job = [requests[q] EXCEPT !.step = AfterFleet(q), !.status = status]
  <2>1. PICK status : requests' = [requests EXCEPT ![q] =
                        [requests[q] EXCEPT !.step = AfterFleet(q), !.status = status]]
    BY DEF FleetOk
  <2>2. PICK job : job = [requests[q] EXCEPT !.step = AfterFleet(q), !.status = status]
    OBVIOUS
  <2> QED
    BY <2>1, <2>2
<1>4. job.kind = requests[q].kind /\ job.org = o /\ job.step = AfterFleet(q)
  BY <1>1, <1>2, <1>3 DEF Job
<1>5. CASE requests[q].step = "create"
  <2>1. job.step = "write_config" /\ job.kind = "create" /\ requests[q].kind = "create"
    BY <1>1, <1>4, <1>5, JobFields DEF AfterFleet, WellFormed, Phases
  <2>2. cells'[o] = NoCell /\ fleet[o] = "none" /\ fleet'[o] = "created"
    BY <1>1, <1>2, <1>5 DEF FleetEffect, Allowed, Good, LInv, TypeOK
  <2>3. Good(job)'
    BY <1>4, <2>1, <2>2 DEF Good
  <2>4. ASSUME NEW other \in Others(q), NewCell(other) PROVE other.org # o
    <3>1. Good(other)
      BY DEF CInv, Others
    <3> QED
      BY <2>2, <2>4, <3>1 DEF Good, NewCell
  <2> QED
    BY <1>1, <1>3, <1>4, <2>3, <2>4, EffectIsSound, OneMoves
<1>6. CASE requests[q].step # "create"
  <2>1. job.step = "flush"
    BY <1>4, <1>6 DEF AfterFleet
  <2>2. job.kind = "create" =>
          cells'[o] = NoCell /\ fleet'[o] # "none" /\ Configured(o)' /\ Past(q)
    <3> SUFFICES ASSUME job.kind = "create"
                 PROVE  cells'[o] = NoCell /\ fleet'[o] # "none" /\ Configured(o)' /\ Past(q)
      OBVIOUS
    <3>1. requests[q].kind = "create" /\ requests[q].step = "start" /\ Past(q)
      BY <1>1, <1>4, <1>6 DEF InFleet, FleetSteps, WellFormed, Phases, Past
    <3>2. fleet'[o] = "running" /\ files'[o] = files[o] /\ cells'[o] = NoCell
      BY <1>1, <1>2, <3>1 DEF FleetEffect, Good, LInv, TypeOK
    <3>3. Configured(o)'
      BY <1>1, <1>2, <3>1, <3>2 DEF Good, WellFormed, Configured
    <3> QED
      BY <3>1, <3>2, <3>3
  <2>3. Good(job)'
    BY <1>1, <1>2, <1>4, <2>1, <2>2 DEF Good
  <2>4. NewCell(job) => Past(q)
    BY <2>2 DEF NewCell
  <2> QED
    BY <1>1, <1>2, <1>3, <1>4, <2>3, <2>4, EffectIsSound, OneMoves
<1> QED
  BY <1>5, <1>6

LEMMA CInvFleetTimesOut ==
  ASSUME SingleProcess, CInv, LInv, NEW q \in Requests, FleetTimesOut(q)
  PROVE  CInv'
<1>1. InFleet(q) /\ UNCHANGED cells /\ requests' = [requests EXCEPT ![q] = Idle]
  BY DEF FleetTimesOut, GiveUp
<1>2. CASE FleetEffect(q)
  BY <1>1, <1>2, IdleIsNoJob, EffectIsSound, OneMoves
<1>3. CASE UNCHANGED host
  <2>1. \A r \in Requests : requests'[r] = requests[r] \/ requests'[r] = Idle
    BY <1>1 DEF LInv, TypeOK
  <2> QED
    BY <1>1, <1>3, <2>1, CInvQuiet DEF host
<1> QED
  BY <1>2, <1>3 DEF FleetTimesOut

LEMMA CInvFleetFails ==
  ASSUME SingleProcess, CInv, LInv, NEW q \in Requests, FleetFails(q)
  PROVE  CInv'
<1>1. /\ requests[q] \in Job /\ WellFormed(requests[q]) /\ Good(requests[q])
      /\ requests[q].org \in Orgs /\ InFleet(q) /\ UNCHANGED <<cells, files, loaded>>
  BY IdleHasNoStep, JobFields DEF FleetFails, InFleet, FleetSteps, LInv, CInv
<1>2. PICK o \in Orgs : o = requests[q].org
  BY <1>1
<1>3. \A p \in Orgs : fleet'[p] = fleet[p] \/ (fleet[p] # "none" /\ fleet'[p] = "created")
  BY <1>1 DEF FleetFails, LInv, TypeOK
<1>4. \A job \in Job : Good(job) => Good(job)'
  BY <1>1, <1>3 DEF Good, Configured, Job
<1>5. \A other \in Others(q) : Good(other)'
  BY <1>4 DEF Others, CInv
<1>6. (RowIsConfigured /\ NeverDefaultConfig /\ ConfigNotTorn)'
  BY <1>1, <1>3 DEF CInv, RowIsConfigured, NeverDefaultConfig, ConfigNotTorn, Configured
<1>7. CASE requests[q].step \in {"create", "remove"}
  <2>1. requests' = [requests EXCEPT ![q] = Idle]
    BY <1>7 DEF FleetFails
  <2> QED
    BY <1>5, <1>6, <2>1, IdleIsNoJob, OneMoves
<1>8. CASE requests[q].step \notin {"create", "remove"}
  <2>1. PICK job, status :
          /\ requests' = [requests EXCEPT ![q] = job]
          /\ job = [requests[q] EXCEPT !.step = "flush", !.status = status]
    <3>1. PICK status : requests' = [requests EXCEPT ![q] =
                          [requests[q] EXCEPT !.step = "flush", !.status = status]]
      BY <1>8 DEF FleetFails
    <3>2. PICK job : job = [requests[q] EXCEPT !.step = "flush", !.status = status]
      OBVIOUS
    <3> QED
      BY <3>1, <3>2
  <2>2. job.kind = requests[q].kind /\ job.org = o /\ job.step = "flush"
    BY <1>1, <1>2, <2>1 DEF Job
  <2>3. job.kind = "create" =>
          requests[q].step = "start" /\ Past(q) /\ Configured(o)
    BY <1>1, <1>2, <1>8, <2>2 DEF InFleet, FleetSteps, WellFormed, Phases, Past, Good, Configured
  <2>4. Good(job)'
    BY <1>1, <1>2, <1>3, <2>2, <2>3 DEF Good, Configured
  <2>5. NewCell(job) => Past(q)
    BY <2>3 DEF NewCell
  <2> QED
    BY <1>2, <1>5, <1>6, <2>1, <2>2, <2>4, <2>5, OneMoves
<1> QED
  BY <1>7, <1>8

LEMMA CInvCommit ==
  ASSUME CInv, LInv, NEW q \in Requests, Commit(q)
  PROVE  CInv'
<1>1. /\ requests[q] \in Job /\ WellFormed(requests[q]) /\ Good(requests[q])
      /\ requests[q].org \in Orgs /\ UNCHANGED <<fleet, files, loaded>>
  BY IdleHasNoStep, JobFields DEF Commit, LInv, CInv, host
<1>2. PICK o \in Orgs : o = requests[q].org
  BY <1>1
<1>3. \A p \in Orgs : p # o => cells'[p] = cells[p]
  BY <1>2 DEF Commit, LInv, TypeOK
<1>4. requests' = [requests EXCEPT ![q] = Idle] /\ requests[q].step = "commit"
  BY DEF Commit
<1>5. Configured(o)
  BY <1>1, <1>2, <1>4, JobFields DEF Good, CInv, RowIsConfigured
<1>6. ASSUME NEW other \in Others(q) PROVE Good(other)'
  <2>1. PICK r \in Requests \ {q} : other = requests[r] /\ other \in Job
    BY DEF Others
  <2>2. Good(other) /\ other.org \in Orgs
    BY <2>1 DEF CInv, Job
  <2>3. CASE other.org # o
    BY <1>1, <1>3, <2>2, <2>3 DEF Good, Configured
  <2>4. CASE other.org = o
    <3>1. CASE requests[q].kind = "create"
      <4>1. Past(q) /\ fleet[o] # "none"
        BY <1>1, <1>2, <1>4, <3>1 DEF Past, Good
      <4>2. ~NewCell(other)
        BY <1>2, <2>1, <2>4, <4>1 DEF NewCell, Past, CInv, OneNewCell
      <4> QED
        BY <1>1, <2>2, <2>4, <4>1, <4>2 DEF Good, NewCell, Configured
    <3>2. CASE requests[q].kind # "create"
      <4>1. cells[o] # NoCell
        BY <1>1, <1>2, <3>2, JobFields
      <4> QED
        BY <1>1, <2>2, <2>4, <4>1 DEF Good, Configured
    <3> QED
      BY <3>1, <3>2
  <2> QED
    BY <2>3, <2>4
<1>7. (RowIsConfigured /\ NeverDefaultConfig /\ ConfigNotTorn)'
  BY <1>1, <1>3, <1>5 DEF CInv, RowIsConfigured, NeverDefaultConfig, ConfigNotTorn, Configured
<1> QED
  BY <1>4, <1>6, <1>7, IdleIsNoJob, OneMoves

\* A write is cut off and its request ends: the others ask nothing of the files
\* but to be no longer fleet's own.
LEMMA CInvCut ==
  ASSUME SingleProcess, CInv, LInv, UNCHANGED <<cells, fleet, loaded>>,
         NEW q \in Requests, CutOff(q), requests'[q] = Idle,
         \A r \in Requests : requests'[r] = requests[r] \/ requests'[r] = Idle
  PROVE  CInv'
<1>1. requests[q] \in Job /\ requests[q].org \in Orgs
      /\ \A o \in Orgs : o # requests[q].org => files'[o] = files[o]
  BY CutOne DEF LInv
<1>2. Holds(q)
  BY <1>1, JobFields DEF CutOff, Writing, WellFormed, Phases, Holds
<1>3. \A o \in Orgs : Configured(o) => Configured(o)'
  BY <1>1, CutOne DEF LInv, Configured, Cut
<1>4. ASSUME NEW r \in Requests, requests'[r] \in Job PROVE Good(requests[r])'
  <2>1. r # q /\ requests[r] \in Job /\ requests'[r] = requests[r]
    BY <1>4, IdleIsNoJob
  <2>2. Good(requests[r]) /\ WellFormed(requests[r]) /\ requests[r].org \in Orgs
    BY <2>1, JobFields DEF CInv
  <2>3. ~Holds(r)
    BY <1>2, <2>1, HolderIsAlone
  <2>4. requests[r].step \in {"flush", "commit", "restart"}
        /\ (requests[r].step = "restart" => requests[r].kind = "restart")
    BY <2>1, <2>2, <2>3 DEF Holds, WellFormed, Phases
  <2> QED
    BY <1>3, <2>1, <2>2, <2>4 DEF Good
<1>5. \A r \in Requests : Past(r)' => Past(r) /\ requests'[r] = requests[r]
  BY IdleIsNoJob DEF Past
<1>6. OneNewCell'
  BY <1>5 DEF CInv, OneNewCell
<1>7. (RowIsConfigured /\ NeverDefaultConfig /\ ConfigNotTorn)'
  BY <1>3 DEF CInv, RowIsConfigured, NeverDefaultConfig, ConfigNotTorn
<1> QED
  BY <1>4, <1>6, <1>7 DEF CInv

LEMMA CInvNext == ASSUME SingleProcess PROVE CInv /\ LInv /\ [Next]_vars => CInv'
<1> SUFFICES ASSUME CInv, LInv, [Next]_vars PROVE CInv'
  OBVIOUS
<1>1. ASSUME NEW o \in Orgs, ChangeSettings(o) PROVE CInv'
  BY <1>1, CInvQuiet DEF ChangeSettings, host
<1>2. ASSUME NEW r \in Requests, DiskFails(r) PROVE CInv'
  <2>1. /\ \A s \in Requests \ {r} : requests'[s] = requests[s]
        /\ requests'[r] = Idle /\ UNCHANGED <<cells, fleet, loaded>>
    BY <1>2 DEF DiskFails, GiveUp, LInv, TypeOK
  <2>2. CASE UNCHANGED files
    BY <2>1, <2>2, CInvQuiet
  <2>3. CASE CutOff(r)
    BY <2>1, <2>3, CInvCut
  <2> QED
    BY <1>2, <2>2, <2>3 DEF DiskFails
<1>3. ASSUME NEW p \in Processes, Crash(p) PROVE CInv'
  <2>1. \A s \in Requests : requests'[s] = requests[s] \/ requests'[s] = Idle
    BY <1>3 DEF Crash
  <2>2. CASE UNCHANGED files
    BY <1>3, <2>1, <2>2, CInvQuiet DEF Crash
  <2>3. ASSUME NEW r \in Active(p), CutOff(r) PROVE CInv'
    BY <1>3, <2>1, <2>3, CInvCut DEF Active, Crash
  <2> QED
    BY <1>3, <2>2, <2>3 DEF Crash
<1>4. CASE UNCHANGED vars
  BY <1>4, CInvQuiet DEF vars
<1> QED
  BY <1>1, <1>2, <1>3, <1>4, CInvRead, CInvStage, CInvInsertRow, CInvFleetOk, CInvFleetFails,
     CInvFleetTimesOut, CInvFlush, CInvCommit DEF Next, FleetEnds

\* No gateway ever runs with the config that fleet seeds for a new cell, nor, but
\* for the restarts of admins, with a file that a write has left incomplete:
\* staging before every start, within the lock (provision_cell).
THEOREM GatewayConfigured == ASSUME SingleProcess PROVE Spec => []NeverDefaultConfig
<1>1. Init => LInv /\ CInv
  BY LInvInit, CInvInit
<1>2. LInv /\ CInv /\ [Next]_vars => (LInv /\ CInv)'
  BY LInvNext, CInvNext
<1>3. CInv => NeverDefaultConfig
  BY DEF CInv
<1> QED
  BY <1>1, <1>2, <1>3, PTL DEF Spec

\* But for the restarts of admins a gateway never reads two files of different
\* renderings (provision_cell).
THEOREM ConfigWhole == ASSUME SingleProcess PROVE Spec => []ConfigNotTorn
<1>1. Init => LInv /\ CInv
  BY LInvInit, CInvInit
<1>2. LInv /\ CInv /\ [Next]_vars => (LInv /\ CInv)'
  BY LInvNext, CInvNext
<1>3. CInv => ConfigNotTorn
  BY DEF CInv
<1> QED
  BY <1>1, <1>2, <1>3, PTL DEF Spec

------------------------------------------------------------------------------
(* What a step does to one request, in detail: it reads, goes on towards the *)
(* last fleet command, leaves that command, flushes, or ends.                *)

AtEnd(job) == job.step \in {"flush", "commit"}

\* The others wait, and the request keeps what it has read.
Alone(r) == \A s \in Requests \ {r} : requests'[s] = requests[s]

SameJob(r) ==
  /\ requests[r] \in Job /\ requests'[r] \in Job
  /\ requests'[r].kind = requests[r].kind
  /\ requests'[r].org = requests[r].org
  /\ requests'[r].revision = requests[r].revision
  /\ requests'[r].version = requests[r].version
  /\ requests'[r].seen = requests[r].seen

Reads(r) ==
  /\ requests[r] = Idle /\ requests'[r] \in Job /\ Alone(r)
  /\ ~AtEnd(requests'[r]) /\ requests'[r].step # "start"
  /\ requests'[r].kind = "create" =>
       requests'[r].seen = "none" /\ requests'[r].status = "provisioning"
  /\ requests'[r].kind # "create" =>
       /\ requests'[r].seen = cells[requests'[r].org].status
       /\ requests'[r].status = requests'[r].seen
  /\ requests'[r].kind = "update" => requests'[r].version = cells[requests'[r].org].version + 1
  /\ requests'[r].kind = "restart" => requests'[r].org \in Restartable
  /\ requests'[r].kind # "restart" => lock'[ProcessOf[r]] = r
  /\ requests'[r].kind \in {"create", "update"} => requests'[r].revision = settings[requests'[r].org]
  /\ requests'[r].kind \notin {"create", "update"} => requests'[r].revision = 0
  /\ UNCHANGED <<cells, settings, host>>

GoesOn(r) ==
  /\ SameJob(r) /\ Alone(r)
  /\ requests[r].kind \in {"create", "update"}
  /\ requests'[r].status = requests[r].status
  /\ ~AtEnd(requests[r]) /\ ~AtEnd(requests'[r])
  /\ requests'[r].step # "create"
  /\ requests'[r].step = "write_config" => requests[r].step = "create"
  /\ requests'[r].step = "start" => RowFree(r)
  /\ UNCHANGED <<cells, settings, lock>>

CallDone(r) ==
  /\ SameJob(r) /\ Alone(r)
  /\ ~AtEnd(requests[r]) /\ requests'[r].step = "flush"
  /\ requests[r].kind = "create" => requests[r].step = "start"
  /\ fleet[requests[r].org] # "none"
  /\ IF requests[r].kind = "remove"
     THEN requests'[r].status = "deprovisioned" /\ fleet'[requests[r].org] = "none"
     ELSE requests'[r].status = "running" /\ fleet'[requests[r].org] = "running"
  /\ UNCHANGED <<cells, settings, lock>>

CallFailed(r) ==
  /\ SameJob(r) /\ Alone(r)
  /\ ~AtEnd(requests[r]) /\ requests'[r].step = "flush"
  /\ requests[r].kind = "create" => requests[r].step = "start"
  /\ requests[r].kind # "remove"
  /\ requests[r].kind = "restart" \/ requests'[r].status = requests[r].status
  /\ "cli" \in Faults[requests[r].org] \/ fleet[requests[r].org] = "none"
  /\ UNCHANGED <<cells, settings>>

Flushes(r) ==
  /\ SameJob(r) /\ Alone(r)
  /\ requests[r].step = "flush" /\ requests'[r].step = "commit"
  /\ requests'[r].status = requests[r].status
  /\ RowFree(r)
  /\ lock'[ProcessOf[r]] # r
  /\ UNCHANGED <<cells, settings, host>>

Ends(r) ==
  /\ requests[r] \in Job /\ requests'[r] = Idle
  /\ ~AtEnd(requests[r]) \/ Commit(r) \/ "crash" \in Faults[requests[r].org]
  /\ Commit(r) \/ lock'[ProcessOf[r]] # r

Moves(r) ==
  Reads(r) \/ GoesOn(r) \/ CallDone(r) \/ CallFailed(r) \/ Flushes(r) \/ Ends(r)

LEMMA OneRequest ==
  ASSUME LInv, NEW q \in Requests, NEW job, requests' = [requests EXCEPT ![q] = job]
  PROVE  requests'[q] = job /\ Alone(q)
  BY DEF LInv, TypeOK, Alone

LEMMA LockLeft ==
  ASSUME LInv, NEW q \in Requests, lock' = Unlocked(q)
  PROVE  lock'[ProcessOf[q]] # q
  BY ProcessAssumption DEF LInv, TypeOK, Unlocked

LEMMA ReadMoves ==
  ASSUME LInv, LInv', NEW q \in Requests, NEW o \in Orgs,
         ProvisionRead(q, o) \/ RestartRead(q, o) \/ DeprovisionRead(q, o)
  PROVE  Alone(q) /\ Reads(q)
<1>1. requests[q] = Idle /\ UNCHANGED <<cells, settings, host>>
  BY DEF ProvisionRead, RestartRead, DeprovisionRead, CellJob
<1>2. ASSUME NEW job, requests' = [requests EXCEPT ![q] = job], job.step # "idle"
      PROVE  requests'[q] = job /\ Alone(q) /\ requests'[q] \in Job
  <2>1. requests'[q] = job /\ Alone(q)
    BY <1>2, OneRequest
  <2> QED
    BY <1>2, <2>1 DEF LInv, TypeOK, Idle
<1>3. ASSUME lock' = [lock EXCEPT ![ProcessOf[q]] = q] PROVE lock'[ProcessOf[q]] = q
  BY <1>3, ProcessAssumption DEF LInv, TypeOK
<1>4. CASE ProvisionRead(q, o) /\ cells[o] = NoCell
  <2>1. PICK job : job = [step |-> "create", kind |-> "create", org |-> o,
                          revision |-> settings[o], version |-> FirstVersion,
                          seen |-> "none", status |-> "provisioning"]
    OBVIOUS
  <2>2. requests'[q] = job /\ Alone(q) /\ requests'[q] \in Job
    BY <1>2, <1>4, <2>1 DEF ProvisionRead
  <2>3. lock'[ProcessOf[q]] = q
    BY <1>3, <1>4 DEF ProvisionRead
  <2> QED
    BY <1>1, <2>1, <2>2, <2>3 DEF Reads, AtEnd
<1>5. CASE ProvisionRead(q, o) /\ cells[o] # NoCell
  <2>1. PICK job : job = [step |-> "write_config", kind |-> "update", org |-> o,
                          revision |-> settings[o], version |-> cells[o].version + 1,
                          seen |-> cells[o].status, status |-> cells[o].status]
    OBVIOUS
  <2>2. requests'[q] = job /\ Alone(q) /\ requests'[q] \in Job
    BY <1>2, <1>5, <2>1 DEF ProvisionRead
  <2>3. lock'[ProcessOf[q]] = q
    BY <1>3, <1>5 DEF ProvisionRead
  <2> QED
    BY <1>1, <2>1, <2>2, <2>3 DEF Reads, AtEnd
<1>6. ASSUME NEW kind \in {"restart", "remove"}, CellJob(q, o, kind),
             kind = "restart" => o \in Restartable,
             kind = "remove" => lock' = [lock EXCEPT ![ProcessOf[q]] = q]
      PROVE  Alone(q) /\ Reads(q)
  <2>1. PICK job : job = [step |-> kind, kind |-> kind, org |-> o, revision |-> 0,
                          version |-> cells[o].version, seen |-> cells[o].status,
                          status |-> cells[o].status]
    OBVIOUS
  <2>2. requests'[q] = job /\ Alone(q) /\ requests'[q] \in Job
    <3>1. requests' = [requests EXCEPT ![q] = job]
      BY <1>6, <2>1 DEF CellJob
    <3>2. job.step # "idle"
      BY <2>1
    <3> QED
      BY <1>2, <3>1, <3>2
  <2>3. kind = "remove" => lock'[ProcessOf[q]] = q
    BY <1>3, <1>6
  <2> QED
    BY <1>1, <1>6, <2>1, <2>2, <2>3 DEF Reads, AtEnd
<1> QED
  BY <1>4, <1>5, <1>6 DEF RestartRead, DeprovisionRead

LEMMA StageMoves ==
  ASSUME LInv, LInv', NEW q \in Requests, Stage(q)
  PROVE  Alone(q) /\ GoesOn(q)
<1>1. requests[q] \in Job /\ WellFormed(requests[q]) /\ requests[q].kind \in {"create", "update"}
      /\ ~AtEnd(requests[q]) /\ UNCHANGED <<cells, settings, lock>>
  BY IdleHasNoStep, JobFields
     DEF Stage, WriteConfig, WriteVips, LInv, WellFormed, Phases, AtEnd
<1>2. PICK step \in {"write_vips", "insert", "restart"} :
        requests' = [requests EXCEPT ![q] = [requests[q] EXCEPT !.step = step]]
  BY DEF Stage, WriteConfig, WriteVips, Goto
<1>3. requests'[q] = [requests[q] EXCEPT !.step = step] /\ Alone(q)
  BY <1>2, OneRequest
<1>4. SameJob(q) /\ requests'[q].step = step /\ requests'[q].status = requests[q].status
  BY <1>1, <1>3 DEF SameJob, Job
<1> QED
  BY <1>1, <1>2, <1>3, <1>4 DEF GoesOn, AtEnd

LEMMA InsertMoves ==
  ASSUME LInv, LInv', NEW q \in Requests, InsertRow(q)
  PROVE  Alone(q) /\ (GoesOn(q) \/ Ends(q))
<1>1. requests[q] \in Job /\ WellFormed(requests[q]) /\ requests[q].kind = "create"
      /\ ~AtEnd(requests[q]) /\ RowFree(q) /\ UNCHANGED <<cells, settings>>
  BY IdleHasNoStep, JobFields DEF InsertRow, LInv, WellFormed, Phases, AtEnd
<1>2. CASE GiveUp(q)
  BY <1>1, <1>2, OneRequest, LockLeft DEF GiveUp, Ends
<1>3. CASE Goto(q, "start") /\ UNCHANGED lock
  <2>1. requests'[q] = [requests[q] EXCEPT !.step = "start"] /\ Alone(q)
    BY <1>3, OneRequest DEF Goto
  <2>2. SameJob(q) /\ requests'[q].step = "start" /\ requests'[q].status = requests[q].status
    BY <1>1, <2>1 DEF SameJob, Job
  <2> QED
    BY <1>1, <1>3, <2>1, <2>2 DEF GoesOn, AtEnd
<1> QED
  BY <1>2, <1>3 DEF InsertRow

LEMMA FleetOkMoves ==
  ASSUME LInv, LInv', NEW q \in Requests, FleetOk(q)
  PROVE  Alone(q) /\ (GoesOn(q) \/ CallDone(q))
<1>1. requests[q] \in Job /\ WellFormed(requests[q]) /\ requests[q].org \in Orgs
      /\ InFleet(q) /\ FleetEffect(q) /\ ~AtEnd(requests[q]) /\ UNCHANGED <<cells, settings, lock>>
      /\ requests[q].kind \in {"create", "update", "restart", "remove"}
  BY IdleHasNoStep, JobFields DEF FleetOk, InFleet, FleetSteps, LInv, AtEnd
<1>2. PICK status :
        /\ requests' = [requests EXCEPT ![q] =
             [requests[q] EXCEPT !.step = AfterFleet(q), !.status = status]]
        /\ status = CASE requests[q].step = "create" -> requests[q].status
                      [] requests[q].step = "remove" -> "deprovisioned"
                      [] OTHER -> "running"
  BY DEF FleetOk
<1>3. requests'[q] = [requests[q] EXCEPT !.step = AfterFleet(q), !.status = status] /\ Alone(q)
  BY <1>2, OneRequest
<1>4. SameJob(q) /\ requests'[q].step = AfterFleet(q) /\ requests'[q].status = status
  <2>1. requests'[q].step = AfterFleet(q)
    BY <1>1, <1>3 DEF Job
  <2>2. requests'[q] \in Job
    BY <2>1 DEF LInv, TypeOK, Idle, AfterFleet
  <2> QED
    BY <1>1, <1>3, <2>1, <2>2 DEF SameJob, Job
<1>5. CASE requests[q].step = "create"
  <2>1. requests[q].kind = "create" /\ AfterFleet(q) = "write_config" /\ status = requests[q].status
    BY <1>1, <1>2, <1>5 DEF WellFormed, Phases, AfterFleet
  <2> QED
    BY <1>1, <1>3, <1>4, <1>5, <2>1 DEF GoesOn, AtEnd
<1>6. CASE requests[q].step # "create"
  <2>1. AfterFleet(q) = "flush" /\ fleet[requests[q].org] # "none"
    BY <1>1, <1>6 DEF AfterFleet, FleetEffect, Allowed
  <2>2. requests[q].step = "remove" <=> requests[q].kind = "remove"
    BY <1>1, <1>6 DEF WellFormed, Phases, InFleet, FleetSteps
  <2>3. requests[q].kind = "create" => requests[q].step = "start"
    BY <1>1, <1>6 DEF WellFormed, Phases, InFleet, FleetSteps
  <2>4. fleet'[requests[q].org] = IF requests[q].step = "remove" THEN "none" ELSE "running"
    BY <1>1, <1>6 DEF FleetEffect, LInv, TypeOK
  <2>5. status = IF requests[q].step = "remove" THEN "deprovisioned" ELSE "running"
    BY <1>2, <1>6
  <2> QED
    BY <1>1, <1>3, <1>4, <2>1, <2>2, <2>3, <2>4, <2>5 DEF CallDone
<1> QED
  BY <1>5, <1>6

LEMMA FleetFailsMoves ==
  ASSUME LInv, LInv', NEW q \in Requests, FleetFails(q)
  PROVE  Alone(q) /\ (CallFailed(q) \/ Ends(q))
<1>1. requests[q] \in Job /\ WellFormed(requests[q]) /\ requests[q].org \in Orgs
      /\ InFleet(q) /\ ~AtEnd(requests[q]) /\ UNCHANGED <<cells, settings>>
      /\ requests[q].kind \in {"create", "update", "restart", "remove"}
  BY IdleHasNoStep, JobFields DEF FleetFails, InFleet, FleetSteps, LInv, AtEnd
<1>2. CASE requests[q].step \in {"create", "remove"}
  <2>1. requests' = [requests EXCEPT ![q] = Idle]
    BY <1>2 DEF FleetFails
  <2> QED
    BY <1>1, <2>1, OneRequest, LockLeft DEF Ends, FleetFails
<1>3. CASE requests[q].step \notin {"create", "remove"}
  <2>1. PICK status :
          /\ requests' = [requests EXCEPT ![q] =
               [requests[q] EXCEPT !.step = "flush", !.status = status]]
          /\ requests[q].kind = "restart" \/ status = requests[q].status
    BY <1>3 DEF FleetFails
  <2>2. requests'[q] = [requests[q] EXCEPT !.step = "flush", !.status = status] /\ Alone(q)
    BY <2>1, OneRequest
  <2>3. SameJob(q) /\ requests'[q].step = "flush" /\ requests'[q].status = status
    <3>1. requests'[q].step = "flush"
      BY <1>1, <2>2 DEF Job
    <3>2. requests'[q] \in Job
      BY <3>1 DEF LInv, TypeOK, Idle
    <3> QED
      BY <1>1, <2>2, <3>1, <3>2 DEF SameJob, Job
  <2>4. requests[q].kind # "remove" /\ (requests[q].kind = "create" => requests[q].step = "start")
    BY <1>1, <1>3 DEF WellFormed, Phases, InFleet, FleetSteps
  <2>5. "cli" \in Faults[requests[q].org] \/ fleet[requests[q].org] = "none"
    BY <1>3 DEF FleetFails, Fails, Allowed
  <2> QED
    BY <1>1, <2>1, <2>2, <2>3, <2>4, <2>5 DEF CallFailed
<1> QED
  BY <1>2, <1>3

LEMMA FlushMoves ==
  ASSUME LInv, LInv', NEW q \in Requests, Flush(q)
  PROVE  Alone(q) /\ Flushes(q)
<1>1. requests[q] \in Job
  BY IdleHasNoStep DEF Flush, LInv
<1>2. requests'[q] = [requests[q] EXCEPT !.step = "commit"] /\ Alone(q)
  BY OneRequest DEF Flush, Goto
<1>3. SameJob(q) /\ requests'[q].step = "commit" /\ requests'[q].status = requests[q].status
  BY <1>1, <1>2 DEF SameJob, Job
<1> QED
  BY <1>2, <1>3, LockLeft DEF Flush, Flushes

LEMMA EndMoves ==
  ASSUME LInv, LInv', NEW q \in Requests, DiskFails(q) \/ FleetTimesOut(q) \/ Commit(q)
  PROVE  Alone(q) /\ Ends(q)
<1>1. requests[q] \in Job
  BY IdleHasNoStep DEF DiskFails, Writing, FleetTimesOut, InFleet, FleetSteps, Commit, LInv
<1>2. requests' = [requests EXCEPT ![q] = Idle]
  BY DEF DiskFails, FleetTimesOut, GiveUp, Commit
<1>3. ~AtEnd(requests[q]) \/ Commit(q)
  BY DEF DiskFails, Writing, FleetTimesOut, InFleet, FleetSteps, AtEnd
<1>4. Commit(q) \/ lock'[ProcessOf[q]] # q
  BY LockLeft DEF DiskFails, FleetTimesOut, GiveUp
<1> QED
  BY <1>1, <1>2, <1>3, <1>4, OneRequest DEF Ends

LEMMA JobGoes ==
  ASSUME LInv, [Next]_vars, NEW r \in Requests, requests'[r] # requests[r]
  PROVE  Moves(r)
<1>1. LInv'
  BY LInvNext
<1>2. ASSUME NEW q \in Requests, Alone(q), Moves(q) PROVE Moves(r)
  BY <1>2 DEF Alone
<1>3. ASSUME NEW p \in Processes, Crash(p) PROVE Ends(r)
  <2>1. requests[r] # Idle /\ requests'[r] = Idle /\ ProcessOf[r] = p
    BY <1>3 DEF Crash
  <2>2. "crash" \in Faults[requests[r].org]
    BY <1>3, <2>1 DEF Crash, Active, Fails
  <2>3. lock'[ProcessOf[r]] # r
    BY <1>3, <2>1, ProcessAssumption DEF Crash, LInv, TypeOK
  <2> QED
    BY <2>1, <2>2, <2>3 DEF Ends, LInv, TypeOK
<1>4. CASE UNCHANGED requests
  BY <1>4
<1> QED
  BY <1>1, <1>2, <1>3, <1>4, ReadMoves, StageMoves, InsertMoves, FleetOkMoves, FleetFailsMoves,
     FlushMoves, EndMoves DEF Next, ChangeSettings, FleetEnds, vars, Moves

\* A request that stays where it is keeps the lock.
LEMMA LockStays ==
  ASSUME LInv, [Next]_vars, NEW r \in Requests, lock[ProcessOf[r]] = r,
         requests'[r] = requests[r], requests[r] # Idle
  PROVE  lock'[ProcessOf[r]] = r
<1>1. ProcessOf[r] \in Processes /\ r # NoRequest
  BY ProcessAssumption
<1>2. ASSUME NEW q \in Requests, NEW o \in Orgs,
             ProvisionRead(q, o) \/ RestartRead(q, o) \/ DeprovisionRead(q, o)
      PROVE  lock'[ProcessOf[r]] = r
  BY <1>1, <1>2, ProcessAssumption
     DEF ProvisionRead, RestartRead, DeprovisionRead, LockFree, LInv, TypeOK
<1>3. ASSUME NEW q \in Requests, lock' = Unlocked(q), requests'[q] # requests[q]
      PROVE  lock'[ProcessOf[r]] = r
  BY <1>1, <1>3, ProcessAssumption DEF Unlocked, LInv, TypeOK
<1>4. ASSUME NEW q \in Requests, GiveUp(q), requests[q].step # "idle"
      PROVE  lock'[ProcessOf[r]] = r
  <2>1. requests'[q] # requests[q]
    BY <1>4 DEF GiveUp, LInv, TypeOK, Idle
  <2> QED
    BY <1>3, <1>4, <2>1 DEF GiveUp
<1>5. ASSUME NEW q \in Requests, FleetFails(q) PROVE lock'[ProcessOf[r]] = r
  <2>1. requests'[q] # requests[q]
    <3>1. LInv' /\ ~AtEnd(requests[q]) /\ requests[q] \in Job
      BY <1>5, LInvNext, IdleHasNoStep DEF FleetFails, InFleet, FleetSteps, AtEnd, LInv
    <3>2. CallFailed(q) \/ Ends(q)
      BY <1>5, <3>1, FleetFailsMoves
    <3> QED
      BY <3>1, <3>2, IdleIsNoJob DEF CallFailed, Ends, AtEnd
  <2> QED
    BY <1>3, <1>5, <2>1 DEF FleetFails
<1>6. ASSUME NEW q \in Requests, Flush(q) PROVE lock'[ProcessOf[r]] = r
  <2>1. requests'[q] # requests[q]
    BY <1>6, LInvNext, FlushMoves DEF Flushes
  <2> QED
    BY <1>3, <1>6, <2>1 DEF Flush
<1>7. ASSUME NEW p \in Processes, Crash(p) PROVE lock'[ProcessOf[r]] = r
  <2>1. p # ProcessOf[r]
    BY <1>7 DEF Crash
  <2> QED
    BY <1>1, <1>7, <2>1 DEF Crash, LInv, TypeOK
<1> QED
  BY <1>2, <1>4, <1>5, <1>6, <1>7
     DEF Next, ChangeSettings, Stage, WriteConfig, WriteVips, DiskFails, Writing, InsertRow,
         FleetEnds, FleetOk, FleetTimesOut, InFleet, FleetSteps, Commit, vars

\* The container of an org comes back only for an org without a row, and it goes
\* with the removal that holds the lock.
LEMMA FleetGoes ==
  ASSUME LInv, CInv, [Next]_vars, NEW o \in Orgs, fleet'[o] # fleet[o]
  PROVE  /\ UNCHANGED <<cells, settings>>
         /\ \/ fleet'[o] # "none" /\ (fleet[o] = "none" => cells[o] = NoCell)
            \/ fleet'[o] = "none" /\ \E q \in Requests :
                 /\ Holds(q) /\ requests[q].kind = "remove" /\ requests[q].org = o
                 /\ CallDone(q) \/ "timeout" \in Faults[o]
<1>1. \A q \in Requests : FleetOk(q) => Alone(q) /\ (GoesOn(q) \/ CallDone(q))
  BY LInvNext, FleetOkMoves
<1>2. PICK q \in Requests : FleetOk(q) \/ FleetFails(q) \/ FleetTimesOut(q)
  BY DEF Next, ChangeSettings, ProvisionRead, RestartRead, DeprovisionRead, CellJob, Stage,
         WriteConfig, WriteVips, DiskFails, InsertRow, FleetEnds, Flush, Commit, Crash, vars, host
<1>3. requests[q] \in Job /\ WellFormed(requests[q]) /\ Good(requests[q])
      /\ requests[q].org \in Orgs /\ InFleet(q)
      /\ requests[q].kind \in {"create", "update", "restart", "remove"}
  BY <1>2, IdleHasNoStep, JobFields DEF FleetOk, FleetFails, FleetTimesOut, InFleet, FleetSteps, LInv, CInv
<1>4. UNCHANGED <<cells, settings>>
  BY <1>2 DEF FleetOk, FleetFails, FleetTimesOut
<1>5. CASE FleetEffect(q)
  <2>1. requests[q].org = o /\ Allowed(q)
    BY <1>3, <1>5 DEF FleetEffect, LInv, TypeOK
  <2>2. CASE requests[q].step = "remove"
    <3>1. requests[q].kind = "remove" /\ Holds(q)
      BY <1>3, <2>2 DEF WellFormed, Phases, Holds
    <3>2. fleet'[o] = "none" /\ fleet[o] # "none"
      BY <1>5, <2>1, <2>2 DEF FleetEffect, Allowed, LInv, TypeOK
    <3>3. CASE FleetOk(q)
      <4>1. ~GoesOn(q)
        BY <3>1 DEF GoesOn
      <4> QED
        BY <1>1, <1>4, <2>1, <3>1, <3>2, <3>3, <4>1
    <3>4. CASE FleetFails(q)
      BY <3>2, <3>4 DEF FleetFails, LInv, TypeOK
    <3>5. CASE FleetTimesOut(q)
      BY <1>4, <2>1, <3>1, <3>2, <3>5 DEF FleetTimesOut, Fails
    <3> QED
      BY <1>2, <3>3, <3>4, <3>5
  <2>3. CASE requests[q].step # "remove"
    <3>1. fleet'[o] # "none"
      BY <1>5, <2>1, <2>3 DEF FleetEffect, LInv, TypeOK
    <3>2. fleet[o] = "none" => cells[o] = NoCell
      BY <1>3, <2>1 DEF Allowed, Good
    <3> QED
      BY <1>4, <3>1, <3>2
  <2> QED
    BY <2>2, <2>3
<1>6. CASE FleetFails(q)
  <2>1. fleet'[o] = "created" /\ fleet[o] = "running"
    BY <1>3, <1>6 DEF FleetFails, LInv, TypeOK
  <2> QED
    BY <1>4, <2>1
<1> QED
  BY <1>2, <1>5, <1>6 DEF FleetOk, FleetTimesOut, host

\* Only a commit writes a row.
LEMMA CellsGo ==
  ASSUME LInv, [Next]_vars, NEW o \in Orgs, cells'[o] # cells[o]
  PROVE  \E q \in Requests :
           /\ Commit(q) /\ requests[q] \in Job /\ requests[q].org = o
           /\ requests[q].step = "commit" /\ Alone(q)
           /\ cells'[o] = Written(requests[q], cells[o])
           /\ UNCHANGED <<settings, host, lock>>
<1>1. PICK q \in Requests : Commit(q)
  BY DEF Next, ChangeSettings, ProvisionRead, RestartRead, DeprovisionRead, CellJob, Stage,
         WriteConfig, WriteVips, DiskFails, InsertRow, FleetEnds, FleetOk, FleetFails,
         FleetTimesOut, Flush, Crash, vars
<1>2. requests[q] \in Job /\ requests[q].org \in Orgs
  BY <1>1, IdleHasNoStep, JobFields DEF Commit, LInv
<1>3. requests[q].org = o
  BY <1>1, <1>2 DEF Commit, LInv, TypeOK
<1>4. cells'[o] = Written(requests[q], cells[o])
  BY <1>1, <1>3 DEF Commit, LInv, TypeOK
<1>5. requests' = [requests EXCEPT ![q] = Idle] /\ requests[q].step = "commit"
  BY <1>1 DEF Commit
<1>6. Alone(q)
  BY <1>5, OneRequest
<1>7. UNCHANGED <<settings, host, lock>>
  BY <1>1 DEF Commit
<1> QED
  BY <1>1, <1>2, <1>3, <1>4, <1>5, <1>6, <1>7

------------------------------------------------------------------------------
(* The row and the fleet.  A removal finds the container, takes it away while *)
(* it holds the lock, and writes the row when it commits; what a provisioning *)
(* has yet to write as "running" is held against that: at its flush by the    *)
(* lock, afterwards by the row, for which the removal waits.                  *)

Of(r, o) == requests[r] \in Job /\ requests[r].org = o

\* The session is about to set the status to "running".
Ahead(job) == job.kind # "remove" /\ job.status = "running" /\ job.seen # "running"

Removes(r, o) == Of(r, o) /\ requests[r].kind = "remove"

\* What a job writes follows from how far it came.
Sound(job) ==
  /\ job.kind = "create" =>
       /\ job.seen = "none" /\ job.status \in {"provisioning", "running"}
       /\ ~AtEnd(job) => job.status = "provisioning"
  /\ job.kind = "update" =>
       job.status \in {job.seen, "running"} /\ (~AtEnd(job) => job.status = job.seen)
  /\ job.kind = "remove" =>
       IF AtEnd(job)
       THEN job.status = "deprovisioned" /\ job.seen # "deprovisioned" /\ fleet[job.org] = "none"
       ELSE job.status = job.seen /\ (job.seen = "deprovisioned" => fleet[job.org] = "none")

Calm(o) == Faults[o] \intersect {"timeout", "crash"} = {}

JobsSound(o) == \A r \in Requests : Of(r, o) => Sound(requests[r])

AheadLocks(o) ==
  \A r \in Requests : Of(r, o) /\ Ahead(requests[r]) /\ requests[r].step = "flush" =>
    lock[ProcessOf[r]] = r /\ fleet[o] # "none"

AheadCommits(o) ==
  Calm(o) => \A r \in Requests : Of(r, o) /\ Ahead(requests[r]) /\ requests[r].step = "commit" =>
    fleet[o] # "none" \/ \E s \in Requests : Removes(s, o) /\ requests[s].step = "flush"

GoneIsWritten(o) ==
  Calm(o) /\ cells[o] # NoCell /\ fleet[o] = "none" =>
    \/ cells[o].status = "deprovisioned"
    \/ \E s \in Requests : Removes(s, o) /\ AtEnd(requests[s])

RowFits(o) ==
  /\ DeprovisionedHasNoCell(o) /\ JobsSound(o)
  /\ AheadLocks(o) /\ AheadCommits(o) /\ GoneIsWritten(o)

FInv == \A o \in Orgs \ Restartable : RowFits(o)

LEMMA OfJob ==
  ASSUME LInv, CInv, NEW o \in Orgs \ Restartable, NEW r \in Requests, Of(r, o)
  PROVE  /\ requests[r].kind \in {"create", "update", "remove"} /\ requests[r] # Idle
         /\ WellFormed(requests[r]) /\ Good(requests[r])
         /\ requests[r].kind # "create" => cells[o] # NoCell
         /\ requests[r].kind = "create" /\ AtEnd(requests[r]) =>
              cells[o] = NoCell /\ fleet[o] # "none"
<1>1. WellFormed(requests[r]) /\ Good(requests[r]) /\ requests[r] # Idle
      /\ requests[r].kind \in {"create", "update", "restart", "remove"}
      /\ (requests[r].kind # "create" => cells[o] # NoCell)
  BY JobFields, IdleIsNoJob DEF Of, CInv
<1>2. requests[r].kind # "restart"
  BY <1>1 DEF Of, Good
<1>3. requests[r].kind = "create" /\ AtEnd(requests[r]) => cells[o] = NoCell /\ fleet[o] # "none"
  BY <1>1 DEF Of, Good, AtEnd
<1> QED
  BY <1>1, <1>2, <1>3

\* Once it has gone, the container of an org with a row does not come back.
LEMMA GoneStays ==
  ASSUME LInv, CInv, [Next]_vars, NEW o \in Orgs, cells[o] # NoCell, fleet[o] = "none"
  PROVE  fleet'[o] = "none"
  BY FleetGoes

LEMMA FInvInit == Init => FInv
<1> SUFFICES ASSUME Init, NEW o \in Orgs \ Restartable PROVE RowFits(o)
  BY DEF FInv
<1>1. \A r \in Requests : requests[r] \notin Job
  BY IdleIsNoJob DEF Init
<1>2. cells[o] = NoCell /\ NoCell.status = "none"
  BY DEF Init, NoCell
<1> QED
  BY <1>1, <1>2 DEF RowFits, DeprovisionedHasNoCell, JobsSound, AheadLocks, AheadCommits,
                    GoneIsWritten, Of

LEMMA DeprovisionedNext ==
  ASSUME LInv, CInv, [Next]_vars, NEW o \in Orgs \ Restartable, RowFits(o)
  PROVE  DeprovisionedHasNoCell(o)'
<1>1. CASE cells'[o] = cells[o]
  <2> SUFFICES ASSUME cells[o].status = "deprovisioned" PROVE fleet'[o] = "none"
    BY <1>1 DEF DeprovisionedHasNoCell
  <2>1. fleet[o] = "none" /\ cells[o] # NoCell
    BY DEF RowFits, DeprovisionedHasNoCell, NoCell
  <2> QED
    BY <2>1, GoneStays
<1>2. CASE cells'[o] # cells[o]
  <2>1. PICK q \in Requests :
          /\ Of(q, o) /\ requests[q].step = "commit"
          /\ cells'[o] = Written(requests[q], cells[o])
          /\ fleet' = fleet
    BY <1>2, CellsGo DEF Of, host
  <2>2. requests[q].kind \in {"create", "update", "remove"} /\ Sound(requests[q]) /\ AtEnd(requests[q])
    BY <2>1, OfJob DEF RowFits, JobsSound, AtEnd
  <2>3. CASE cells'[o].status = "deprovisioned" /\ cells[o].status # "deprovisioned"
    <3>1. requests[q].kind = "remove"
      BY <2>1, <2>2, <2>3 DEF Written, Sound
    <3> QED
      BY <2>1, <2>2, <3>1 DEF Sound, Of, DeprovisionedHasNoCell
  <2> QED
    BY <2>1, <2>3 DEF DeprovisionedHasNoCell, RowFits
<1> QED
  BY <1>1, <1>2

LEMMA SoundNext ==
  ASSUME LInv, CInv, [Next]_vars, NEW o \in Orgs \ Restartable, RowFits(o)
  PROVE  JobsSound(o)'
<1> SUFFICES ASSUME NEW r \in Requests, Of(r, o)' PROVE Sound(requests[r])'
  BY DEF JobsSound
<1>2. PICK job : job = requests'[r]
  OBVIOUS
<1>3. job \in Job /\ job.org = o /\ fleet'[o] \in {"none", "created", "running"}
  BY <1>2, LInvNext DEF Of, LInv, TypeOK
<1>4. ASSUME Of(r, o), requests[r].kind = "remove", fleet[o] = "none" PROVE fleet'[o] = "none"
  BY <1>4, OfJob, GoneStays
<1>5. CASE requests'[r] = requests[r]
  <2>1. Of(r, o) /\ Sound(requests[r])
    BY <1>5 DEF Of, RowFits, JobsSound
  <2> QED
    BY <1>4, <1>5, <2>1 DEF Sound, AtEnd, Of
<1>6. CASE Reads(r)
  <2>1. job.kind = "create" => job.seen = "none" /\ job.status = "provisioning"
    BY <1>2, <1>6 DEF Reads
  <2>2. job.kind # "create" => job.status = job.seen /\ job.seen = cells[o].status
    BY <1>2, <1>3, <1>6 DEF Reads
  <2>3. ~AtEnd(job) /\ fleet' = fleet
    BY <1>2, <1>6 DEF Reads, host
  <2>4. cells[o].status = "deprovisioned" => fleet[o] = "none"
    BY DEF RowFits, DeprovisionedHasNoCell
  <2> QED
    BY <1>2, <1>3, <2>1, <2>2, <2>3, <2>4 DEF Sound, AtEnd
<1>7. CASE Moves(r) /\ ~Reads(r)
  <2>1. SameJob(r) /\ Of(r, o) /\ Sound(requests[r])
    <3>1. ~Ends(r)
      BY <1>2, <1>3, IdleIsNoJob DEF Ends
    <3>2. SameJob(r)
      BY <1>7, <3>1 DEF Moves, GoesOn, CallDone, CallFailed, Flushes
    <3> QED
      BY <1>2, <1>3, <3>2 DEF SameJob, Of, RowFits, JobsSound
  <2>2. /\ job.kind = requests[r].kind /\ job.seen = requests[r].seen /\ requests[r].org = o
        /\ job.kind \in {"create", "update", "remove"}
    BY <1>2, <2>1, OfJob DEF SameJob, Of
  <2>3. CASE GoesOn(r)
    BY <1>2, <1>3, <2>1, <2>2, <2>3 DEF GoesOn, Sound
  <2>4. CASE CallDone(r)
    <3>1. AtEnd(job) /\ ~AtEnd(requests[r]) /\ fleet[o] # "none"
          /\ IF job.kind = "remove" THEN job.status = "deprovisioned" /\ fleet'[o] = "none"
             ELSE job.status = "running"
      BY <1>2, <2>2, <2>4 DEF CallDone, AtEnd
    <3> QED
      BY <1>2, <1>3, <2>1, <2>2, <3>1 DEF Sound, AtEnd
  <2>5. CASE CallFailed(r)
    <3>1. AtEnd(job) /\ ~AtEnd(requests[r]) /\ job.status = requests[r].status /\ job.kind # "remove"
      BY <1>2, <2>2, <2>5 DEF CallFailed, AtEnd
    <3> QED
      BY <1>2, <1>3, <2>1, <2>2, <3>1 DEF Sound, AtEnd
  <2>6. CASE Flushes(r)
    <3>1. AtEnd(job) /\ AtEnd(requests[r]) /\ job.status = requests[r].status /\ fleet' = fleet
      BY <1>2, <2>2, <2>6 DEF Flushes, AtEnd, host
    <3> QED
      BY <1>2, <1>3, <2>1, <2>2, <3>1 DEF Sound, AtEnd
  <2> QED
    BY <1>2, <1>3, <1>7, <2>3, <2>4, <2>5, <2>6, IdleIsNoJob DEF Moves, Ends
<1> QED
  BY <1>5, <1>6, <1>7, JobGoes

LEMMA AheadLocksNext ==
  ASSUME SingleProcess, LInv, CInv, [Next]_vars, NEW o \in Orgs \ Restartable, RowFits(o)
  PROVE  AheadLocks(o)'
<1> SUFFICES ASSUME NEW r \in Requests, Of(r, o)', Ahead(requests[r])', requests'[r].step = "flush"
             PROVE  lock'[ProcessOf[r]] = r /\ fleet'[o] # "none"
  BY DEF AheadLocks
<1>1. CASE requests'[r] = requests[r]
  <2>1. Of(r, o) /\ Ahead(requests[r]) /\ requests[r].step = "flush" /\ requests[r] # Idle
    BY <1>1, IdleIsNoJob DEF Of, Ahead
  <2>2. lock[ProcessOf[r]] = r /\ fleet[o] # "none"
    BY <2>1 DEF RowFits, AheadLocks
  <2>3. lock'[ProcessOf[r]] = r
    BY <1>1, <2>1, <2>2, LockStays
  <2>4. fleet'[o] # "none"
    <3> SUFFICES ASSUME fleet'[o] = "none" PROVE FALSE
      OBVIOUS
    <3>1. PICK q \in Requests : Holds(q)
      BY <2>2, FleetGoes
    <3>2. lock[ProcessOf[q]] = q
      BY <3>1 DEF LInv, LockHeld
    <3>3. q = r
      BY <2>2, <3>2 DEF SingleProcess
    <3> QED
      BY <2>1, <3>1, <3>3 DEF Holds
  <2> QED
    BY <2>3, <2>4
<1>2. CASE requests'[r] # requests[r]
  <2>1. CallDone(r) \/ CallFailed(r)
    <3>1. ~Reads(r) /\ ~GoesOn(r) /\ ~Flushes(r)
      BY DEF Reads, GoesOn, Flushes, AtEnd
    <3>2. ~Ends(r)
      BY IdleIsNoJob DEF Of, Ends
    <3> QED
      BY <1>2, <3>1, <3>2, JobGoes DEF Moves
  <2>2. SameJob(r) /\ Of(r, o) /\ ~AtEnd(requests[r]) /\ Sound(requests[r])
        /\ requests[r].kind \in {"create", "update", "remove"}
    <3>1. SameJob(r) /\ Of(r, o) /\ ~AtEnd(requests[r])
      BY <2>1 DEF CallDone, CallFailed, SameJob, Of
    <3> QED
      BY <3>1, OfJob DEF RowFits, JobsSound
  <2>3. ~CallFailed(r)
    <3> SUFFICES ASSUME CallFailed(r) PROVE FALSE
      OBVIOUS
    <3>1. requests'[r].status = requests[r].status /\ requests'[r].seen = requests[r].seen
      BY <2>2 DEF CallFailed, SameJob
    <3>2. requests[r].status # "running" \/ requests[r].seen = "running"
      BY <2>2 DEF Sound, CallFailed
    <3> QED
      BY <3>1, <3>2 DEF Ahead
  <2>4. CallDone(r) /\ requests[r].kind # "remove"
    BY <2>1, <2>2, <2>3 DEF Ahead, SameJob
  <2>5. Holds(r)
    BY <2>2 DEF Holds, Of, AtEnd
  <2> QED
    BY <2>2, <2>4, <2>5 DEF CallDone, LInv, LockHeld, Of
<1> QED
  BY <1>1, <1>2

LEMMA AheadCommitsNext ==
  ASSUME LInv, CInv, [Next]_vars, NEW o \in Orgs \ Restartable, RowFits(o)
  PROVE  AheadCommits(o)'
<1> SUFFICES ASSUME Calm(o), NEW r \in Requests,
                    Of(r, o)', Ahead(requests[r])', requests'[r].step = "commit", fleet'[o] = "none"
             PROVE  \E s \in Requests : Removes(s, o)' /\ requests'[s].step = "flush"
  BY DEF AheadCommits, Calm
<1>1. CASE requests'[r] # requests[r]
  <2>1. Flushes(r)
    <3>1. ~Reads(r) /\ ~GoesOn(r) /\ ~CallDone(r) /\ ~CallFailed(r)
      BY DEF Reads, GoesOn, CallDone, CallFailed, AtEnd
    <3>2. ~Ends(r)
      BY IdleIsNoJob DEF Of, Ends
    <3> QED
      BY <1>1, <3>1, <3>2, JobGoes DEF Moves
  <2>2. Of(r, o) /\ Ahead(requests[r]) /\ requests[r].step = "flush" /\ fleet' = fleet
    BY <2>1 DEF Flushes, SameJob, Of, Ahead, host
  <2> QED
    BY <2>2 DEF RowFits, AheadLocks
<1>2. CASE requests'[r] = requests[r]
  <2>1. Of(r, o) /\ Ahead(requests[r]) /\ requests[r].step = "commit" /\ HoldsRow(r, o)
    <3>1. Of(r, o) /\ Ahead(requests[r]) /\ requests[r].step = "commit"
      BY <1>2 DEF Of, Ahead
    <3> QED
      BY <3>1, OfJob DEF HoldsRow, Of
  <2>2. CASE fleet[o] # "none"
    <3>1. "timeout" \notin Faults[o]
      BY DEF Calm
    <3>2. PICK q \in Requests : requests[q].kind = "remove" /\ requests[q].org = o /\ CallDone(q)
      BY <2>2, <3>1, FleetGoes
    <3>3. Removes(q, o)' /\ requests'[q].step = "flush"
      BY <3>2 DEF CallDone, SameJob, Removes, Of
    <3> QED
      BY <3>3
  <2>3. CASE fleet[o] = "none"
    <3>1. PICK s \in Requests : Removes(s, o) /\ requests[s].step = "flush"
      BY <2>1, <2>3 DEF RowFits, AheadCommits
    <3>2. requests'[s] = requests[s]
      <4> SUFFICES ASSUME requests'[s] # requests[s] PROVE FALSE
        OBVIOUS
      <4>1. ~Reads(s) /\ ~GoesOn(s) /\ ~CallDone(s) /\ ~CallFailed(s)
        BY <3>1, IdleIsNoJob DEF Reads, GoesOn, CallDone, CallFailed, AtEnd
      <4>2. ~Ends(s)
        BY <3>1 DEF Ends, Commit, Calm, AtEnd, Removes, Of
      <4>3. ~Flushes(s)
        <5>1. r # s
          BY <2>1, <3>1
        <5> QED
          BY <2>1, <3>1, <5>1 DEF Flushes, RowFree, Removes, Of
      <4> QED
        BY <4>1, <4>2, <4>3, JobGoes DEF Moves
    <3> QED
      BY <3>1, <3>2 DEF Removes, Of
  <2> QED
    BY <2>2, <2>3
<1> QED
  BY <1>1, <1>2

LEMMA GoneNext ==
  ASSUME LInv, CInv, [Next]_vars, NEW o \in Orgs \ Restartable, RowFits(o)
  PROVE  GoneIsWritten(o)'
<1> SUFFICES ASSUME Calm(o), cells'[o] # NoCell, fleet'[o] = "none"
             PROVE  \/ cells'[o].status = "deprovisioned"
                    \/ \E s \in Requests : Removes(s, o)' /\ AtEnd(requests[s])'
  BY DEF GoneIsWritten, Calm
<1>1. "timeout" \notin Faults[o] /\ "crash" \notin Faults[o]
  BY DEF Calm
<1>2. CASE fleet[o] # "none"
  <2>1. PICK q \in Requests : requests[q].kind = "remove" /\ requests[q].org = o /\ CallDone(q)
    BY <1>1, <1>2, FleetGoes
  <2>2. Removes(q, o)' /\ AtEnd(requests[q])'
    BY <2>1 DEF CallDone, SameJob, Removes, Of, AtEnd
  <2> QED
    BY <2>2
<1>3. ASSUME NEW s \in Requests, Removes(s, o), AtEnd(requests[s]), ~Commit(s)
      PROVE  Removes(s, o)' /\ AtEnd(requests[s])'
  <2>1. CASE requests'[s] = requests[s]
    BY <1>3, <2>1 DEF Removes, Of, AtEnd
  <2>2. CASE requests'[s] # requests[s]
    <3>1. ~Reads(s) /\ ~GoesOn(s) /\ ~CallDone(s) /\ ~CallFailed(s)
      BY <1>3, IdleIsNoJob DEF Reads, GoesOn, CallDone, CallFailed, Removes, Of
    <3>2. ~Ends(s)
      BY <1>1, <1>3 DEF Ends, Removes, Of
    <3>3. Flushes(s)
      BY <2>2, <3>1, <3>2, JobGoes DEF Moves
    <3> QED
      BY <1>3, <3>3 DEF Flushes, SameJob, Removes, Of, AtEnd
  <2> QED
    BY <2>1, <2>2
<1>4. CASE fleet[o] = "none" /\ cells'[o] = cells[o]
  <2>1. CASE cells[o].status = "deprovisioned"
    BY <1>4, <2>1
  <2>2. CASE cells[o].status # "deprovisioned"
    <3>1. PICK s \in Requests : Removes(s, o) /\ AtEnd(requests[s])
      BY <1>4, <2>2 DEF RowFits, GoneIsWritten
    <3>2. ~Commit(s)
      <4> SUFFICES ASSUME Commit(s) PROVE FALSE
        OBVIOUS
      <4>1. requests[s].org = o /\ requests[s].status = "deprovisioned" /\ requests[s].seen # "deprovisioned"
            /\ requests[s].kind = "remove"
        BY <3>1 DEF RowFits, JobsSound, Sound, Removes, Of
      <4>2. cells'[o] = Written(requests[s], cells[o])
        BY <4>1 DEF Commit, LInv, TypeOK
      <4> QED
        BY <1>4, <2>2, <4>1, <4>2 DEF Written
    <3> QED
      BY <1>3, <3>1, <3>2
  <2> QED
    BY <2>1, <2>2
<1>5. CASE fleet[o] = "none" /\ cells'[o] # cells[o]
  <2>1. PICK q \in Requests :
          /\ Of(q, o) /\ requests[q].step = "commit" /\ Commit(q) /\ Alone(q)
          /\ cells'[o] = Written(requests[q], cells[o])
    BY <1>5, CellsGo DEF Of
  <2>2. requests[q].kind \in {"update", "remove"} /\ Sound(requests[q]) /\ cells[o] # NoCell
        /\ AtEnd(requests[q])
    BY <1>5, <2>1, OfJob DEF RowFits, JobsSound, AtEnd
  <2>3. CASE requests[q].kind = "remove"
    BY <2>1, <2>2, <2>3 DEF Sound, Written
  <2>4. CASE requests[q].kind = "update" /\ Ahead(requests[q])
    <3>1. PICK s \in Requests : Removes(s, o) /\ requests[s].step = "flush"
      BY <1>5, <2>1, <2>4 DEF RowFits, AheadCommits
    <3>2. ~Commit(s) /\ AtEnd(requests[s])
      BY <3>1 DEF Commit, AtEnd
    <3> QED
      BY <1>3, <3>1, <3>2
  <2>5. CASE requests[q].kind = "update" /\ ~Ahead(requests[q])
    <3>1. cells'[o].status = cells[o].status
      BY <2>1, <2>2, <2>5 DEF Sound, Ahead, Written
    <3>2. CASE cells[o].status = "deprovisioned"
      BY <3>1, <3>2
    <3>3. CASE cells[o].status # "deprovisioned"
      <4>1. PICK s \in Requests : Removes(s, o) /\ AtEnd(requests[s])
        BY <1>5, <2>2, <3>3 DEF RowFits, GoneIsWritten
      <4>2. requests'[s] = requests[s]
        BY <2>1, <2>5, <4>1 DEF Alone, Removes
      <4> QED
        BY <4>1, <4>2 DEF Removes, Of, AtEnd
    <3> QED
      BY <3>2, <3>3
  <2> QED
    BY <2>2, <2>3, <2>4, <2>5
<1> QED
  BY <1>2, <1>4, <1>5

LEMMA FInvNext == ASSUME SingleProcess PROVE FInv /\ CInv /\ LInv /\ [Next]_vars => FInv'
<1> SUFFICES ASSUME FInv, CInv, LInv, [Next]_vars, NEW o \in Orgs \ Restartable PROVE RowFits(o)'
  BY DEF FInv
<1>1. RowFits(o)
  BY DEF FInv
<1>2. DeprovisionedHasNoCell(o)' /\ JobsSound(o)' /\ AheadLocks(o)'
  BY <1>1, DeprovisionedNext, SoundNext, AheadLocksNext
<1>3. AheadCommits(o)' /\ GoneIsWritten(o)'
  BY <1>1, AheadCommitsNext, GoneNext
<1> QED
  BY <1>2, <1>3 DEF RowFits

\* A row says "running" only while fleet has the cell or its removal is under
\* way, and "deprovisioned" only when fleet has none, whatever provisionings of
\* the same cell are waiting for the lock or for the row (provision_cell,
\* deprovision_cell).
THEOREM RowsMatch == ASSUME SingleProcess PROVE Spec => []RowMatchesFleet
<1>1. Init => LInv /\ CInv /\ FInv
  BY LInvInit, CInvInit, FInvInit
<1>2. LInv /\ CInv /\ FInv /\ [Next]_vars => (LInv /\ CInv /\ FInv)'
  BY LInvNext, CInvNext, FInvNext
<1>3. LInv /\ CInv /\ FInv => RowMatchesFleet
  <2> SUFFICES ASSUME LInv, CInv, FInv, NEW o \in Orgs \ Restartable
               PROVE  RunningHasCell(o) /\ DeprovisionedHasNoCell(o)
    BY DEF RowMatchesFleet
  <2>1. RowFits(o)
    BY DEF FInv
  <2>2. ASSUME Calm(o), cells[o].status = "running", fleet[o] = "none"
        PROVE  \E r \in Requests :
                 requests[r] # Idle /\ requests[r].org = o /\ requests[r].kind = "remove"
    <3>1. cells[o] # NoCell
      BY <2>2 DEF NoCell
    <3>2. PICK s \in Requests : Removes(s, o)
      BY <2>1, <2>2, <3>1 DEF RowFits, GoneIsWritten
    <3> QED
      BY <3>2, IdleIsNoJob DEF Removes, Of
  <2> QED
    BY <2>1, <2>2 DEF RowFits, RunningHasCell, Calm
<1> QED
  BY <1>1, <1>2, <1>3, PTL DEF Spec

------------------------------------------------------------------------------
(* Nothing goes back.  A provisioning renders what it has read while it held  *)
(* the lock, so no file, and no gateway, is ahead of the settings a later one *)
(* reads; and of two provisionings of a cell the one that commits later read  *)
(* the row later, or read the same version.                                   *)

Beginning(job) == job.step \in {"create", "write_config"}

InOrder(o) ==
  /\ loaded[o].config <= settings[o] /\ files[o].config <= settings[o]
  /\ files[o].config # Cut => loaded[o].config <= files[o].config
  /\ cells[o] = NoCell /\ fleet[o] = "none" => loaded[o].config = 0

RenderedInTurn(r) ==
  requests[r] \in Job =>
    /\ requests[r].revision <= settings[requests[r].org]
    /\ Beginning(requests[r]) =>
         /\ files[requests[r].org].config <= requests[r].revision
         /\ loaded[requests[r].org].config <= requests[r].revision

ConfigInv ==
  /\ \A o \in Orgs : InOrder(o)
  /\ \A r \in Requests : RenderedInTurn(r)

\* Who changes the config file of an org, and how.
LEMMA FilesGo ==
  ASSUME LInv, CInv, [Next]_vars, NEW o \in Orgs, files'[o].config # files[o].config
  PROVE  \E q \in Requests :
           /\ Holds(q) /\ requests[q].org = o
           /\ UNCHANGED <<cells, settings, loaded>>
           /\ \/ /\ requests[q].step = "write_config" /\ requests'[q].step # "write_config"
                 /\ files'[o].config = requests[q].revision /\ UNCHANGED fleet
              \/ files'[o].config = Cut /\ UNCHANGED fleet
              \/ /\ requests[q].step = "create" /\ files'[o].config = 0
                 /\ fleet[o] = "none" /\ cells[o] = NoCell
<1>1. CASE \E q \in Requests : WriteConfig(q)
  <2>1. PICK q \in Requests : WriteConfig(q)
    BY <1>1
  <2>2. requests[q] \in Job /\ WellFormed(requests[q]) /\ requests[q].org \in Orgs
        /\ requests[q].kind \in {"create", "update", "restart", "remove"}
    BY <2>1, IdleHasNoStep, JobFields DEF WriteConfig, LInv
  <2>3. requests[q].kind # "restart" /\ Holds(q)
    BY <2>1, <2>2 DEF WriteConfig, WellFormed, Phases, Holds
  <2>4. \A p \in Orgs : p # requests[q].org => files'[p] = files[p]
    BY <2>1, <2>2 DEF WriteConfig, LInv, TypeOK
  <2>5. requests[q].org = o /\ files'[o].config = requests[q].revision
    <3>1. requests[q].org = o
      BY <2>4
    <3>2. files'[o] = [files[o] EXCEPT !.config = requests[q].revision] /\ files[o] \in Config
      BY <2>1, <3>1 DEF WriteConfig, LInv, TypeOK
    <3> QED
      BY <3>1, <3>2 DEF Config
  <2>6. requests'[q].step = "write_vips"
    <3>1. requests'[q] = [requests[q] EXCEPT !.step = "write_vips"]
      BY <2>1 DEF WriteConfig, Goto, LInv, TypeOK
    <3> QED
      BY <2>2, <3>1 DEF Job
  <2> QED
    BY <2>1, <2>3, <2>5, <2>6 DEF WriteConfig
<1>2. CASE \E q \in Requests : WriteVips(q)
  <2>1. PICK q \in Requests : WriteVips(q)
    BY <1>2
  <2>2. files[o] \in Config
    BY DEF LInv, TypeOK
  <2>3. files'[o] = files[o] \/ files'[o] = [files[o] EXCEPT !.vips = requests[q].revision]
    BY <2>1 DEF WriteVips, LInv, TypeOK
  <2> QED
    BY <2>2, <2>3 DEF Config
<1>3. ASSUME NEW q \in Requests, FleetOk(q) \/ FleetTimesOut(q), FleetEffect(q)
      PROVE  /\ requests[q].step = "create" /\ requests[q].org = o
             /\ files'[o].config = 0 /\ fleet[o] = "none" /\ cells[o] = NoCell
             /\ Holds(q) /\ UNCHANGED <<cells, settings, loaded>>
  <2>1. requests[q] \in Job /\ WellFormed(requests[q]) /\ Good(requests[q]) /\ requests[q].org \in Orgs
        /\ requests[q].kind \in {"create", "update", "restart", "remove"}
    BY <1>3, IdleHasNoStep, JobFields DEF FleetOk, FleetTimesOut, InFleet, FleetSteps, LInv, CInv
  <2>2. requests[q].step = "create" /\ requests[q].org = o
    BY <1>3, <2>1 DEF FleetEffect, LInv, TypeOK
  <2>3. files'[o] = [config |-> 0, vips |-> 0] /\ fleet[o] = "none" /\ cells[o] = NoCell
    BY <1>3, <2>1, <2>2 DEF FleetEffect, Allowed, Good, LInv, TypeOK
  <2>4. UNCHANGED <<cells, settings>>
    BY <1>3 DEF FleetOk, FleetTimesOut
  <2>5. UNCHANGED loaded
    BY <1>3, <2>2 DEF FleetEffect, LInv, TypeOK
  <2>6. Holds(q)
    BY <2>1, <2>2 DEF Holds, WellFormed, Phases
  <2> QED
    BY <2>2, <2>3, <2>4, <2>5, <2>6
<1>4. CASE \E q \in Requests : (FleetOk(q) \/ FleetTimesOut(q)) /\ FleetEffect(q)
  BY <1>3, <1>4
<1>5. ASSUME NEW q \in Requests, CutOff(q), UNCHANGED <<cells, settings, fleet, loaded>>
      PROVE  /\ Holds(q) /\ requests[q].org = o /\ files'[o].config = Cut
  <2>1. /\ requests[q] \in Job /\ requests[q].org = o /\ files'[o].config = Cut
    BY <1>5, CutOne DEF LInv
  <2>2. Holds(q)
    BY <1>5, <2>1, JobFields DEF CutOff, Writing, WellFormed, Phases, Holds
  <2> QED
    BY <2>1, <2>2
<1>6. CASE \E q \in Requests : CutOff(q) /\ UNCHANGED <<cells, settings, fleet, loaded>>
  BY <1>5, <1>6
<1> QED
  BY <1>1, <1>2, <1>4, <1>6
     DEF Next, ChangeSettings, ProvisionRead, RestartRead, DeprovisionRead, CellJob, Stage,
         DiskFails, InsertRow, FleetEnds, FleetOk, FleetFails, FleetTimesOut, Flush, Commit,
         Crash, Active, vars, host

\* A gateway reads its files when it is started.
LEMMA LoadedGoes ==
  ASSUME LInv, CInv, [Next]_vars, NEW o \in Orgs, loaded'[o] # loaded[o]
  PROVE  /\ loaded'[o] = files[o] /\ fleet'[o] = "running"
         /\ UNCHANGED <<cells, settings>>
<1>1. PICK q \in Requests : FleetOk(q) \/ FleetTimesOut(q)
  BY DEF Next, ChangeSettings, ProvisionRead, RestartRead, DeprovisionRead, CellJob, Stage,
         WriteConfig, WriteVips, DiskFails, InsertRow, FleetEnds, FleetFails, Flush, Commit,
         Crash, vars, host
<1>2. FleetEffect(q) /\ UNCHANGED <<cells, settings>>
  BY <1>1 DEF FleetOk, FleetTimesOut, host
<1>3. requests[q].org \in Orgs
  BY <1>1, IdleHasNoStep, JobFields DEF FleetOk, FleetTimesOut, InFleet, FleetSteps, LInv
<1>4. requests[q].org = o /\ requests[q].step \in {"start", "restart"}
  BY <1>2, <1>3 DEF FleetEffect, LInv, TypeOK
<1> QED
  BY <1>2, <1>4 DEF FleetEffect, LInv, TypeOK

\* What is rendered for an org only grows.
LEMMA SettingsGo ==
  ASSUME LInv, [Next]_vars, NEW o \in Orgs
  PROVE  settings[o] \in Nat /\ settings'[o] \in Nat /\ settings'[o] >= settings[o]
<1>1. settings[o] \in Nat /\ settings'[o] \in Nat
  BY LInvNext DEF LInv, TypeOK
<1>2. settings'[o] = settings[o] \/ settings'[o] = settings[o] + 1
  BY DEF Next, ChangeSettings, ProvisionRead, RestartRead, DeprovisionRead, CellJob, Stage,
         WriteConfig, WriteVips, DiskFails, InsertRow, FleetEnds, FleetOk, FleetFails,
         FleetTimesOut, Flush, Commit, Crash, vars, LInv, TypeOK
<1> QED
  BY <1>1, <1>2

LEMMA ConfigInit == Init => ConfigInv
<1> SUFFICES ASSUME Init PROVE ConfigInv
  OBVIOUS
<1>1. \A r \in Requests : requests[r] \notin Job
  BY IdleIsNoJob DEF Init
<1> QED
  BY <1>1 DEF Init, ConfigInv, InOrder, RenderedInTurn

LEMMA ConfigTypes ==
  ASSUME LInv, NEW o \in Orgs
  PROVE  /\ files[o].config \in Int /\ loaded[o].config \in Int /\ settings[o] \in Nat
         /\ files[o].config >= Cut /\ loaded[o].config >= Cut
  BY DEF LInv, TypeOK, Config, Revision, Cut

LEMMA InOrderNext ==
  ASSUME SingleProcess, LInv, CInv, ConfigInv, [Next]_vars, NEW o \in Orgs
  PROVE  InOrder(o)' /\ ConfigGoesOn(o)
<1>1. InOrder(o) /\ files[o].config \in Int /\ loaded[o].config \in Int /\ settings[o] \in Nat
  BY ConfigTypes DEF ConfigInv
<1>2. files'[o].config \in Int /\ loaded'[o].config \in Int /\ settings'[o] \in Nat
  BY LInvNext DEF LInv, TypeOK, Config, Revision, Cut
<1>3. settings'[o] >= settings[o]
  BY SettingsGo
<1>4. CASE files'[o].config # files[o].config
  <2>1. PICK q \in Requests :
          /\ requests[q].org = o /\ UNCHANGED <<cells, settings, loaded>> /\ requests[q] \in Job
          /\ \/ /\ requests[q].step = "write_config"
                /\ files'[o].config = requests[q].revision /\ UNCHANGED fleet
             \/ files'[o].config = Cut /\ UNCHANGED fleet
             \/ files'[o].config = 0 /\ fleet[o] = "none" /\ cells[o] = NoCell
    BY <1>4, FilesGo DEF Holds
  <2>2. requests[q].revision \in Nat /\ RenderedInTurn(q)
    BY <2>1, JobFields DEF ConfigInv
  <2>3. ConfigGoesOn(o)
    BY <1>1, <2>1 DEF ConfigGoesOn
  <2>4. CASE files'[o].config = 0 /\ fleet[o] = "none" /\ cells[o] = NoCell
    BY <1>1, <2>1, <2>3, <2>4 DEF InOrder
  <2>5. CASE requests[q].step = "write_config" /\ files'[o].config = requests[q].revision /\ UNCHANGED fleet
    <3>1. requests[q].revision <= settings[o] /\ loaded[o].config <= requests[q].revision
      BY <2>1, <2>2, <2>5 DEF RenderedInTurn, Beginning
    <3> QED
      BY <1>1, <2>1, <2>2, <2>3, <2>5, <3>1 DEF InOrder
  <2>6. CASE files'[o].config = Cut /\ UNCHANGED fleet
    BY <1>1, <2>1, <2>3, <2>6 DEF InOrder, Cut
  <2> QED
    BY <2>1, <2>3, <2>4, <2>5, <2>6
<1>5. CASE files'[o].config = files[o].config
  <2>1. CASE loaded'[o] # loaded[o]
    <3>1. loaded'[o] = files[o] /\ fleet'[o] = "running" /\ UNCHANGED settings
      BY <2>1, LoadedGoes
    <3>2. loaded'[o].config = Cut => o \in Restartable
      BY <3>1, CInvNext DEF CInv, NeverDefaultConfig
    <3> QED
      BY <1>1, <1>5, <3>1, <3>2 DEF InOrder, ConfigGoesOn
  <2>2. CASE loaded'[o] = loaded[o]
    <3>1. cells'[o] = NoCell => cells[o] = NoCell
      BY RowsStay DEF LInv
    <3>2. cells'[o] = NoCell /\ fleet'[o] = "none" => fleet[o] = "none"
      <4> SUFFICES ASSUME cells[o] = NoCell, fleet'[o] = "none", fleet[o] # "none" PROVE FALSE
        BY <3>1
      <4>1. PICK q \in Requests : Holds(q) /\ requests[q].kind = "remove" /\ requests[q].org = o
        BY FleetGoes
      <4> QED
        BY <4>1, JobFields DEF Holds
    <3>3. files'[o].config <= settings'[o] /\ loaded'[o].config <= settings'[o]
      BY <1>1, <1>2, <1>3, <1>5, <2>2 DEF InOrder
    <3> QED
      BY <1>1, <1>5, <2>2, <3>1, <3>2, <3>3 DEF InOrder, ConfigGoesOn
  <2> QED
    BY <2>1, <2>2
<1> QED
  BY <1>4, <1>5

LEMMA RenderedNext ==
  ASSUME SingleProcess, LInv, CInv, ConfigInv, [Next]_vars, NEW r \in Requests
  PROVE  RenderedInTurn(r)'
<1> SUFFICES ASSUME requests'[r] \in Job
             PROVE  /\ requests'[r].revision <= settings'[requests'[r].org]
                    /\ Beginning(requests'[r]) =>
                         /\ files'[requests'[r].org].config <= requests'[r].revision
                         /\ loaded'[requests'[r].org].config <= requests'[r].revision
  BY DEF RenderedInTurn, Beginning
<1>1. PICK o \in Orgs : o = requests'[r].org
  BY DEF Job
<1>2. files[o].config \in Int /\ settings[o] \in Nat /\ settings'[o] \in Nat
      /\ files'[o].config \in Int /\ settings'[o] >= settings[o] /\ InOrder(o)
      /\ requests'[r].revision \in Nat
  <2>1. files'[o].config \in Int /\ requests'[r].revision \in Nat
    BY LInvNext DEF LInv, TypeOK, Config, Revision, Cut, Job
  <2> QED
    BY <2>1, ConfigTypes, SettingsGo DEF ConfigInv
<1>3. \A a, b, c \in Nat : a <= b /\ c >= b => a <= c
  OBVIOUS
<1>4. CASE Reads(r)
  <2>1. UNCHANGED <<settings, files, loaded>>
    BY <1>4 DEF Reads, host
  <2>2. CASE requests'[r].kind \in {"create", "update"}
    <3>1. requests'[r].revision = settings[o]
      BY <1>1, <1>4, <2>2 DEF Reads
    <3> QED
      BY <1>1, <1>2, <2>1, <3>1 DEF InOrder
  <2>3. CASE requests'[r].kind \notin {"create", "update"}
    <3>1. requests'[r].revision = 0
      BY <1>4, <2>3 DEF Reads
    <3>2. ~Beginning(requests'[r])
      <4>1. WellFormed(requests'[r]) /\ requests'[r].kind \in {"restart", "remove"}
        BY <2>3, LInvNext DEF LInv, JobsWellFormed, Job
      <4> QED
        BY <4>1 DEF WellFormed, Phases, Beginning
    <3> QED
      BY <1>1, <1>2, <2>1, <3>1, <3>2
  <2> QED
    BY <2>2, <2>3
<1>5. CASE ~Reads(r)
  <2>1. /\ requests[r] \in Job /\ requests[r].org = o
        /\ requests'[r].revision = requests[r].revision
        /\ Beginning(requests'[r]) => Beginning(requests[r])
        /\ requests'[r].kind = requests[r].kind
    <3>1. CASE requests'[r] = requests[r]
      BY <1>1, <3>1
    <3>2. CASE requests'[r] # requests[r]
      <4>1. GoesOn(r) \/ CallDone(r) \/ CallFailed(r) \/ Flushes(r)
        BY <1>5, <3>2, JobGoes, IdleIsNoJob DEF Moves, Ends
      <4>2. SameJob(r)
        BY <4>1 DEF GoesOn, CallDone, CallFailed, Flushes
      <4>3. Beginning(requests'[r]) => Beginning(requests[r])
        BY <4>1 DEF GoesOn, CallDone, CallFailed, Flushes, Beginning
      <4> QED
        BY <1>1, <4>2, <4>3 DEF SameJob
    <3> QED
      BY <3>1, <3>2
  <2>2. /\ requests[r].revision <= settings[o]
        /\ Beginning(requests[r]) => /\ files[o].config <= requests[r].revision
                                     /\ loaded[o].config <= requests[r].revision
    BY <2>1 DEF ConfigInv, RenderedInTurn
  <2>3. requests'[r].revision <= settings'[o]
    BY <1>2, <1>3, <2>1, <2>2
  <2>4. ASSUME Beginning(requests'[r]) PROVE files'[o].config <= requests'[r].revision
    <3>1. CASE files'[o].config = files[o].config
      BY <2>1, <2>2, <2>4, <3>1
    <3>2. CASE files'[o].config # files[o].config
      <4>1. PICK q \in Requests :
              /\ Holds(q)
              /\ \/ requests[q].step = "write_config" /\ requests'[q].step # "write_config"
                    /\ files'[o].config = requests[q].revision
                 \/ files'[o].config \in {0, Cut}
        BY <3>2, FilesGo
      <4>2. Holds(r)
        <5>1. WellFormed(requests[r]) /\ Beginning(requests[r])
          BY <2>1, <2>4, JobFields
        <5> QED
          BY <2>1, <5>1 DEF WellFormed, Phases, Beginning, Holds
      <4>3. q = r
        BY <4>1, <4>2, HolderIsAlone
      <4> QED
        BY <1>2, <2>1, <4>1, <4>3 DEF Cut
    <3> QED
      BY <3>1, <3>2
  <2>5. ASSUME Beginning(requests'[r]) PROVE loaded'[o].config <= requests'[r].revision
    <3>1. loaded'[o] = loaded[o] \/ loaded'[o] = files[o]
      BY LoadedGoes
    <3> QED
      BY <2>1, <2>2, <2>5, <3>1
  <2> QED
    BY <1>1, <2>3, <2>4, <2>5
<1> QED
  BY <1>4, <1>5

(* The version.  While fleet has the cell no restart of a provisioning is      *)
(* refused, so each keeps the lock until it flushes.                           *)

OneHasRow ==
  \A o \in Orgs : \A r, s \in Requests : HoldsRow(r, o) /\ HoldsRow(s, o) => r = s

Updates(r, o) == Of(r, o) /\ requests[r].kind = "update"

\* A provisioning is at most one version ahead of the row.
VersionFits(r, o) ==
  /\ requests[r].step # "commit" => lock[ProcessOf[r]] = r
  /\ requests[r].version >= cells[o].version
  /\ requests[r].version <= cells[o].version + 1

VersionsInTurn(o) ==
  "cli" \notin Faults[o] /\ fleet[o] # "none" =>
    /\ \A r \in Requests : Updates(r, o) => VersionFits(r, o)
    /\ \A r, s \in Requests :
         Updates(r, o) /\ Updates(s, o) /\ requests[r].step = "commit" /\ requests[s].step # "commit" =>
           requests[s].version >= requests[r].version

VersionInv == OneHasRow /\ \A o \in Orgs : VersionsInTurn(o)

\* A request gets the row only when no other one has it.
LEMMA RowTaken ==
  ASSUME LInv, [Next]_vars, NEW o \in Orgs, NEW r \in Requests, HoldsRow(r, o)', ~HoldsRow(r, o)
  PROVE  requests[r] \in Job /\ requests[r].org = o /\ Alone(r) /\ RowFree(r)
<1>1. requests'[r] # requests[r]
  BY DEF HoldsRow
<1>2. requests'[r].step \in {"start", "flush", "commit"} /\ requests'[r] # Idle
      /\ requests'[r].org = o
      /\ (requests'[r].step = "commit" \/ requests'[r].kind = "create")
  BY DEF HoldsRow
<1>3. ~Reads(r)
  BY <1>2, IdleIsNoJob DEF Reads, AtEnd
<1>4. ~Ends(r)
  BY <1>2 DEF Ends
<1>5. CASE GoesOn(r)
  BY <1>2, <1>5 DEF GoesOn, SameJob, AtEnd
<1>6. CASE CallDone(r) \/ CallFailed(r)
  <2>1. requests[r] \in Job /\ requests[r].kind = "create" /\ requests[r].step = "start"
        /\ requests[r].org = o
    BY <1>2, <1>6 DEF CallDone, CallFailed, SameJob
  <2> QED
    BY <2>1, IdleIsNoJob DEF HoldsRow
<1>7. CASE Flushes(r)
  BY <1>2, <1>7 DEF Flushes, SameJob
<1> QED
  BY <1>1, <1>3, <1>4, <1>5, <1>6, <1>7, JobGoes DEF Moves

LEMMA OneHasRowNext ==
  ASSUME LInv, [Next]_vars, OneHasRow
  PROVE  OneHasRow'
<1> SUFFICES ASSUME NEW o \in Orgs, NEW r \in Requests, NEW s \in Requests,
                    HoldsRow(r, o)', HoldsRow(s, o)', r # s
             PROVE  FALSE
  BY DEF OneHasRow
<1>1. ASSUME NEW p \in Requests, NEW q \in Requests \ {p},
             HoldsRow(p, o)', HoldsRow(q, o)', ~HoldsRow(p, o)
      PROVE  FALSE
  <2>1. requests[p].org = o /\ Alone(p) /\ RowFree(p)
    BY <1>1, RowTaken
  <2>2. HoldsRow(q, o)
    BY <1>1, <2>1 DEF Alone, HoldsRow
  <2> QED
    BY <2>1, <2>2 DEF RowFree
<1>2. HoldsRow(r, o) /\ HoldsRow(s, o)
  BY <1>1
<1> QED
  BY <1>2 DEF OneHasRow

\* An update keeps to the version it was given.
LEMMA UpdateGoes ==
  ASSUME LInv, [Next]_vars, NEW o \in Orgs, NEW r \in Requests, Updates(r, o)'
  PROVE  \/ Reads(r)
         \/ /\ Updates(r, o) /\ requests'[r].version = requests[r].version
            /\ requests[r].step = "commit" => requests'[r].step = "commit"
            /\ requests'[r] = requests[r] \/ GoesOn(r) \/ CallDone(r) \/ CallFailed(r) \/ Flushes(r)
<1>1. CASE requests'[r] = requests[r]
  BY <1>1 DEF Updates, Of
<1>2. CASE requests'[r] # requests[r]
  <2>1. Reads(r) \/ GoesOn(r) \/ CallDone(r) \/ CallFailed(r) \/ Flushes(r)
    BY <1>2, JobGoes, IdleIsNoJob DEF Moves, Ends, Updates, Of
  <2>2. CASE ~Reads(r)
    <3>1. SameJob(r) /\ requests[r].step # "commit"
      BY <2>1, <2>2 DEF GoesOn, CallDone, CallFailed, Flushes, AtEnd
    <3> QED
      BY <2>1, <2>2, <3>1 DEF SameJob, Updates, Of
  <2> QED
    BY <2>1, <2>2
<1> QED
  BY <1>1, <1>2

LEMMA Versions ==
  ASSUME LInv, NEW o \in Orgs, NEW r \in Requests, Updates(r, o)
  PROVE  /\ requests[r].version \in Nat /\ cells[o].version \in Nat
         /\ cells[o] # NoCell /\ requests[r] # Idle
<1>1. cells[o] # NoCell /\ requests[r] # Idle /\ requests[r].version \in Nat
  BY JobFields, IdleIsNoJob DEF Updates, Of, Job
<1> QED
  BY <1>1, CellRows DEF LInv, TypeOK

\* What a commit does to the version of a row that is there.
LEMMA CommitsVersion ==
  ASSUME LInv, CInv, [Next]_vars, NEW o \in Orgs, cells'[o] # cells[o], cells[o] # NoCell
  PROVE  \E q \in Requests :
           /\ Of(q, o) /\ Alone(q) /\ requests'[q] = Idle /\ HoldsRow(q, o)
           /\ requests[q].step = "commit" /\ UNCHANGED <<fleet, lock>>
           /\ cells'[o].version = IF Updates(q, o) THEN requests[q].version ELSE cells[o].version
<1>1. PICK q \in Requests :
        /\ Commit(q) /\ Of(q, o) /\ requests[q].step = "commit" /\ Alone(q)
        /\ cells'[o] = Written(requests[q], cells[o])
        /\ UNCHANGED <<host, lock>>
  BY CellsGo DEF Of
<1>2. requests[q].kind # "create"
  BY <1>1 DEF CInv, Of, Good
<1>3. cells'[o].version = IF Updates(q, o) THEN requests[q].version ELSE cells[o].version
  BY <1>1, <1>2 DEF Written, Updates
<1>4. requests'[q] = Idle
  BY <1>1 DEF Commit, LInv, TypeOK
<1>5. HoldsRow(q, o)
  BY <1>1, IdleIsNoJob DEF HoldsRow, Of
<1> QED
  BY <1>1, <1>3, <1>4, <1>5 DEF host

LEMMA VersionGoes ==
  ASSUME LInv, CInv, VersionInv, [Next]_vars, NEW o \in Orgs
  PROVE  VersionGoesOn(o)
<1> SUFFICES ASSUME "cli" \notin Faults[o], cells[o] # NoCell, fleet[o] # "none"
             PROVE  cells'[o].version >= cells[o].version
  BY DEF VersionGoesOn
<1>1. cells[o].version \in Nat
  BY CellRows DEF LInv, TypeOK
<1>2. CASE cells'[o] = cells[o]
  BY <1>1, <1>2
<1>3. CASE cells'[o] # cells[o]
  <2>1. PICK q \in Requests :
          cells'[o].version = IF Updates(q, o) THEN requests[q].version ELSE cells[o].version
    BY <1>3, CommitsVersion
  <2>2. CASE Updates(q, o)
    BY <2>1, <2>2 DEF VersionInv, VersionsInTurn, VersionFits
  <2>3. CASE ~Updates(q, o)
    BY <1>1, <2>1, <2>3
  <2> QED
    BY <2>2, <2>3
<1> QED
  BY <1>2, <1>3

LEMMA VersionFitsNext ==
  ASSUME SingleProcess, LInv, CInv, VersionInv, [Next]_vars, NEW o \in Orgs,
         "cli" \notin Faults[o], fleet[o] # "none",
         NEW r \in Requests, Updates(r, o)'
  PROVE  VersionFits(r, o)'
<1>1. \A a, b, c \in Nat : b >= c /\ a <= c + 1 => a <= b + 1
  OBVIOUS
<1>2. CASE cells'[o] = cells[o]
  <2>1. CASE Reads(r)
    <3>1. requests'[r].version = cells[o].version + 1 /\ lock'[ProcessOf[r]] = r
      BY <2>1 DEF Reads, Updates, Of
    <3>2. cells'[o].version \in Nat
      <4>1. cells'[o] # NoCell /\ cells'[o] \in CellRow \union {NoCell}
        BY LInvNext DEF LInv, TypeOK, RowsThere, Updates, Of, Idle, Job
      <4> QED
        BY <4>1, CellRows
    <3> QED
      BY <1>2, <3>1, <3>2 DEF VersionFits
  <2>2. CASE ~Reads(r)
    <3>1. /\ Updates(r, o) /\ requests'[r].version = requests[r].version
          /\ requests[r].step = "commit" => requests'[r].step = "commit"
          /\ requests'[r] = requests[r] \/ GoesOn(r) \/ CallDone(r) \/ CallFailed(r) \/ Flushes(r)
      BY <2>2, UpdateGoes
    <3>2. VersionFits(r, o) /\ requests[r] # Idle
      BY <3>1, Versions DEF VersionInv, VersionsInTurn
    <3>3. ASSUME requests'[r].step # "commit" PROVE lock'[ProcessOf[r]] = r
      <4>1. lock[ProcessOf[r]] = r
        BY <3>1, <3>2, <3>3 DEF VersionFits
      <4>2. CASE requests'[r] = requests[r]
        BY <3>2, <4>1, <4>2, LockStays
      <4>3. CASE GoesOn(r) \/ CallDone(r)
        BY <4>1, <4>3 DEF GoesOn, CallDone
      <4>4. ~CallFailed(r)
        BY <3>1 DEF CallFailed, Updates, Of
      <4> QED
        BY <3>1, <3>3, <4>2, <4>3, <4>4 DEF Flushes
    <3> QED
      BY <1>2, <3>1, <3>2, <3>3 DEF VersionFits
  <2> QED
    BY <2>1, <2>2
<1>3. CASE cells'[o] # cells[o]
  <2>1. ~Reads(r)
    BY <1>3 DEF Reads
  <2>2. Updates(r, o)
    BY <2>1, UpdateGoes
  <2>3. PICK q \in Requests :
          /\ Of(q, o) /\ Alone(q) /\ requests'[q] = Idle /\ HoldsRow(q, o)
          /\ requests[q].step = "commit" /\ UNCHANGED lock
          /\ cells'[o].version = IF Updates(q, o) THEN requests[q].version ELSE cells[o].version
    BY <1>3, <2>2, Versions, CommitsVersion
  <2>4. r # q /\ requests'[r] = requests[r]
    BY <2>3, IdleIsNoJob DEF Updates, Of, Alone
  <2>5. requests[r].step # "commit"
    <3> SUFFICES ASSUME requests[r].step = "commit" PROVE FALSE
      OBVIOUS
    <3>1. HoldsRow(r, o)
      BY <2>2, IdleIsNoJob DEF HoldsRow, Updates, Of
    <3> QED
      BY <2>3, <2>4, <3>1 DEF VersionInv, OneHasRow
  <2>6. VersionFits(r, o) /\ requests[r].version \in Nat /\ cells[o].version \in Nat
    BY <2>2, Versions DEF VersionInv, VersionsInTurn
  <2>7. CASE Updates(q, o)
    <3>1. requests[q].version \in Nat /\ requests[q].version >= cells[o].version
      BY <2>7, Versions DEF VersionInv, VersionsInTurn, VersionFits
    <3>2. requests[r].version >= requests[q].version
      BY <2>2, <2>3, <2>5, <2>7 DEF VersionInv, VersionsInTurn
    <3>3. cells'[o].version = requests[q].version
      BY <2>3, <2>7
    <3>4. requests[r].version <= cells[o].version + 1
      BY <2>6 DEF VersionFits
    <3>5. requests[r].version <= requests[q].version + 1
      BY <1>1, <2>6, <3>1, <3>2, <3>4
    <3>6. lock'[ProcessOf[r]] = r
      BY <2>3, <2>5, <2>6 DEF VersionFits
    <3> QED
      BY <2>4, <3>2, <3>3, <3>5, <3>6 DEF VersionFits
  <2>8. CASE ~Updates(q, o)
    BY <2>3, <2>4, <2>6, <2>8 DEF VersionFits
  <2> QED
    BY <2>7, <2>8
<1> QED
  BY <1>2, <1>3

LEMMA VersionsOrdered ==
  ASSUME SingleProcess, LInv, CInv, VersionInv, [Next]_vars, NEW o \in Orgs,
         "cli" \notin Faults[o], fleet[o] # "none",
         NEW r \in Requests, Updates(r, o)', requests'[r].step = "commit",
         NEW s \in Requests, Updates(s, o)', requests'[s].step # "commit"
  PROVE  requests'[s].version >= requests'[r].version
<1>1. /\ Updates(r, o) /\ requests'[r].version = requests[r].version
      /\ requests'[r] = requests[r] \/ Flushes(r)
  <2>1. ~Reads(r) /\ ~GoesOn(r) /\ ~CallDone(r) /\ ~CallFailed(r)
    BY DEF Reads, GoesOn, CallDone, CallFailed, AtEnd
  <2> QED
    BY <2>1, UpdateGoes
<1>2. VersionFits(r, o) /\ requests[r].version \in Nat /\ cells[o].version \in Nat
  BY <1>1, Versions DEF VersionInv, VersionsInTurn
<1>3. CASE Reads(s)
  <2>1. requests'[s].version = cells[o].version + 1
    BY <1>3 DEF Reads, Updates, Of
  <2> QED
    BY <1>1, <1>2, <2>1 DEF VersionFits
<1>4. CASE ~Reads(s)
  <2>1. Updates(s, o) /\ requests'[s].version = requests[s].version /\ requests[s].step # "commit"
    BY <1>4, UpdateGoes
  <2>2. VersionFits(s, o)
    BY <2>1 DEF VersionInv, VersionsInTurn
  <2>3. requests[r].step = "commit"
    <3> SUFFICES ASSUME requests[r].step # "commit" PROVE FALSE
      OBVIOUS
    <3>1. lock[ProcessOf[r]] = r /\ lock[ProcessOf[s]] = s
      BY <1>2, <2>1, <2>2 DEF VersionFits
    <3> QED
      BY <3>1 DEF SingleProcess
  <2> QED
    BY <1>1, <2>1, <2>3 DEF VersionInv, VersionsInTurn
<1> QED
  BY <1>3, <1>4

LEMMA VersionNext ==
  ASSUME SingleProcess, LInv, CInv, VersionInv, [Next]_vars
  PROVE  VersionInv'
<1>1. OneHasRow'
  BY OneHasRowNext DEF VersionInv
<1>2. ASSUME NEW o \in Orgs PROVE VersionsInTurn(o)'
  <2>1. CASE fleet[o] # "none"
    BY <2>1, VersionFitsNext, VersionsOrdered DEF VersionsInTurn
  <2>2. CASE fleet[o] = "none" /\ fleet'[o] # "none"
    <3>1. cells'[o] = NoCell
      BY <2>2, FleetGoes
    <3>2. \A r \in Requests : ~Updates(r, o)'
      BY <3>1, LInvNext, IdleIsNoJob DEF LInv, RowsThere, Updates, Of
    <3> QED
      BY <3>2 DEF VersionsInTurn
  <2> QED
    BY <2>1, <2>2 DEF VersionsInTurn
<1> QED
  BY <1>1, <1>2 DEF VersionInv

LEMMA VersionInit == Init => VersionInv
<1> SUFFICES ASSUME Init PROVE VersionInv
  OBVIOUS
<1>1. \A r \in Requests : requests[r] = Idle /\ requests[r] \notin Job
  BY IdleIsNoJob DEF Init
<1> QED
  BY <1>1 DEF VersionInv, OneHasRow, HoldsRow, VersionsInTurn, Updates, Of

\* A gateway that is started again never reads an older config, unless an admin
\* restarts it on a file cut off in between, and while fleet has the cell its
\* config version never goes down, however the provisionings of a cell interleave
\* (provision_cell).
THEOREM NothingGoesBack == ASSUME SingleProcess PROVE Spec => NeverGoesBack
<1> DEFINE Inv == LInv /\ CInv /\ ConfigInv /\ VersionInv
<1>1. Init => Inv
  BY LInvInit, CInvInit, ConfigInit, VersionInit
<1>2. Inv /\ [Next]_vars => Inv'
  <2> SUFFICES ASSUME LInv, CInv, ConfigInv, VersionInv, [Next]_vars PROVE Inv'
    OBVIOUS
  <2>1. LInv' /\ CInv' /\ VersionInv'
    BY LInvNext, CInvNext, VersionNext
  <2>2. ConfigInv'
    BY InOrderNext, RenderedNext DEF ConfigInv
  <2> QED
    BY <2>1, <2>2
<1>3. Inv /\ [Next]_vars => [\A o \in Orgs : ConfigGoesOn(o) /\ VersionGoesOn(o)]_vars
  BY InOrderNext, VersionGoes
<1> QED
  BY <1>1, <1>2, <1>3, PTL DEF Spec, NeverGoesBack

------------------------------------------------------------------------------
(* Nobody is stuck: the half of LockIsReleased that needs no fairness.  The    *)
(* lock belongs to a request that has yet to flush; such a request waits at    *)
(* most for the row, and whoever has the row waits for nobody.                 *)

LockHasHolder ==
  \A p \in Processes : lock[p] # NoRequest =>
    /\ ProcessOf[lock[p]] = p /\ requests[lock[p]] \in Job
    /\ requests[lock[p]].kind # "restart" /\ requests[lock[p]].step # "commit"

WaitsForRow(r, s) ==
  r # s /\ requests[r].step \in {"insert", "flush"} /\ HoldsRow(s, requests[r].org)

RowWaitsEnd ==
  \A r, s \in Requests : WaitsForRow(r, s) => \A t \in Requests : ~WaitsForRow(s, t)

LEMMA LockTaken ==
  ASSUME LInv, [Next]_vars, NEW p \in Processes, lock'[p] # lock[p], lock'[p] # NoRequest
  PROVE  \E q \in Requests :
           lock'[p] = q /\ ProcessOf[q] = p /\ Reads(q) /\ requests'[q].kind # "restart"
<1>1. ASSUME NEW q \in Requests, lock' = Unlocked(q) PROVE FALSE
  BY <1>1 DEF Unlocked, LInv, TypeOK
<1>2. ASSUME NEW q \in Processes, Crash(q) PROVE FALSE
  BY <1>2 DEF Crash, LInv, TypeOK
<1>3. PICK q \in Requests, o \in Orgs : ProvisionRead(q, o) \/ DeprovisionRead(q, o)
  BY <1>1, <1>2
     DEF Next, ChangeSettings, RestartRead, Stage, WriteConfig, WriteVips, DiskFails, InsertRow,
         FleetEnds, FleetOk, FleetFails, FleetTimesOut, GiveUp, Flush, Commit, vars
<1>4. lock'[p] = q /\ ProcessOf[q] = p
  BY <1>3, ProcessAssumption DEF ProvisionRead, DeprovisionRead, LInv, TypeOK
<1>5. Reads(q)
  BY <1>3, LInvNext, ReadMoves
<1>6. requests'[q].kind # "restart"
  BY <1>3 DEF ProvisionRead, DeprovisionRead, CellJob, LInv, TypeOK
<1> QED
  BY <1>4, <1>5, <1>6

LEMMA LockHasHolderNext ==
  ASSUME LInv, LockHasHolder, [Next]_vars
  PROVE  LockHasHolder'
<1> SUFFICES ASSUME NEW p \in Processes, lock'[p] # NoRequest
             PROVE  /\ ProcessOf[lock'[p]] = p /\ requests'[lock'[p]] \in Job
                    /\ requests'[lock'[p]].kind # "restart" /\ requests'[lock'[p]].step # "commit"
  BY DEF LockHasHolder
<1>1. CASE lock'[p] # lock[p]
  BY <1>1, LockTaken DEF Reads, AtEnd
<1>2. CASE lock'[p] = lock[p]
  <2>1. PICK r \in Requests : r = lock[p]
    BY <1>2 DEF LInv, TypeOK
  <2>2. /\ ProcessOf[r] = p /\ requests[r] \in Job /\ lock'[ProcessOf[r]] = r
        /\ requests[r].kind # "restart" /\ requests[r].step # "commit"
    BY <1>2, <2>1 DEF LockHasHolder
  <2>3. CASE requests'[r] # requests[r]
    <3>1. ~Reads(r) /\ ~Flushes(r)
      BY <2>2, IdleIsNoJob DEF Reads, Flushes
    <3>2. ~Ends(r)
      BY <2>2 DEF Ends, Commit
    <3>3. GoesOn(r) \/ CallDone(r) \/ CallFailed(r)
      BY <2>3, <3>1, <3>2, JobGoes DEF Moves
    <3>4. SameJob(r) /\ requests'[r].step # "commit"
      BY <3>3 DEF GoesOn, CallDone, CallFailed, AtEnd
    <3> QED
      BY <1>2, <2>1, <2>2, <3>4 DEF SameJob
  <2> QED
    BY <1>2, <2>1, <2>2, <2>3
<1> QED
  BY <1>1, <1>2

LEMMA RowHolderGoesOn == OneHasRow /\ TypeOK => RowWaitsEnd
<1> SUFFICES ASSUME OneHasRow, TypeOK, NEW r \in Requests, NEW s \in Requests, NEW t \in Requests,
                    WaitsForRow(r, s), WaitsForRow(s, t)
             PROVE  FALSE
  BY DEF RowWaitsEnd
<1>1. requests[s] \in Job /\ requests[s].org = requests[r].org /\ requests[s].org \in Orgs
  BY DEF WaitsForRow, HoldsRow, TypeOK, Job
<1>2. HoldsRow(s, requests[s].org) /\ HoldsRow(t, requests[s].org) /\ s # t
  BY <1>1 DEF WaitsForRow
<1> QED
  BY <1>1, <1>2 DEF OneHasRow

\* The lock never outlives its holder, and waiting for a row never goes in a
\* circle, for any number of requests and processes, also with failed fleet
\* commands, timeouts and crashes (provision_cell, deprovision_cell, restart_cell).
THEOREM NobodyIsStuck == Spec => [](LockHasHolder /\ RowWaitsEnd)
<1>1. Init => LInv /\ OneHasRow /\ LockHasHolder
  BY LInvInit, VersionInit DEF Init, VersionInv, LockHasHolder
<1>2. LInv /\ OneHasRow /\ LockHasHolder /\ [Next]_vars => (LInv /\ OneHasRow /\ LockHasHolder)'
  BY LInvNext, OneHasRowNext, LockHasHolderNext
<1>3. LInv /\ OneHasRow /\ LockHasHolder => LockHasHolder /\ RowWaitsEnd
  BY RowHolderGoesOn DEF LInv
<1> QED
  BY <1>1, <1>2, <1>3, PTL DEF Spec
==============================================================================
