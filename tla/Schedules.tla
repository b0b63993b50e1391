------------------------------ MODULE Schedules ------------------------------
(* Cron schedules (packages/queue/src/scheduler.ts): one fact in three        *)
(* places.  The operator's wish is a cron column of WebsiteSettings, the      *)
(* ScheduledJob row follows it, and the repeatable in Redis follows the row.  *)
(* The worker reconciles them on a timer that does not wait for the previous  *)
(* pass, the routes of the web process edit them, and nothing locks anything. *)
(*                                                                            *)
(* One managed schedule per site, on one lane.                                *)
EXTENDS Integers, FiniteSets

CONSTANTS
    Sites,
    Crons,         \* cron expressions that parse
    Off,           \* a cleared cron column
    Timers,        \* passes of the worker's interval that may overlap
    Clients,       \* requests to the web process
    MaxRows,       \* how many ScheduledJob rows are ever created
    MaxEdits,      \* how many edits are asked for
    MaxFaults      \* how many broker or settings writes fail, web requests die

Syncers == Timers \cup Clients
RowIds  == 1..MaxRows

EditKinds == {"settings", "status", "toggle", "retime", "delete"}

ASSUME ScheduleAssumption ==
    /\ Sites # {}
    /\ Off \notin Crons
    /\ Timers \cap Clients = {}
    /\ MaxRows \in Nat
    /\ MaxEdits \in Nat
    /\ MaxFaults \in Nat

VARIABLES
    site,      \* Website.status and the cron column of its settings
    row,       \* the ScheduledJob row of each site
    redis,     \* the job scheduler registered under each row's id
    sync,      \* where each pass of syncSchedules is, with what it read
    client,    \* where each request is, with what it read
    created,   \* how many rows were created
    edits,     \* edits that may still be asked for
    faults,    \* faults that may still happen
    late,      \* Redis commands whose callers gave up, and that may yet land
    touched    \* history: passes during which something else wrote, or failed

vars == <<site, row, redis, sync, client, created, edits, faults, late, touched>>

NoRow == [id |-> 0, cron |-> Off, enabled |-> FALSE]
Rows  == [id : RowIds, cron : Crons, enabled : BOOLEAN] \cup {NoRow}
SiteRecords == [status : {"ACTIVE", "PAUSED", "deleted"}, cron : Crons \cup {Off}]

(* A command under a row's id, numbered by the fault that held it up.         *)
Commands == [id : RowIds, cron : Crons \cup {Off}, fault : 1..MaxFaults]

(* A pass reads the websites, then the rows; `rows` is kept up to date with   *)
(* what the pass itself writes, `keys` are the repeatables still to be        *)
(* registered or removed.                                                     *)
SyncRecords ==
    [pc : {"idle", "rows", "reconcile", "register", "list", "remove"},
     sites : [Sites -> SiteRecords], rows : [Sites -> Rows],
     todo : SUBSET Sites, keys : SUBSET RowIds]

ClientRecords ==
    [pc : {"idle", "write", "ensure", "create", "sync", "syncing", "mirror", "check",
           "project", "delete", "drop"},
     op : EditKinds \cup {"none"}, site : Sites, row : Rows,
     cron : Crons \cup {Off}, on : BOOLEAN]

AnySite == CHOOSE s \in Sites : TRUE
NoSites == [s \in Sites |-> [status |-> "deleted", cron |-> Off]]

IdleSync == [pc |-> "idle", sites |-> NoSites, rows |-> [s \in Sites |-> NoRow],
             todo |-> {}, keys |-> {}]
IdleClient == [pc |-> "idle", op |-> "none", site |-> AnySite, row |-> NoRow,
               cron |-> Off, on |-> FALSE]

Init ==
    /\ site \in [Sites -> [status : {"ACTIVE"}, cron : Crons]]
    /\ row = [s \in Sites |-> NoRow]
    /\ redis = [i \in RowIds |-> Off]
    /\ sync = [k \in Syncers |-> IdleSync]
    /\ client = [c \in Clients |-> IdleClient]
    /\ created = 0
    /\ edits = MaxEdits
    /\ faults = MaxFaults
    /\ late = {}
    /\ touched = {}

Exists(s) == site[s].status # "deleted"

(* The cron under which a row's repeatable has to be registered, or Off: a    *)
(* paused or archived site keeps its rows but must stop firing.               *)
Desired(r, status) == IF r.enabled /\ status = "ACTIVE" THEN r.cron ELSE Off

(* Passes in progress now work from what they read before.                    *)
Touch(k) == touched' = touched \cup {j \in Syncers \ {k} : sync[j].pc # "idle"}

Fail ==
    /\ faults > 0
    /\ faults' = faults - 1

(* upsertJobScheduler and removeJobScheduler, behind withTimeout: the call    *)
(* gives up and says nothing, but its command stays in the offline queue of   *)
(* the connection, and lands or is lost with it.                              *)
Project(i, cron, k) ==
    \/ /\ redis' = [redis EXCEPT ![i] = cron]
       /\ Touch(k)
       /\ UNCHANGED <<faults, late>>
    \/ /\ Fail
       /\ \/ late' = late \cup {[id |-> i, cron |-> cron, fault |-> faults]}
          \/ UNCHANGED late
       /\ touched' = touched \cup Syncers
       /\ UNCHANGED redis

LandLate(m) ==
    /\ redis' = [redis EXCEPT ![m.id] = m.cron]
    /\ late' = late \ {m}
    /\ touched' = touched \cup {j \in Syncers : sync[j].pc # "idle"}
    /\ UNCHANGED <<site, row, sync, client, created, edits, faults>>

CreateRow(s, cron) ==
    /\ created < MaxRows
    /\ created' = created + 1
    /\ row' = [row EXCEPT ![s] = [id |-> created + 1, cron |-> cron, enabled |-> TRUE]]

-----------------------------------------------------------------------------
(* syncSchedules *)

StartSync(k) ==
    /\ sync[k].pc = "idle"
    /\ \/ k \in Timers /\ UNCHANGED client
       \/ /\ k \in Clients
          /\ client[k].pc = "sync"
          /\ client' = [client EXCEPT ![k].pc = "syncing"]
    /\ sync' = [sync EXCEPT ![k].pc = "rows", ![k].sites = site]
    /\ touched' = touched \ {k}
    /\ UNCHANGED <<site, row, redis, created, edits, faults, late>>

ReadRows(k) ==
    /\ sync[k].pc = "rows"
    /\ sync' = [sync EXCEPT ![k].pc = "reconcile", ![k].rows = row,
                            ![k].todo = {s \in Sites : sync[k].sites[s].status # "deleted"}]
    /\ UNCHANGED <<site, row, redis, client, created, edits, faults, touched, late>>

(* Mutant: a row that was switched off stays so.                              *)
StaleByCron(r, cron) == IF cron = Off THEN r.enabled ELSE r.cron # cron

(* What pass 1 wants of a row: settings are the authority.                    *)
Stale(r, cron) == IF cron = Off THEN r.enabled ELSE r.cron # cron \/ ~r.enabled

Reconciled(r, cron) ==
    IF cron = Off THEN [r EXCEPT !.enabled = FALSE]
                  ELSE [r EXCEPT !.cron = cron, !.enabled = TRUE]

EndSync(k) ==
    /\ sync' = [sync EXCEPT ![k] = IdleSync]
    /\ IF k \in Clients
       THEN client' = [client EXCEPT ![k] = IdleClient]
       ELSE UNCHANGED client

(* The update is by the id that was read and the create meets the table's     *)
(* unique key and foreign key: where they fail, the pass is over.             *)
Reconcile(k, s) ==
    LET r == sync[k].rows[s]
        cron == sync[k].sites[s].cron
        done == [sync EXCEPT ![k].todo = @ \ {s}]
    IN /\ sync[k].pc = "reconcile"
       /\ s \in sync[k].todo
       /\ \/ /\ r = NoRow \/ ~Stale(r, cron)
             /\ r = NoRow => cron = Off
             /\ sync' = done
             /\ UNCHANGED <<row, client, created, touched>>
          \/ /\ r # NoRow
             /\ Stale(r, cron)
             /\ row[s].id = r.id
             /\ row' = [row EXCEPT ![s] = Reconciled(@, cron)]
             /\ sync' = [done EXCEPT ![k].rows[s] = row'[s]]
             /\ Touch(k)
             /\ UNCHANGED <<client, created>>
          \/ /\ r = NoRow
             /\ cron # Off
             /\ Exists(s)
             /\ row[s] = NoRow
             /\ CreateRow(s, cron)
             /\ sync' = [done EXCEPT ![k].rows[s] = row'[s]]
             /\ Touch(k)
             /\ UNCHANGED client
          \/ /\ IF r = NoRow THEN cron # Off /\ (row[s] # NoRow \/ ~Exists(s))
                             ELSE Stale(r, cron) /\ row[s].id # r.id
             /\ EndSync(k)
             /\ UNCHANGED <<row, created, touched>>
       /\ UNCHANGED <<site, redis, edits, faults, late>>

(* Mutant: a paused site's rows are wanted too.                               *)
KeptThoughPaused(k) ==
    {i \in RowIds : \E s \in Sites : sync[k].rows[s].id = i /\ sync[k].rows[s].enabled}

(* The repeatables a pass wants, from its own copies.                         *)
Kept(k) == {i \in RowIds : \E s \in Sites :
                /\ sync[k].rows[s].id = i
                /\ Desired(sync[k].rows[s], sync[k].sites[s].status) # Off}

CronOf(k, i) == sync[k].rows[CHOOSE s \in Sites : sync[k].rows[s].id = i].cron

(* getQueue answers null when the broker is not there: the pass ends.         *)
BeginProjection(k) ==
    /\ sync[k].pc = "reconcile"
    /\ sync[k].todo = {}
    /\ \/ /\ sync' = [sync EXCEPT ![k].pc = "register", ![k].keys = Kept(k)]
          /\ UNCHANGED <<client, faults, touched>>
       \/ /\ Fail
          /\ EndSync(k)
          /\ touched' = touched \cup Syncers
    /\ UNCHANGED <<site, row, redis, created, edits, late>>

Register(k, i) ==
    /\ sync[k].pc = "register"
    /\ i \in sync[k].keys
    /\ Project(i, CronOf(k, i), k)
    /\ sync' = [sync EXCEPT ![k].keys = @ \ {i}]
    /\ UNCHANGED <<site, row, client, created, edits>>

(* Mutant: only repeatables whose row still exists are looked at.             *)
OrphansWithRow(k) ==
    {i \in RowIds : redis[i] # Off /\ \E s \in Sites : sync[k].rows[s].id = i} \ Kept(k)

(* What a pass finds installed and does not want.                             *)
Orphans(k) == {i \in RowIds : redis[i] # Off} \ Kept(k)

(* getJobSchedulers; a list that fails leaves the repeatables in place.       *)
ListInstalled(k) ==
    /\ sync[k].pc = "register"
    /\ sync[k].keys = {}
    /\ \/ /\ sync' = [sync EXCEPT ![k].pc = "remove", ![k].keys = Orphans(k)]
          /\ UNCHANGED <<client, faults, touched>>
       \/ /\ Fail
          /\ EndSync(k)
          /\ touched' = touched \cup Syncers
    /\ UNCHANGED <<site, row, redis, created, edits, late>>

RemoveOrphan(k, i) ==
    /\ sync[k].pc = "remove"
    /\ i \in sync[k].keys
    /\ Project(i, Off, k)
    /\ sync' = [sync EXCEPT ![k].keys = @ \ {i}]
    /\ UNCHANGED <<site, row, client, created, edits>>

FinishSync(k) ==
    /\ sync[k].pc = "remove"
    /\ sync[k].keys = {}
    /\ EndSync(k)
    /\ UNCHANGED <<site, row, redis, created, edits, faults, touched, late>>

-----------------------------------------------------------------------------
(* The web process. *)

Begin(c, s, record) ==
    /\ client[c].pc = "idle"
    /\ edits > 0
    /\ edits' = edits - 1
    /\ Exists(s)
    /\ client' = [client EXCEPT ![c] = record]

(* PATCH settings: the column is written, then ensureDefaultSchedules reads   *)
(* it back and upserts the row, then a sync.                                  *)
SaveSettings(c, s, cron) ==
    /\ site[s].cron # cron
    /\ Begin(c, s, [IdleClient EXCEPT !.pc = "ensure", !.op = "settings", !.site = s])
    /\ site' = [site EXCEPT ![s].cron = cron]
    /\ Touch(c)
    /\ UNCHANGED <<row, redis, sync, created, faults, late>>

EnsureRead(c) ==
    /\ client[c].pc = "ensure"
    /\ LET cron == site[client[c].site].cron
       IN client' = [client EXCEPT ![c].cron = cron,
                                   ![c].pc = IF cron = Off THEN "sync" ELSE "create"]
    /\ UNCHANGED <<site, row, redis, sync, created, edits, faults, touched, late>>

EnsureUpsert(c) ==
    LET s == client[c].site
    IN /\ client[c].pc = "create"
       /\ \/ /\ row[s] = NoRow /\ Exists(s)
             /\ CreateRow(s, client[c].cron)
             /\ client' = [client EXCEPT ![c].pc = "sync"]
             /\ Touch(c)
          \/ /\ row[s] # NoRow
             /\ client' = [client EXCEPT ![c].pc = "sync"]
             /\ UNCHANGED <<row, created, touched>>
          \/ /\ ~Exists(s)
             /\ client' = [client EXCEPT ![c] = IdleClient]
             /\ UNCHANGED <<row, created, touched>>
       /\ UNCHANGED <<site, redis, sync, edits, faults, late>>

(* PATCH website: the status, then a sync.                                    *)
SaveStatus(c, s) ==
    /\ Begin(c, s, [IdleClient EXCEPT !.pc = "sync", !.op = "status", !.site = s])
    /\ site' = [site EXCEPT ![s].status = IF @ = "ACTIVE" THEN "PAUSED" ELSE "ACTIVE"]
    /\ Touch(c)
    /\ UNCHANGED <<row, redis, sync, created, faults, late>>

(* The automations page: setScheduleEnabled and updateSchedule read the row   *)
(* by its id first.                                                           *)
ReadToToggle(c, s, on) ==
    /\ row[s] # NoRow
    /\ Begin(c, s, [IdleClient EXCEPT !.pc = "write", !.op = "toggle", !.site = s,
                                                !.row = row[s], !.on = on])
    /\ UNCHANGED <<site, row, redis, sync, created, faults, touched, late>>

ReadToRetime(c, s, cron) ==
    /\ row[s] # NoRow
    /\ Begin(c, s, [IdleClient EXCEPT !.pc = "write", !.op = "retime", !.site = s,
                                                !.row = row[s], !.cron = cron])
    /\ UNCHANGED <<site, row, redis, sync, created, faults, touched, late>>

(* The row as the update leaves it is what is mirrored and projected.         *)
WriteRow(c) ==
    LET s == client[c].site
        new == IF client[c].op = "toggle" THEN [row[s] EXCEPT !.enabled = client[c].on]
                                          ELSE [row[s] EXCEPT !.cron = client[c].cron]
    IN /\ client[c].pc = "write"
       /\ \/ /\ row[s].id = client[c].row.id
             /\ row' = [row EXCEPT ![s] = new]
             /\ client' = [client EXCEPT ![c].row = new, ![c].pc =
                              IF client[c].op = "toggle" \/ new.enabled THEN "mirror" ELSE "check"]
             /\ Touch(c)
          \/ /\ row[s].id # client[c].row.id
             /\ client' = [client EXCEPT ![c] = IdleClient]
             /\ UNCHANGED <<row, touched>>
       /\ UNCHANGED <<site, redis, sync, created, edits, faults, late>>

(* mirrorToSettings swallows its errors.                                      *)
Mirror(c) ==
    LET s == client[c].site
    IN /\ client[c].pc = "mirror"
       /\ \/ /\ Exists(s)
             /\ site' = [site EXCEPT ![s].cron =
                            IF client[c].row.enabled THEN client[c].row.cron ELSE Off]
             /\ Touch(c)
             /\ UNCHANGED faults
          \/ /\ Exists(s) => Fail
             /\ ~Exists(s) => UNCHANGED faults
             /\ UNCHANGED <<site, touched>>
       /\ client' = [client EXCEPT ![c].pc = IF client[c].op = "delete" THEN "delete" ELSE "check"]
       /\ UNCHANGED <<row, redis, sync, created, edits, late>>

(* applyScheduleToRedis: isWebsiteInactive, then the projection.              *)
CheckSite(c) ==
    /\ client[c].pc = "check"
    /\ client' = [client EXCEPT ![c].pc = "project",
                    ![c].cron = Desired(client[c].row, site[client[c].site].status)]
    /\ UNCHANGED <<site, row, redis, sync, created, edits, faults, touched, late>>

ProjectRow(c) ==
    /\ client[c].pc = "project"
    /\ Project(client[c].row.id, client[c].cron, c)
    /\ client' = [client EXCEPT ![c] =
                    IF client[c].op = "delete" THEN [client[c] EXCEPT !.pc = "mirror"]
                                               ELSE IdleClient]
    /\ UNCHANGED <<site, row, sync, created, edits>>

(* DELETE website: deleteSchedule of the row that was listed - Redis, the     *)
(* column, the row - and then the site, which takes any row along.            *)
ListToDelete(c, s) ==
    /\ Begin(c, s, [IdleClient EXCEPT !.op = "delete", !.site = s,
                  !.row = IF row[s] = NoRow THEN NoRow ELSE [row[s] EXCEPT !.enabled = FALSE],
                  !.pc = IF row[s] = NoRow THEN "drop" ELSE "project"])
    /\ UNCHANGED <<site, row, redis, sync, created, faults, touched, late>>

DeleteRow(c) ==
    LET s == client[c].site
    IN /\ client[c].pc = "delete"
       /\ row' = IF row[s].id = client[c].row.id THEN [row EXCEPT ![s] = NoRow] ELSE row
       /\ client' = [client EXCEPT ![c].pc = "drop"]
       /\ Touch(c)
       /\ UNCHANGED <<site, redis, sync, created, edits, faults, late>>

DropSite(c) ==
    LET s == client[c].site
    IN /\ client[c].pc = "drop"
       /\ site' = [site EXCEPT ![s] = [status |-> "deleted", cron |-> Off]]
       /\ row' = [row EXCEPT ![s] = NoRow]
       /\ client' = [client EXCEPT ![c] = IdleClient]
       /\ Touch(c)
       /\ UNCHANGED <<redis, sync, created, edits, faults, late>>

(* The web process dies, or its request is cut off, between two awaits.       *)
ClientCrash(c) ==
    /\ client[c].pc # "idle"
    /\ Fail
    /\ client' = [client EXCEPT ![c] = IdleClient]
    /\ sync' = [sync EXCEPT ![c] = IdleSync]
    /\ touched' = touched \cup {c}
    /\ UNCHANGED <<site, row, redis, created, edits, late>>

-----------------------------------------------------------------------------

SyncStep(k) ==
    \/ ReadRows(k)
    \/ \E s \in Sites : Reconcile(k, s)
    \/ BeginProjection(k)
    \/ \E i \in RowIds : Register(k, i) \/ RemoveOrphan(k, i)
    \/ ListInstalled(k)
    \/ FinishSync(k)

ClientStep(c) ==
    \/ EnsureRead(c) \/ EnsureUpsert(c)
    \/ WriteRow(c) \/ Mirror(c) \/ CheckSite(c) \/ ProjectRow(c)
    \/ DeleteRow(c) \/ DropSite(c)

Edit(c) ==
    \E s \in Sites :
        \/ \E cron \in Crons \cup {Off} : SaveSettings(c, s, cron)
        \/ SaveStatus(c, s)
        \/ \E on \in BOOLEAN : ReadToToggle(c, s, on)
        \/ \E cron \in Crons : ReadToRetime(c, s, cron)
        \/ ListToDelete(c, s)

Next ==
    \/ \E k \in Syncers : StartSync(k) \/ SyncStep(k)
    \/ \E c \in Clients : Edit(c) \/ ClientStep(c) \/ ClientCrash(c)
    \/ \E m \in late : LandLate(m)

Spec == Init /\ [][Next]_vars

(* The interval keeps firing, and what was begun goes on: statements and      *)
(* commands return or time out.  No edit and no fault has to happen.          *)
Fairness ==
    /\ \A k \in Syncers : WF_vars(StartSync(k)) /\ WF_vars(SyncStep(k))
    /\ \A c \in Clients : WF_vars(ClientStep(c))

FairSpec == Spec /\ Fairness

-----------------------------------------------------------------------------
(* Properties. *)

(* The type invariant. *)
TypeOK ==
    /\ site \in [Sites -> SiteRecords]
    /\ row \in [Sites -> Rows]
    /\ redis \in [RowIds -> Crons \cup {Off}]
    /\ sync \in [Syncers -> SyncRecords]
    /\ client \in [Clients -> ClientRecords]
    /\ created \in 0..MaxRows
    /\ edits \in 0..MaxEdits
    /\ faults \in 0..MaxFaults
    /\ late \subseteq Commands
    /\ touched \subseteq Syncers

(* The rows are what the settings say, and Redis fires exactly the rows that  *)
(* are enabled, each at its own time.                                         *)
RowsFollow ==
    \A s \in Sites :
        IF site[s].cron = Off THEN ~row[s].enabled
        ELSE row[s].enabled /\ row[s].cron = site[s].cron

RedisExact ==
    \A i \in RowIds :
        redis[i] = IF \E s \in Sites : row[s].id = i
                   THEN LET s == CHOOSE s \in Sites : row[s].id = i
                        IN Desired(row[s], site[s].status)
                   ELSE Off

InStep == RowsFollow /\ RedisExact

(* "Makes Redis match the database exactly": a pass during which nobody else  *)
(* writes and nothing fails ends with the three copies equal, whatever a      *)
(* crash, a half-done edit or a stale pass had left behind.                   *)
PassRepairs ==
    [][\A k \in Syncers :
          sync[k].pc # "idle" /\ sync'[k].pc = "idle" /\ k \notin touched' => InStep']_vars

(* The overlapping passes are the only writers that work from old copies.     *)
(* Once the operators stop, the copies come together and stay so.             *)
Converges == <>[]InStep

(* "Reconciles Redis repeatables against the database idempotently": once the *)
(* copies agree, the passes under way have read them so, and no command is    *)
(* left over that asks for something else, no pass takes them apart, whatever *)
(* it overlaps with, whatever of it fails and whenever that lands, until the  *)
(* next edit.                                                                 *)
Agreed ==
    /\ InStep
    /\ \A c \in Clients : client[c].pc \in {"idle", "sync", "syncing"}
    /\ \A k \in Syncers : sync[k].pc # "idle" =>
          /\ sync[k].sites = site
          /\ sync[k].pc # "rows" => sync[k].rows = row
          /\ sync[k].pc = "remove" => sync[k].keys \cap Kept(k) = {}
    /\ \A m \in late : redis[m.id] = m.cron

AgreedStays == [][Agreed /\ edits' = edits => Agreed']_vars

(* automations/route.ts answers "is off; it will not run until you turn it    *)
(* back on", and DELETE website unregisters a site's schedules "before the    *)
(* rows cascade away": outside the requests, nothing fires without its row.   *)
OffStaysOff ==
    (\A c \in Clients : client[c].pc = "idle") =>
        \A i \in RowIds : redis[i] # Off => \E s \in Sites : row[s].id = i /\ row[s].enabled
=============================================================================
