--------------------------- MODULE SchedulesProofs ---------------------------
(* The reconcile pass (packages/queue/src/scheduler.ts), for any number of    *)
(* sites, passes and requests: what it repairs when nothing comes between.    *)
EXTENDS Schedules, TLAPS

(* What a request holds fits what it is about to write.                       *)
Held ==
    \A c \in Clients :
        /\ client[c].pc = "write" =>
              /\ client[c].row # NoRow
              /\ client[c].op # "toggle" => client[c].cron \in Crons
        /\ client[c].pc \in {"mirror", "check", "project"} => client[c].row # NoRow
        /\ client[c].pc = "create" => client[c].cron \in Crons

(* A request whose pass is under way waits for it.                            *)
Waiting == \A c \in Clients : sync[c].pc # "idle" => client[c].pc = "syncing"

(* No two rows have one id, and a new one's is yet unused.                    *)
Numbered ==
    /\ \A s \in Sites : row[s].id <= created
    /\ \A s, t \in Sites : s # t /\ row[s].id = row[t].id => row[s] = NoRow

(* A site takes its row and its settings along.                               *)
Gone == \A s \in Sites : ~Exists(s) => row[s] = NoRow /\ site[s].cron = Off

(* A pass registers what it keeps, and nothing else.                          *)
Wanted == \A k \in Syncers : sync[k].pc = "register" => sync[k].keys \subseteq Kept(k)

Sound == TypeOK /\ Held /\ Waiting /\ Numbered /\ Gone /\ Wanted

(* How far a pass has brought the copies together that nothing came between:  *)
(* what it read is what there is; the rows of the sites it has been through   *)
(* follow their settings; what it registered fires at its row's time; and     *)
(* what it found and did not want is off.                                     *)
Follows(s) ==
    IF site[s].cron = Off THEN ~row[s].enabled
    ELSE row[s].enabled /\ row[s].cron = site[s].cron

Registered(k, i) == redis[i] = CronOf(k, i)

Phase(k) ==
    /\ sync[k].sites = site
    /\ sync[k].pc # "rows" => sync[k].rows = row
    /\ sync[k].pc = "reconcile" =>
          \A s \in Sites : IF s \in sync[k].todo THEN Exists(s) ELSE Follows(s)
    /\ sync[k].pc \notin {"rows", "reconcile"} => RowsFollow
    /\ sync[k].pc = "register" => \A i \in Kept(k) \ sync[k].keys : Registered(k, i)
    /\ sync[k].pc = "remove" =>
          \A i \in RowIds : IF i \in Kept(k) THEN i \notin sync[k].keys /\ Registered(k, i)
                            ELSE i \in sync[k].keys \/ redis[i] = Off

Undisturbed(k) == sync[k].pc # "idle" /\ k \notin touched

Passes == \A k \in Syncers : Undisturbed(k) => Phase(k)

IInv == Sound /\ Passes

-----------------------------------------------------------------------------
(* Rows, and the records of passes and requests *)

LEMMA NoRowTyped ==
    /\ NoRow \in Rows /\ NoRow.id = 0 /\ ~NoRow.enabled /\ NoRow.cron = Off
    /\ \A r \in Rows : r # NoRow =>
          /\ r \in [id : RowIds, cron : Crons, enabled : BOOLEAN]
          /\ r.id \in RowIds /\ r.id \in Nat \ {0} /\ r.cron \in Crons /\ r.cron # Off
    /\ \A r \in Rows : r.id \in Nat /\ (r.id = 0 => r = NoRow)
                       /\ r.cron \in Crons \cup {Off} /\ r.enabled \in BOOLEAN
<1>1. /\ NoRow \in Rows /\ NoRow.id = 0 /\ ~NoRow.enabled /\ NoRow.cron = Off
      /\ NoRow.enabled \in BOOLEAN
    BY DEF NoRow, Rows
<1>2. ASSUME NEW r \in Rows, r # NoRow
      PROVE  /\ r \in [id : RowIds, cron : Crons, enabled : BOOLEAN]
             /\ r.id \in RowIds /\ r.id \in Nat \ {0} /\ r.cron \in Crons /\ r.cron # Off
             /\ r.enabled \in BOOLEAN
    <2>1. r \in [id : RowIds, cron : Crons, enabled : BOOLEAN]
        BY <1>2 DEF Rows
    <2>2. r.id \in RowIds /\ r.cron \in Crons /\ r.enabled \in BOOLEAN
        BY <2>1
    <2>3. r.id \in Nat \ {0}
        BY <2>2, ScheduleAssumption DEF RowIds
    <2> QED
        BY <2>1, <2>2, <2>3, ScheduleAssumption
<1> QED
    BY <1>1, <1>2

LEMMA IdleRecords ==
    /\ IdleSync \in SyncRecords /\ IdleSync.pc = "idle"
    /\ IdleClient \in ClientRecords /\ IdleClient.pc = "idle"
<1>1. AnySite \in Sites
    BY ScheduleAssumption DEF AnySite
<1>2. NoSites \in [Sites -> SiteRecords]
    BY DEF NoSites, SiteRecords
<1>3. [s \in Sites |-> NoRow] \in [Sites -> Rows]
    BY NoRowTyped
<1>4. IdleSync \in SyncRecords /\ IdleSync.pc = "idle"
    BY <1>2, <1>3 DEF IdleSync, SyncRecords
<1>5. IdleClient \in ClientRecords /\ IdleClient.pc = "idle"
    BY <1>1, NoRowTyped DEF IdleClient, ClientRecords
<1> QED
    BY <1>4, <1>5

LEMMA FailTyped == TypeOK /\ (Fail \/ UNCHANGED faults) => faults' \in 0..MaxFaults
BY ScheduleAssumption DEF TypeOK, Fail

LEMMA TouchTyped == \A k \in Syncers : TypeOK /\ Touch(k) => touched' \subseteq Syncers
BY DEF TypeOK, Touch

LEMMA ProjectTyped ==
    ASSUME TypeOK, NEW i \in RowIds, NEW cron \in Crons \cup {Off}, NEW k \in Syncers,
           Project(i, cron, k)
    PROVE  /\ redis' \in [RowIds -> Crons \cup {Off}]
           /\ faults' \in 0..MaxFaults
           /\ late' \subseteq Commands
           /\ touched' \subseteq Syncers
<1>1. CASE redis' = [redis EXCEPT ![i] = cron] /\ Touch(k) /\ UNCHANGED <<faults, late>>
    BY <1>1, FailTyped, TouchTyped DEF TypeOK
<1>2. CASE /\ Fail /\ touched' = touched \cup Syncers /\ UNCHANGED redis
           /\ \/ late' = late \cup {[id |-> i, cron |-> cron, fault |-> faults]}
              \/ UNCHANGED late
    <2>1. faults \in 1..MaxFaults
        BY <1>2, ScheduleAssumption DEF TypeOK, Fail
    <2>2. [id |-> i, cron |-> cron, fault |-> faults] \in Commands
        BY <2>1 DEF Commands
    <2> QED
        BY <1>2, <2>2, FailTyped DEF TypeOK
<1> QED
    BY <1>1, <1>2 DEF Project

(* The copies that the operators write. *)
RowsSound ==
    /\ site \in [Sites -> SiteRecords]
    /\ row \in [Sites -> Rows]
    /\ created \in 0..MaxRows
    /\ Numbered /\ Gone

LEMMA RowsUntouched == Sound /\ UNCHANGED <<site, row, created>> => RowsSound'
BY DEF Sound, TypeOK, RowsSound, Numbered, Gone, Exists

(* A row is updated: it keeps its id. *)
LEMMA RowUpdated ==
    ASSUME Sound, UNCHANGED <<site, created>>, NEW s \in Sites, row[s] # NoRow,
           NEW r \in Rows, r # NoRow, r.id = row[s].id, row' = [row EXCEPT ![s] = r]
    PROVE  RowsSound'
<1>0. row \in [Sites -> Rows] /\ Numbered /\ Gone
    BY DEF Sound, TypeOK
<1>1. \A t \in Sites : row'[t] = IF t = s THEN r ELSE row[t]
    BY <1>0
<1>2. Numbered'
    <2>1. \A t \in Sites : row'[t].id = row[t].id
        BY <1>1
    <2>2. ASSUME NEW t \in Sites, NEW u \in Sites, t # u, row'[t].id = row'[u].id
          PROVE  row'[t] = NoRow
        <3>1. row[t] = NoRow /\ row[u] = NoRow
            BY <1>0, <2>1, <2>2 DEF Numbered
        <3> QED
            BY <1>1, <3>1
    <2> QED
        BY <1>0, <2>1, <2>2 DEF Numbered
<1>3. Gone'
    BY <1>0, <1>1 DEF Gone, Exists
<1> QED
    BY <1>0, <1>2, <1>3 DEF RowsSound, Sound, TypeOK

LEMMA RowCreated ==
    ASSUME Sound, UNCHANGED site, NEW s \in Sites, NEW cron \in Crons, Exists(s),
           row[s] = NoRow, CreateRow(s, cron)
    PROVE  RowsSound' /\ row'[s] = [id |-> created + 1, cron |-> cron, enabled |-> TRUE]
<1> DEFINE r == [id |-> created + 1, cron |-> cron, enabled |-> TRUE]
<1>0. /\ row \in [Sites -> Rows] /\ Numbered /\ Gone
      /\ created \in 0..MaxRows /\ created < MaxRows /\ created' = created + 1
      /\ row' = [row EXCEPT ![s] = r]
    BY DEF Sound, TypeOK, CreateRow
<1>1. created \in Nat /\ created + 1 \in RowIds /\ created' \in 0..MaxRows
    BY <1>0, ScheduleAssumption DEF RowIds
<1>2. r \in Rows /\ r.id = created + 1
    BY <1>1 DEF Rows
<1> HIDE DEF r
<1>3. \A t \in Sites : row'[t] = IF t = s THEN r ELSE row[t]
    BY <1>0
<1>4. \A t \in Sites : row[t].id \in Nat /\ row[t].id <= created
    BY <1>0, NoRowTyped DEF Numbered
<1>5. Numbered'
    <2>1. \A t \in Sites : row'[t].id <= created'
        BY <1>0, <1>1, <1>2, <1>3, <1>4
    <2>2. ASSUME NEW t \in Sites, NEW u \in Sites, t # u, row'[t].id = row'[u].id
          PROVE  row'[t] = NoRow
        <3>1. \A x \in Sites : row[x].id # created + 1
            BY <1>1, <1>4
        <3>2. t # s /\ u # s
            BY <1>2, <1>3, <2>2, <3>1
        <3> QED
            BY <1>0, <1>3, <2>2, <3>2 DEF Numbered
    <2> QED
        BY <2>1, <2>2 DEF Numbered
<1>6. Gone'
    BY <1>0, <1>3 DEF Gone, Exists
<1>7. row' \in [Sites -> Rows] /\ row'[s] = r
    BY <1>0, <1>2
<1> QED
    BY <1>1, <1>5, <1>6, <1>7 DEF RowsSound, Sound, TypeOK, r

LEMMA RowRemoved ==
    ASSUME Sound, NEW s \in Sites, UNCHANGED <<site, created>>, row' = [row EXCEPT ![s] = NoRow]
    PROVE  RowsSound'
<1>0. row \in [Sites -> Rows] /\ Numbered /\ Gone /\ created \in Nat
    BY ScheduleAssumption DEF Sound, TypeOK
<1>1. \A t \in Sites : row'[t] = IF t = s THEN NoRow ELSE row[t]
    BY <1>0
<1>2. Numbered'
    <2>1. \A t \in Sites : row'[t].id <= created
        BY <1>0, <1>1, NoRowTyped DEF Numbered
    <2>2. ASSUME NEW t \in Sites, NEW u \in Sites, t # u, row'[t].id = row'[u].id
          PROVE  row'[t] = NoRow
        <3>1. CASE t = s
            BY <1>1, <3>1
        <3>2. CASE t # s /\ u = s
            BY <1>0, <1>1, <2>2, <3>2, NoRowTyped
        <3>3. CASE t # s /\ u # s
            BY <1>0, <1>1, <2>2, <3>3 DEF Numbered
        <3> QED
            BY <3>1, <3>2, <3>3
    <2> QED
        BY <2>1, <2>2 DEF Numbered
<1>3. Gone'
    BY <1>0, <1>1 DEF Gone, Exists
<1> QED
    BY <1>0, <1>1, <1>2, <1>3, NoRowTyped DEF RowsSound, Sound, TypeOK

(* Settings and status change; a site that is gone stays as it is.            *)
LEMMA SiteWritten ==
    ASSUME Sound, UNCHANGED <<row, created>>, NEW s \in Sites, Exists(s),
           NEW r \in SiteRecords, r.status # "deleted", site' = [site EXCEPT ![s] = r]
    PROVE  RowsSound'
<1>0. site \in [Sites -> SiteRecords] /\ Gone
    BY DEF Sound, TypeOK
<1>1. \A t \in Sites : site'[t] = IF t = s THEN r ELSE site[t]
    BY <1>0
<1>2. Gone'
    BY <1>0, <1>1 DEF Gone, Exists
<1> QED
    BY <1>0, <1>2 DEF RowsSound, Sound, TypeOK, Numbered

-----------------------------------------------------------------------------
(* Steps of a pass *)

Plain ==
    /\ redis' \in [RowIds -> Crons \cup {Off}]
    /\ edits' \in 0..MaxEdits /\ faults' \in 0..MaxFaults
    /\ late' \subseteq Commands
    /\ touched' \subseteq Syncers

(* A pass that goes on as q, or is over.                                      *)
LEMMA PassSound ==
    ASSUME Sound, NEW k \in Syncers, NEW q \in SyncRecords, sync' = [sync EXCEPT ![k] = q],
           RowsSound', Plain,
           \/ UNCHANGED client /\ (sync[k].pc # "idle" \/ k \notin Clients \/ q.pc = "idle")
           \/ /\ k \in Clients
              /\ \E p \in ClientRecords :
                    /\ client' = [client EXCEPT ![k] = p]
                    /\ IF q.pc = "idle" THEN p.pc = "idle" ELSE p.pc = "syncing",
           q.pc = "register" => q.keys \subseteq Kept(k)'
    PROVE  Sound'
<1>0. /\ TypeOK /\ Held /\ Waiting /\ Wanted
      /\ sync \in [Syncers -> SyncRecords] /\ client \in [Clients -> ClientRecords]
      /\ Clients \subseteq Syncers
    BY DEF Sound, TypeOK, Syncers
<1>1. \A j \in Syncers : sync'[j] = IF j = k THEN q ELSE sync[j]
    BY <1>0
<1>2. client' \in [Clients -> ClientRecords]
    BY <1>0
<1>3. \A c \in Clients : c # k => client'[c] = client[c]
    BY <1>0
<1>4. k \in Clients => \/ client'[k] = client[k]
                       \/ client'[k].pc \in {"idle", "syncing"}
    BY <1>0
<1>5. k \in Clients /\ q.pc # "idle" => client'[k].pc = "syncing"
    BY <1>0 DEF Waiting
<1>6. TypeOK'
    BY <1>0, <1>2 DEF TypeOK, RowsSound, Plain
<1>7. Held'
    BY <1>0, <1>3, <1>4 DEF Held
<1>8. Waiting'
    BY <1>0, <1>1, <1>3, <1>5 DEF Waiting
<1>9. Wanted'
    <2>1. ASSUME NEW j \in Syncers, j # k, sync[j].pc = "register"
          PROVE  sync[j].keys \subseteq Kept(j)'
        <3>1. sync'[j] = sync[j]
            BY <1>1, <2>1
        <3> QED
            BY <1>0, <2>1, <3>1 DEF Wanted, Kept
    <2> QED
        BY <1>1, <2>1 DEF Wanted
<1> QED
    BY <1>6, <1>7, <1>8, <1>9 DEF Sound, RowsSound

(* A pass that is over, and the request that waited for it.                   *)
LEMMA EndSyncSound ==
    ASSUME Sound, NEW k \in Syncers, EndSync(k), UNCHANGED <<site, row, created>>, Plain
    PROVE  Sound'
<1>1. sync' = [sync EXCEPT ![k] = IdleSync]
    BY DEF EndSync
<1>2. \/ UNCHANGED client
      \/ k \in Clients /\ client' = [client EXCEPT ![k] = IdleClient]
    BY DEF EndSync
<1>3. RowsSound'
    BY RowsUntouched
<1> QED
    BY <1>1, <1>2, <1>3, IdleRecords, PassSound

LEMMA StartSyncSound == ASSUME Sound, NEW k \in Syncers, StartSync(k) PROVE Sound'
<1> DEFINE q == [sync[k] EXCEPT !.pc = "rows", !.sites = site]
<1>0. /\ sync \in [Syncers -> SyncRecords] /\ sync[k] \in SyncRecords
      /\ site \in [Sites -> SiteRecords] /\ TypeOK
    BY DEF Sound, TypeOK
<1>1. sync' = [sync EXCEPT ![k] = q] /\ UNCHANGED <<site, row, redis, created, edits, faults, late>>
      /\ touched' = touched \ {k}
    BY DEF StartSync
<1>2. q \in SyncRecords /\ q.pc = "rows"
    BY ONLY <1>0 DEF SyncRecords
<1> HIDE DEF q
<1>3. RowsSound' /\ Plain
    BY <1>0, <1>1, RowsUntouched DEF TypeOK, Plain
<1>4. CASE k \in Timers /\ UNCHANGED client
    <2>1. k \notin Clients
        BY <1>4, ScheduleAssumption
    <2>2. UNCHANGED client
        BY <1>4
    <2> QED
        BY <1>1, <1>2, <1>3, <2>1, <2>2, PassSound
<1>5. CASE k \in Clients /\ client' = [client EXCEPT ![k].pc = "syncing"]
    <2> DEFINE p == [client[k] EXCEPT !.pc = "syncing"]
    <2>1. client[k] \in ClientRecords
        BY <1>0, <1>5 DEF TypeOK
    <2>2. p \in ClientRecords /\ p.pc = "syncing"
        BY ONLY <2>1 DEF ClientRecords
    <2>3. client' = [client EXCEPT ![k] = p]
        BY <1>5
    <2> HIDE DEF p
    <2> QED
        BY <1>1, <1>2, <1>3, <1>5, <2>2, <2>3, PassSound
<1> QED
    BY <1>4, <1>5 DEF StartSync

LEMMA ReadRowsSound == ASSUME Sound, NEW k \in Syncers, ReadRows(k) PROVE Sound'
<1> DEFINE todo == {s \in Sites : sync[k].sites[s].status # "deleted"}
           q == [sync[k] EXCEPT !.pc = "reconcile", !.rows = row, !.todo = todo]
<1>0. sync[k] \in SyncRecords /\ row \in [Sites -> Rows] /\ TypeOK /\ todo \in SUBSET Sites
    BY DEF Sound, TypeOK
<1>1. /\ sync' = [sync EXCEPT ![k] = q] /\ sync[k].pc = "rows"
      /\ UNCHANGED <<site, row, redis, client, created, edits, faults, late, touched>>
    BY DEF ReadRows
<1> HIDE DEF todo
<1>2. q \in SyncRecords /\ q.pc = "reconcile"
    BY ONLY <1>0 DEF SyncRecords
<1> HIDE DEF q
<1>3. RowsSound' /\ Plain
    BY <1>0, <1>1, RowsUntouched DEF TypeOK, Plain
<1> QED
    BY <1>1, <1>2, <1>3, PassSound

(* What a pass does with a site: nothing, an update, or a new row; where the  *)
(* database refuses, the pass is over.                                        *)
LEMMA ReconcileSound == ASSUME Sound, NEW k \in Syncers, NEW s \in Sites, Reconcile(k, s) PROVE Sound'
<1> DEFINE r == sync[k].rows[s]
           cron == sync[k].sites[s].cron
           rest == sync[k].todo \ {s}
           Done(rows) == [sync[k] EXCEPT !.todo = rest, !.rows = rows]
<1>0. /\ sync \in [Syncers -> SyncRecords] /\ sync[k] \in SyncRecords /\ TypeOK
      /\ sync[k].rows \in [Sites -> Rows] /\ sync[k].todo \in SUBSET Sites
      /\ r \in Rows /\ cron \in Crons \cup {Off} /\ row[s] \in Rows
    <2>1. sync \in [Syncers -> SyncRecords] /\ sync[k] \in SyncRecords /\ TypeOK
        BY DEF Sound, TypeOK
    <2>2. /\ sync[k].rows \in [Sites -> Rows] /\ sync[k].todo \in SUBSET Sites
          /\ sync[k].sites \in [Sites -> SiteRecords]
        BY <2>1 DEF SyncRecords
    <2> QED
        BY <2>1, <2>2 DEF TypeOK, SiteRecords
<1>1. sync[k].pc = "reconcile" /\ UNCHANGED <<site, redis, edits, faults, late>>
    BY DEF Reconcile
<1>2. ASSUME NEW rows \in [Sites -> Rows]
      PROVE  Done(rows) \in SyncRecords /\ Done(rows).pc = "reconcile"
    <2>1. rest \in SUBSET Sites
        BY <1>0
    <2> HIDE DEF rest
    <2> QED
        BY ONLY <1>0, <1>1, <2>1, rows \in [Sites -> Rows] DEF SyncRecords
<1>3. CASE sync' = [sync EXCEPT ![k].todo = @ \ {s}] /\ UNCHANGED <<row, client, created, touched>>
    <2> DEFINE q == Done(sync[k].rows)
    <2>1. q \in SyncRecords /\ q.pc = "reconcile"
        BY <1>0, <1>2
    <2>2. sync' = [sync EXCEPT ![k] = q]
        <3>1. [sync[k] EXCEPT !.todo = rest] = q
            BY ONLY <1>0 DEF SyncRecords
        <3> QED
            BY <1>0, <1>3, <3>1
    <2> HIDE DEF q
    <2>3. RowsSound' /\ Plain
        BY <1>0, <1>1, <1>3, RowsUntouched DEF TypeOK, Plain
    <2> QED
        BY <1>1, <1>3, <2>1, <2>2, <2>3, PassSound
<1>4. CASE /\ sync' = [[sync EXCEPT ![k].todo = @ \ {s}] EXCEPT ![k].rows[s] = row'[s]]
           /\ UNCHANGED client /\ RowsSound' /\ Touch(k)
    <2> DEFINE rows == [sync[k].rows EXCEPT ![s] = row'[s]]
               q == Done(rows)
    <2>1. rows \in [Sites -> Rows]
        BY <1>0, <1>4 DEF RowsSound
    <2>2. q \in SyncRecords /\ q.pc = "reconcile"
        BY <1>2, <2>1
    <2>3. sync' = [sync EXCEPT ![k] = q]
        <3>1. [[sync[k] EXCEPT !.todo = rest] EXCEPT !.rows = rows] = q
            BY ONLY <1>0 DEF SyncRecords
        <3>2. [sync[k] EXCEPT !.todo = rest].rows = sync[k].rows
            BY ONLY <1>0 DEF SyncRecords
        <3> DEFINE d == [sync EXCEPT ![k].todo = @ \ {s}]
        <3>3. d[k] = [sync[k] EXCEPT !.todo = rest] /\ d \in [Syncers -> {d[j] : j \in Syncers}]
              /\ \A j \in Syncers \ {k} : d[j] = sync[j]
            BY <1>0
        <3>4. sync' = [d EXCEPT ![k] = [d[k] EXCEPT !.rows = [d[k].rows EXCEPT ![s] = row'[s]]]]
            BY <1>4
        <3> HIDE DEF d
        <3>5. sync' = [d EXCEPT ![k] = q]
            BY <3>1, <3>2, <3>3, <3>4
        <3> HIDE DEF q
        <3> QED
            BY <1>0, <3>3, <3>5
    <2> HIDE DEF q
    <2>4. Plain
        BY <1>0, <1>1, <1>4, TouchTyped DEF TypeOK, Plain
    <2> QED
        BY <1>1, <1>4, <2>2, <2>3, <2>4, PassSound
<1>5. CASE r # NoRow /\ Stale(r, cron) /\ row[s].id = r.id /\ UNCHANGED <<client, created>>
           /\ row' = [row EXCEPT ![s] = Reconciled(@, cron)] /\ Touch(k)
           /\ sync' = [[sync EXCEPT ![k].todo = @ \ {s}] EXCEPT ![k].rows[s] = row'[s]]
    <2> DEFINE new == Reconciled(row[s], cron)
    <2>1. row[s] # NoRow /\ row[s] \in [id : RowIds, cron : Crons, enabled : BOOLEAN]
        BY <1>0, <1>5, NoRowTyped
    <2>2. /\ new \in [id : RowIds, cron : Crons, enabled : BOOLEAN]
          /\ new.id = row[s].id
        BY <1>0, <2>1 DEF Reconciled
    <2>3. row' = [row EXCEPT ![s] = new]
        BY <1>5
    <2> HIDE DEF new
    <2>4. new \in Rows /\ new # NoRow
        BY <2>1, <2>2, <1>0, NoRowTyped DEF Rows
    <2>5. RowsSound'
        BY <1>1, <1>5, <2>1, <2>2, <2>3, <2>4, RowUpdated
    <2> QED
        BY <1>4, <1>5, <2>5
<1>6. CASE /\ cron # Off /\ Exists(s) /\ row[s] = NoRow /\ CreateRow(s, cron)
           /\ sync' = [[sync EXCEPT ![k].todo = @ \ {s}] EXCEPT ![k].rows[s] = row'[s]]
           /\ Touch(k) /\ UNCHANGED client
    <2>1. cron \in Crons
        BY <1>0, <1>6
    <2>2. RowsSound'
        BY <1>1, <1>6, <2>1, RowCreated
    <2> QED
        BY <1>4, <1>6, <2>2
<1>7. CASE EndSync(k) /\ UNCHANGED <<row, created, touched>>
    <2>1. Plain
        BY <1>0, <1>1, <1>7 DEF TypeOK, Plain
    <2> QED
        BY <1>1, <1>7, <2>1, EndSyncSound
<1> QED
    BY <1>3, <1>5, <1>6, <1>7 DEF Reconcile

LEMMA RegisterSound ==
    ASSUME Sound, NEW k \in Syncers, NEW i \in RowIds, Register(k, i) \/ RemoveOrphan(k, i)
    PROVE  Sound'
<1> DEFINE keys == sync[k].keys \ {i}
           q == [sync[k] EXCEPT !.keys = keys]
<1>0. /\ sync \in [Syncers -> SyncRecords] /\ sync[k] \in SyncRecords /\ TypeOK
      /\ sync[k].rows \in [Sites -> Rows] /\ keys \in SUBSET RowIds
    BY DEF Sound, TypeOK, SyncRecords
<1>1. /\ sync' = [sync EXCEPT ![k] = q] /\ sync[k].pc \in {"register", "remove"}
      /\ UNCHANGED <<site, row, client, created, edits>>
    BY DEF Register, RemoveOrphan
<1>2. /\ q \in SyncRecords /\ q.pc = sync[k].pc /\ q.keys = keys
      /\ q.rows = sync[k].rows /\ q.sites = sync[k].sites
    <2> HIDE DEF keys
    <2> QED
        BY ONLY <1>0 DEF SyncRecords
<1> HIDE DEF q
<1>3. sync'[k] = q
    BY <1>0, <1>1
<1>4. Plain
    <2>1. CASE Register(k, i)
        <3>1. i \in Kept(k) /\ Project(i, CronOf(k, i), k)
            BY <2>1 DEF Register, Sound, Wanted
        <3>2. PICK s \in Sites : sync[k].rows[s].id = i
            BY <3>1 DEF Kept
        <3>3. CronOf(k, i) \in Crons \cup {Off}
            <4> DEFINE t == CHOOSE x \in Sites : sync[k].rows[x].id = i
            <4>1. t \in Sites
                BY <3>2
            <4>2. CronOf(k, i) = sync[k].rows[t].cron
                BY DEF CronOf
            <4> HIDE DEF t
            <4> QED
                BY <1>0, <4>1, <4>2, NoRowTyped
        <3> QED
            BY <1>0, <1>1, <3>1, <3>3, ProjectTyped DEF Plain, TypeOK
    <2>2. CASE RemoveOrphan(k, i)
        BY <1>0, <1>1, <2>2, ProjectTyped DEF RemoveOrphan, Plain, TypeOK
    <2> QED
        BY <2>1, <2>2
<1>5. q.pc = "register" => q.keys \subseteq Kept(k)'
    <2>1. Kept(k)' = Kept(k)
        BY <1>2, <1>3 DEF Kept
    <2>2. sync[k].pc = "register" => keys \subseteq Kept(k)
        BY DEF Sound, Wanted
    <2> HIDE DEF keys
    <2> QED
        BY <1>2, <2>1, <2>2
<1>6. RowsSound'
    BY <1>1, RowsUntouched
<1>7. UNCHANGED client /\ sync[k].pc # "idle"
    BY <1>1
<1> QED
    BY ONLY Sound, k \in Syncers, <1>1, <1>2, <1>4, <1>5, <1>6, <1>7, PassSound

(* The pass asks for the queue, and then for what is installed.               *)
LEMMA AskSound ==
    ASSUME Sound, NEW k \in Syncers, BeginProjection(k) \/ ListInstalled(k)
    PROVE  Sound'
<1>0. sync \in [Syncers -> SyncRecords] /\ sync[k] \in SyncRecords /\ TypeOK
    BY DEF Sound, TypeOK
<1>1. sync[k].pc \in {"reconcile", "register"} /\ UNCHANGED <<site, row, redis, created, edits, late>>
    BY DEF BeginProjection, ListInstalled
<1>2. RowsSound'
    BY <1>1, RowsUntouched
<1>3. CASE Fail /\ EndSync(k) /\ touched' = touched \cup Syncers
    <2>1. Plain
        BY <1>0, <1>1, <1>3, FailTyped DEF TypeOK, Plain
    <2> QED
        BY <1>1, <1>3, <2>1, EndSyncSound
<1>4. ASSUME NEW pc \in {"register", "remove"}, NEW keys \in SUBSET RowIds,
             pc = "register" => keys = Kept(k),
             sync' = [sync EXCEPT ![k].pc = pc, ![k].keys = keys],
             UNCHANGED <<client, faults, touched>>
      PROVE  Sound'
    <2> DEFINE q == [sync[k] EXCEPT !.pc = pc, !.keys = keys]
    <2>1. /\ q \in SyncRecords /\ q.pc = pc /\ q.keys = keys
          /\ q.rows = sync[k].rows /\ q.sites = sync[k].sites
        BY ONLY <1>0, pc \in {"register", "remove"}, keys \in SUBSET RowIds DEF SyncRecords
    <2>2. sync' = [sync EXCEPT ![k] = q]
        BY <1>4
    <2> HIDE DEF q
    <2>3. sync'[k] = q
        BY <1>0, <2>2
    <2>4. q.pc = "register" => q.keys \subseteq Kept(k)'
        BY <1>4, <2>1, <2>3 DEF Kept
    <2>5. Plain
        BY <1>0, <1>1, <1>4 DEF TypeOK, Plain
    <2>6. UNCHANGED client /\ sync[k].pc # "idle"
        BY <1>1, <1>4
    <2> QED
        BY ONLY Sound, k \in Syncers, <1>2, <2>1, <2>2, <2>4, <2>5, <2>6, PassSound
<1>5. Kept(k) \in SUBSET RowIds /\ Orphans(k) \in SUBSET RowIds
    BY DEF Kept, Orphans
<1> QED
    BY <1>3, <1>4, <1>5 DEF BeginProjection, ListInstalled

LEMMA FinishSound == ASSUME Sound, NEW k \in Syncers, FinishSync(k) PROVE Sound'
<1>1. Plain
    BY DEF FinishSync, Plain, Sound, TypeOK
<1> QED
    BY <1>1, EndSyncSound DEF FinishSync

-----------------------------------------------------------------------------
(* Steps of a request *)

(* A request that goes on as p, and waits for no pass.                        *)
LEMMA RequestSound ==
    ASSUME Sound, NEW c \in Clients, client[c].pc # "syncing",
           NEW p \in ClientRecords, client' = [client EXCEPT ![c] = p],
           p.pc = "write" => p.row # NoRow /\ (p.op # "toggle" => p.cron \in Crons),
           p.pc = "create" => p.cron \in Crons,
           p.pc \in {"mirror", "check", "project"} => p.row # NoRow,
           UNCHANGED sync, RowsSound', Plain
    PROVE  Sound'
<1>0. /\ TypeOK /\ Held /\ Waiting /\ Wanted /\ client \in [Clients -> ClientRecords]
      /\ Clients \subseteq Syncers
    BY DEF Sound, TypeOK, Syncers
<1>1. \A d \in Clients : client'[d] = IF d = c THEN p ELSE client[d]
    BY <1>0
<1>2. TypeOK'
    BY <1>0 DEF TypeOK, RowsSound, Plain
<1>3. Held'
    BY <1>0, <1>1 DEF Held
<1>4. Waiting'
    BY <1>0, <1>1 DEF Waiting
<1>5. Wanted'
    BY <1>0 DEF Wanted, Kept
<1> QED
    BY <1>2, <1>3, <1>4, <1>5 DEF Sound, RowsSound

(* Updates of a request's record that keep it a record.                       *)
LEMMA RequestTyped ==
    ASSUME TypeOK, NEW c \in Clients
    PROVE  /\ client[c] \in ClientRecords /\ client[c].site \in Sites
           /\ client[c].row \in Rows /\ client[c].cron \in Crons \cup {Off}
           /\ client[c].on \in BOOLEAN
           /\ \A pc \in {"sync", "mirror", "check", "project", "delete", "drop"} :
                 /\ [client[c] EXCEPT !.pc = pc] \in ClientRecords
                 /\ [client[c] EXCEPT !.pc = pc].pc = pc
                 /\ [client[c] EXCEPT !.pc = pc].row = client[c].row
<1>1. client[c] \in ClientRecords
    BY DEF TypeOK
<1> QED
    BY <1>1 DEF ClientRecords

LEMMA BeginTyped == TypeOK /\ edits > 0 /\ edits' = edits - 1 => edits' \in 0..MaxEdits
BY ScheduleAssumption DEF TypeOK

(* A request that is begun with a record of its own.                          *)
LEMMA BeginSound ==
    ASSUME Sound, NEW c \in Clients, NEW s \in Sites, NEW p \in ClientRecords, Begin(c, s, p),
           p.pc = "write" => p.row # NoRow /\ (p.op # "toggle" => p.cron \in Crons),
           p.pc \notin {"create", "mirror", "check"}, p.pc = "project" => p.row # NoRow,
           UNCHANGED <<sync, redis, faults, late>>, RowsSound',
           UNCHANGED touched \/ Touch(c)
    PROVE  Sound'
<1>1. /\ client[c].pc # "syncing" /\ client' = [client EXCEPT ![c] = p]
      /\ edits > 0 /\ edits' = edits - 1
    BY DEF Begin
<1>2. TypeOK /\ c \in Syncers
    BY DEF Sound, Syncers
<1>3. touched' \subseteq Syncers
    BY <1>2, TouchTyped DEF TypeOK
<1>4. Plain
    BY <1>1, <1>2, <1>3, BeginTyped DEF Plain, TypeOK
<1> QED
    BY <1>1, <1>4, RequestSound

LEMMA EditSound == ASSUME Sound, NEW c \in Clients, Edit(c) PROVE Sound'
<1>0. TypeOK /\ site \in [Sites -> SiteRecords] /\ row \in [Sites -> Rows] /\ AnySite \in Sites
    BY ScheduleAssumption DEF Sound, TypeOK, AnySite
<1>1. IdleClient \in ClientRecords
    BY IdleRecords
<1>2. PICK s \in Sites :
        \/ \E cron \in Crons \cup {Off} : SaveSettings(c, s, cron)
        \/ SaveStatus(c, s)
        \/ \E on \in BOOLEAN : ReadToToggle(c, s, on)
        \/ \E cron \in Crons : ReadToRetime(c, s, cron)
        \/ ListToDelete(c, s)
    BY DEF Edit
<1>3. ASSUME NEW cron \in Crons \cup {Off}, SaveSettings(c, s, cron) PROVE Sound'
    <2> DEFINE p == [IdleClient EXCEPT !.pc = "ensure", !.op = "settings", !.site = s]
               r == [site[s] EXCEPT !.cron = cron]
    <2>1. p \in ClientRecords /\ p.pc = "ensure"
        BY ONLY <1>1, s \in Sites DEF ClientRecords, EditKinds
    <2>2. Begin(c, s, p)
        BY <1>3 DEF SaveSettings
    <2>3. Exists(s) /\ site' = [site EXCEPT ![s] = r] /\ Touch(c)
          /\ UNCHANGED <<row, redis, sync, created, faults, late>>
        BY <1>3 DEF SaveSettings, Begin
    <2>4. r \in SiteRecords /\ r.status # "deleted"
        <3>1. site[s] \in SiteRecords /\ site[s].status # "deleted"
            BY <1>0, <2>3 DEF Exists
        <3> QED
            BY ONLY <3>1, cron \in Crons \cup {Off} DEF SiteRecords
    <2> HIDE DEF r
    <2>5. RowsSound'
        BY <2>3, <2>4, SiteWritten
    <2> HIDE DEF p
    <2> QED
        BY <2>1, <2>2, <2>3, <2>5, BeginSound
<1>4. CASE SaveStatus(c, s)
    <2> DEFINE p == [IdleClient EXCEPT !.pc = "sync", !.op = "status", !.site = s]
               r == [site[s] EXCEPT !.status = IF @ = "ACTIVE" THEN "PAUSED" ELSE "ACTIVE"]
    <2>1. p \in ClientRecords /\ p.pc = "sync"
        BY ONLY <1>1, s \in Sites DEF ClientRecords, EditKinds
    <2>2. Begin(c, s, p)
        BY <1>4 DEF SaveStatus
    <2>3. Exists(s) /\ site' = [site EXCEPT ![s] = r] /\ Touch(c)
          /\ UNCHANGED <<row, redis, sync, created, faults, late>>
        BY <1>4 DEF SaveStatus, Begin
    <2>4. r \in SiteRecords /\ r.status # "deleted"
        <3>1. site[s] \in SiteRecords
            BY <1>0
        <3> QED
            BY ONLY <3>1 DEF SiteRecords
    <2> HIDE DEF r
    <2>5. RowsSound'
        BY <2>3, <2>4, SiteWritten
    <2> HIDE DEF p
    <2> QED
        BY <2>1, <2>2, <2>3, <2>5, BeginSound
<1>5. ASSUME NEW on \in BOOLEAN, ReadToToggle(c, s, on) PROVE Sound'
    <2> DEFINE p == [IdleClient EXCEPT !.pc = "write", !.op = "toggle", !.site = s,
                                       !.row = row[s], !.on = on]
    <2>1. row[s] \in Rows
        BY <1>0
    <2>2. Begin(c, s, p) /\ row[s] # NoRow
        BY <1>5 DEF ReadToToggle
    <2>3. UNCHANGED <<site, row, redis, sync, created, faults, late, touched>>
        BY <1>5 DEF ReadToToggle
    <2>4. RowsSound'
        BY <2>3, RowsUntouched
    <2>5. p \in ClientRecords /\ p.pc = "write" /\ p.row = row[s] /\ p.op = "toggle"
        BY ONLY <1>1, <2>1, s \in Sites, on \in BOOLEAN DEF ClientRecords, EditKinds
    <2> HIDE DEF p
    <2> QED
        BY <2>2, <2>3, <2>4, <2>5, BeginSound
<1>6. ASSUME NEW cron \in Crons, ReadToRetime(c, s, cron) PROVE Sound'
    <2> DEFINE p == [IdleClient EXCEPT !.pc = "write", !.op = "retime", !.site = s,
                                       !.row = row[s], !.cron = cron]
    <2>1. row[s] \in Rows
        BY <1>0
    <2>2. Begin(c, s, p) /\ row[s] # NoRow
        BY <1>6 DEF ReadToRetime
    <2>3. UNCHANGED <<site, row, redis, sync, created, faults, late, touched>>
        BY <1>6 DEF ReadToRetime
    <2>4. RowsSound'
        BY <2>3, RowsUntouched
    <2>5. p \in ClientRecords /\ p.pc = "write" /\ p.row = row[s] /\ p.cron = cron
        BY ONLY <1>1, <2>1, s \in Sites, cron \in Crons DEF ClientRecords, EditKinds
    <2> HIDE DEF p
    <2> QED
        BY <2>2, <2>3, <2>4, <2>5, BeginSound
<1>7. CASE ListToDelete(c, s)
    <2> DEFINE r == IF row[s] = NoRow THEN NoRow ELSE [row[s] EXCEPT !.enabled = FALSE]
               pc == IF row[s] = NoRow THEN "drop" ELSE "project"
               p == [IdleClient EXCEPT !.op = "delete", !.site = s, !.row = r, !.pc = pc]
    <2>1. r \in Rows /\ (row[s] # NoRow => r # NoRow)
        <3>1. CASE row[s] # NoRow
            <4>1. row[s] \in [id : RowIds, cron : Crons, enabled : BOOLEAN]
                BY <1>0, <3>1, NoRowTyped
            <4>2. [row[s] EXCEPT !.enabled = FALSE] \in Rows
                BY ONLY <4>1 DEF Rows
            <4>3. [row[s] EXCEPT !.enabled = FALSE].id # NoRow.id
                BY <1>0, <3>1, <4>1, NoRowTyped
            <4> QED
                BY <3>1, <4>2, <4>3
        <3> QED
            BY <3>1, NoRowTyped
    <2>2. Begin(c, s, p)
        BY <1>7 DEF ListToDelete
    <2>3. UNCHANGED <<site, row, redis, sync, created, faults, late, touched>>
        BY <1>7 DEF ListToDelete
    <2>4. RowsSound'
        BY <2>3, RowsUntouched
    <2>5. pc \in {"drop", "project"} /\ (pc = "project" => r # NoRow)
        BY <2>1
    <2> HIDE DEF r, pc
    <2>6. p \in ClientRecords /\ p.pc = pc /\ p.row = r
        BY ONLY <1>1, <2>1, <2>5, s \in Sites DEF ClientRecords, EditKinds
    <2> HIDE DEF p
    <2> QED
        BY <2>2, <2>3, <2>4, <2>5, <2>6, BeginSound
<1> QED
    BY <1>2, <1>3, <1>4, <1>5, <1>6, <1>7


LEMMA EnsureSound ==
    ASSUME Sound, NEW c \in Clients, EnsureRead(c) \/ EnsureUpsert(c)
    PROVE  Sound'
<1> DEFINE s == client[c].site
<1>0. /\ TypeOK /\ client[c] \in ClientRecords /\ s \in Sites
      /\ client[c].cron \in Crons \cup {Off} /\ c \in Syncers
      /\ [client[c] EXCEPT !.pc = "sync"] \in ClientRecords
      /\ [client[c] EXCEPT !.pc = "sync"].pc = "sync"
    BY RequestTyped DEF Sound, Syncers
<1>1. CASE EnsureRead(c)
    <2> DEFINE cron == site[s].cron
               pc == IF cron = Off THEN "sync" ELSE "create"
               p == [client[c] EXCEPT !.cron = cron, !.pc = pc]
    <2>1. cron \in Crons \cup {Off}
        BY <1>0 DEF TypeOK, SiteRecords
    <2>2. pc \in {"sync", "create"} /\ (pc = "create" => cron \in Crons)
        BY <2>1
    <2>3. /\ client[c].pc = "ensure" /\ client' = [client EXCEPT ![c] = p]
          /\ UNCHANGED <<site, row, redis, sync, created, edits, faults, late, touched>>
        BY <1>1 DEF EnsureRead
    <2> HIDE DEF s, cron, pc
    <2>4. p \in ClientRecords /\ p.pc = pc /\ p.cron = cron
        BY ONLY <1>0, <2>1, <2>2 DEF ClientRecords
    <2> HIDE DEF p
    <2>5. RowsSound' /\ Plain
        BY <1>0, <2>3, RowsUntouched DEF TypeOK, Plain
    <2> QED
        BY <2>2, <2>3, <2>4, <2>5, RequestSound
<1>2. CASE EnsureUpsert(c)
    <2>1. /\ client[c].pc = "create" /\ UNCHANGED <<site, redis, sync, edits, faults, late>>
          /\ client[c].cron \in Crons
        BY <1>2 DEF EnsureUpsert, Sound, Held
    <2>2. CASE /\ row[s] = NoRow /\ Exists(s) /\ CreateRow(s, client[c].cron)
               /\ client' = [client EXCEPT ![c].pc = "sync"] /\ Touch(c)
        <3>1. RowsSound'
            BY <1>0, <2>1, <2>2, RowCreated
        <3>2. Plain
            BY <1>0, <2>1, <2>2, TouchTyped DEF TypeOK, Plain
        <3> DEFINE p == [client[c] EXCEPT !.pc = "sync"]
        <3>3. client' = [client EXCEPT ![c] = p] /\ p \in ClientRecords /\ p.pc = "sync"
            BY <1>0, <2>2
        <3> HIDE DEF p
        <3> QED
            BY <2>1, <3>1, <3>2, <3>3, RequestSound
    <2>3. ASSUME NEW p \in ClientRecords, p.pc \in {"idle", "sync"},
                 client' = [client EXCEPT ![c] = p], UNCHANGED <<row, created, touched>>
          PROVE  Sound'
        <3>1. RowsSound' /\ Plain
            BY <1>0, <2>1, <2>3, RowsUntouched DEF TypeOK, Plain
        <3> QED
            BY <2>1, <2>3, <3>1, RequestSound
    <2>4. CASE /\ row[s] # NoRow /\ client' = [client EXCEPT ![c].pc = "sync"]
               /\ UNCHANGED <<row, created, touched>>
        BY <1>0, <2>3, <2>4
    <2>5. CASE /\ ~Exists(s) /\ client' = [client EXCEPT ![c] = IdleClient]
               /\ UNCHANGED <<row, created, touched>>
        BY <2>3, <2>5, IdleRecords
    <2> QED
        BY <1>2, <2>2, <2>4, <2>5 DEF EnsureUpsert
<1> QED
    BY <1>1, <1>2

LEMMA WriteRowSound == ASSUME Sound, NEW c \in Clients, WriteRow(c) PROVE Sound'
<1> DEFINE s == client[c].site
           new == IF client[c].op = "toggle" THEN [row[s] EXCEPT !.enabled = client[c].on]
                                             ELSE [row[s] EXCEPT !.cron = client[c].cron]
           pc == IF client[c].op = "toggle" \/ new.enabled THEN "mirror" ELSE "check"
           p == [client[c] EXCEPT !.row = new, !.pc = pc]
<1>0. /\ TypeOK /\ client[c] \in ClientRecords /\ s \in Sites /\ row[s] \in Rows
      /\ client[c].on \in BOOLEAN /\ client[c].row \in Rows /\ c \in Syncers
    BY RequestTyped DEF Sound, Syncers, TypeOK
<1>1. /\ client[c].pc = "write" /\ client[c].row # NoRow
      /\ client[c].op # "toggle" => client[c].cron \in Crons
      /\ UNCHANGED <<site, redis, sync, created, edits, faults, late>>
    BY DEF WriteRow, Sound, Held
<1>2. CASE /\ row[s].id = client[c].row.id /\ row' = [row EXCEPT ![s] = new] /\ Touch(c)
           /\ client' = [client EXCEPT ![c] = p]
    <2>1. row[s] # NoRow /\ row[s] \in [id : RowIds, cron : Crons, enabled : BOOLEAN]
        BY <1>0, <1>1, <1>2, NoRowTyped
    <2>2. new \in [id : RowIds, cron : Crons, enabled : BOOLEAN] /\ new.id = row[s].id
        <3>1. CASE client[c].op = "toggle"
            BY <1>0, <2>1, <3>1
        <3>2. CASE client[c].op # "toggle"
            BY <1>0, <1>1, <2>1, <3>2
        <3> QED
            BY <3>1, <3>2
    <2>3. pc \in {"mirror", "check"}
        OBVIOUS
    <2> HIDE DEF new, pc
    <2>4. new \in Rows /\ new # NoRow
        BY <1>0, <2>1, <2>2, NoRowTyped DEF Rows
    <2>5. p \in ClientRecords /\ p.pc = pc /\ p.row = new
        BY ONLY <1>0, <2>3, <2>4 DEF ClientRecords
    <2> HIDE DEF p
    <2>6. RowsSound'
        BY <1>0, <1>1, <1>2, <2>1, <2>2, <2>4, RowUpdated
    <2>7. Plain
        BY <1>0, <1>1, <1>2, TouchTyped DEF TypeOK, Plain
    <2> QED
        BY <1>1, <1>2, <2>3, <2>4, <2>5, <2>6, <2>7, RequestSound
<1>3. CASE client' = [client EXCEPT ![c] = IdleClient] /\ UNCHANGED <<row, touched>>
    <2>1. RowsSound' /\ Plain
        BY <1>0, <1>1, <1>3, RowsUntouched DEF TypeOK, Plain
    <2> QED
        BY <1>1, <1>3, <2>1, IdleRecords, RequestSound
<1> QED
    <2> HIDE DEF p
    <2>1. p = [client[c] EXCEPT !.row = new, !.pc = pc]
        BY DEF p
    <2> QED
        BY <1>2, <1>3, <2>1 DEF WriteRow

LEMMA MirrorSound == ASSUME Sound, NEW c \in Clients, Mirror(c) PROVE Sound'
<1> DEFINE s == client[c].site
           pc == IF client[c].op = "delete" THEN "delete" ELSE "check"
           p == [client[c] EXCEPT !.pc = pc]
           cron == IF client[c].row.enabled THEN client[c].row.cron ELSE Off
           r == [site[s] EXCEPT !.cron = cron]
<1>0. /\ TypeOK /\ client[c] \in ClientRecords /\ s \in Sites /\ client[c].row \in Rows
      /\ c \in Syncers /\ cron \in Crons \cup {Off} /\ site[s] \in SiteRecords
      /\ [client[c] EXCEPT !.pc = "delete"] \in ClientRecords
      /\ [client[c] EXCEPT !.pc = "delete"].pc = "delete"
      /\ [client[c] EXCEPT !.pc = "check"] \in ClientRecords
      /\ [client[c] EXCEPT !.pc = "check"].pc = "check"
      /\ [client[c] EXCEPT !.pc = "check"].row = client[c].row
    BY RequestTyped, NoRowTyped DEF Sound, Syncers, TypeOK
<1>1. /\ client[c].pc = "mirror" /\ client' = [client EXCEPT ![c] = p]
      /\ UNCHANGED <<row, redis, sync, created, edits, late>>
    BY DEF Mirror
<1>2. p \in ClientRecords /\ p.pc \in {"delete", "check"} /\ (p.pc = "check" => p.row # NoRow)
    BY <1>0, <1>1 DEF Sound, Held
<1> HIDE DEF p
<1>3. CASE Exists(s) /\ site' = [site EXCEPT ![s] = r] /\ Touch(c) /\ UNCHANGED faults
    <2>1. r \in SiteRecords /\ r.status # "deleted"
        <3>1. site[s].status # "deleted"
            BY <1>3 DEF Exists
        <3> HIDE DEF cron
        <3> QED
            BY ONLY <1>0, <3>1 DEF SiteRecords
    <2> HIDE DEF r
    <2>2. RowsSound'
        BY <1>0, <1>1, <1>3, <2>1, SiteWritten
    <2>3. Plain
        BY <1>0, <1>1, <1>3, TouchTyped DEF TypeOK, Plain
    <2> QED
        BY <1>1, <1>2, <2>2, <2>3, RequestSound
<1>4. CASE (Fail \/ UNCHANGED faults) /\ UNCHANGED <<site, touched>>
    <2>1. RowsSound' /\ Plain
        BY <1>0, <1>1, <1>4, FailTyped, RowsUntouched DEF TypeOK, Plain
    <2> QED
        BY <1>1, <1>2, <2>1, RequestSound
<1> QED
    BY <1>3, <1>4 DEF Mirror

LEMMA ProjectSound ==
    ASSUME Sound, NEW c \in Clients, CheckSite(c) \/ ProjectRow(c)
    PROVE  Sound'
<1>0. /\ TypeOK /\ client[c] \in ClientRecords /\ client[c].site \in Sites
      /\ client[c].row \in Rows /\ client[c].cron \in Crons \cup {Off} /\ c \in Syncers
      /\ [client[c] EXCEPT !.pc = "mirror"] \in ClientRecords
      /\ [client[c] EXCEPT !.pc = "mirror"].pc = "mirror"
      /\ [client[c] EXCEPT !.pc = "mirror"].row = client[c].row
      /\ client[c].pc \in {"check", "project"} => client[c].row # NoRow
    BY RequestTyped DEF Sound, Held, Syncers
<1>1. CASE CheckSite(c)
    <2> DEFINE cron == Desired(client[c].row, site[client[c].site].status)
               p == [client[c] EXCEPT !.pc = "project", !.cron = cron]
    <2>1. cron \in Crons \cup {Off}
        BY <1>0, NoRowTyped DEF Desired
    <2>2. /\ client[c].pc = "check" /\ client' = [client EXCEPT ![c] = p]
          /\ UNCHANGED <<site, row, redis, sync, created, edits, faults, late, touched>>
        BY <1>1 DEF CheckSite
    <2> HIDE DEF cron
    <2>3. p \in ClientRecords /\ p.pc = "project" /\ p.row = client[c].row
        BY ONLY <1>0, <2>1 DEF ClientRecords
    <2> HIDE DEF p
    <2>4. RowsSound' /\ Plain
        BY <1>0, <2>2, RowsUntouched DEF TypeOK, Plain
    <2> QED
        BY <1>0, <2>2, <2>3, <2>4, RequestSound
<1>2. CASE ProjectRow(c)
    <2> DEFINE p == IF client[c].op = "delete" THEN [client[c] EXCEPT !.pc = "mirror"]
                                               ELSE IdleClient
    <2>1. p \in ClientRecords /\ p.pc \in {"idle", "mirror"}
          /\ (p.pc = "mirror" => p.row = client[c].row)
        BY <1>0, IdleRecords
    <2>2. /\ client[c].pc = "project" /\ client' = [client EXCEPT ![c] = p]
          /\ Project(client[c].row.id, client[c].cron, c)
          /\ UNCHANGED <<site, row, sync, created, edits>>
        BY <1>2 DEF ProjectRow
    <2> HIDE DEF p
    <2>3. client[c].row # NoRow /\ client[c].row.id \in RowIds
        BY <1>0, <2>2, NoRowTyped
    <2>4. Plain
        BY <1>0, <2>2, <2>3, ProjectTyped DEF TypeOK, Plain
    <2>5. RowsSound'
        BY <2>2, RowsUntouched
    <2> QED
        BY <2>1, <2>2, <2>3, <2>4, <2>5, RequestSound
<1> QED
    BY <1>1, <1>2

LEMMA DeleteRowSound == ASSUME Sound, NEW c \in Clients, DeleteRow(c) PROVE Sound'
<1> DEFINE s == client[c].site
           p == [client[c] EXCEPT !.pc = "drop"]
<1>0. /\ TypeOK /\ s \in Sites /\ c \in Syncers /\ p \in ClientRecords /\ p.pc = "drop"
    BY RequestTyped DEF Sound, Syncers
<1>1. /\ client[c].pc = "delete" /\ client' = [client EXCEPT ![c] = p] /\ Touch(c)
      /\ row' = [row EXCEPT ![s] = NoRow] \/ UNCHANGED row
      /\ UNCHANGED <<site, redis, sync, created, edits, faults, late>>
    BY DEF DeleteRow
<1> HIDE DEF p
<1>2. RowsSound'
    BY <1>0, <1>1, RowRemoved, RowsUntouched
<1>3. Plain
    BY <1>0, <1>1, TouchTyped DEF TypeOK, Plain
<1> QED
    BY <1>0, <1>1, <1>2, <1>3, RequestSound

LEMMA DropSiteSound == ASSUME Sound, NEW c \in Clients, DropSite(c) PROVE Sound'
<1> DEFINE s == client[c].site
           gone == [status |-> "deleted", cron |-> Off]
<1>0. /\ TypeOK /\ s \in Sites /\ c \in Syncers
      /\ site \in [Sites -> SiteRecords] /\ row \in [Sites -> Rows] /\ Numbered /\ Gone
      /\ created \in Nat
    <2>1. TypeOK /\ Numbered /\ Gone /\ c \in Syncers
        BY DEF Sound, Syncers
    <2>2. s \in Sites
        BY <2>1, RequestTyped
    <2>3. site \in [Sites -> SiteRecords] /\ row \in [Sites -> Rows] /\ created \in Nat
        BY <2>1, ScheduleAssumption DEF TypeOK
    <2> QED
        BY <2>1, <2>2, <2>3
<1>1. /\ client[c].pc = "drop" /\ client' = [client EXCEPT ![c] = IdleClient] /\ Touch(c)
      /\ site' = [site EXCEPT ![s] = gone] /\ row' = [row EXCEPT ![s] = NoRow]
      /\ UNCHANGED <<redis, sync, created, edits, faults, late>>
    BY DEF DropSite
<1>2. gone \in SiteRecords /\ gone.cron = Off
    BY DEF SiteRecords
<1> HIDE DEF gone
<1>3. \A t \in Sites : /\ row'[t] = IF t = s THEN NoRow ELSE row[t]
                       /\ site'[t] = IF t = s THEN gone ELSE site[t]
    BY <1>0, <1>1
<1>4. Gone'
    BY <1>0, <1>2, <1>3 DEF Gone, Exists
<1>5. Numbered'
    <2>1. \A t \in Sites : row'[t].id <= created
        BY <1>0, <1>3, NoRowTyped DEF Numbered
    <2>2. ASSUME NEW t \in Sites, NEW u \in Sites, t # u, row'[t].id = row'[u].id
          PROVE  row'[t] = NoRow
        <3>1. CASE t = s
            BY <1>3, <3>1
        <3>2. CASE t # s /\ u = s
            BY <1>0, <1>3, <2>2, <3>2, NoRowTyped
        <3>3. CASE t # s /\ u # s
            BY <1>0, <1>3, <2>2, <3>3 DEF Numbered
        <3> QED
            BY <3>1, <3>2, <3>3
    <2> QED
        BY <1>1, <2>1, <2>2 DEF Numbered
<1>6. RowsSound'
    BY <1>0, <1>1, <1>2, <1>4, <1>5, NoRowTyped DEF RowsSound, TypeOK
<1>7. Plain
    BY <1>0, <1>1, TouchTyped DEF TypeOK, Plain
<1> QED
    BY <1>1, <1>6, <1>7, IdleRecords, RequestSound

(* Both the request and the pass it waited for are over.                      *)
LEMMA CrashSound == ASSUME Sound, NEW c \in Clients, ClientCrash(c) PROVE Sound'
<1>0. TypeOK /\ c \in Syncers
    BY DEF Sound, Syncers
<1>1. /\ client' = [client EXCEPT ![c] = IdleClient] /\ sync' = [sync EXCEPT ![c] = IdleSync]
      /\ Fail /\ touched' = touched \cup {c} /\ UNCHANGED <<site, row, redis, created, edits, late>>
    BY DEF ClientCrash
<1>2. RowsSound' /\ Plain
    BY <1>0, <1>1, FailTyped, RowsUntouched DEF TypeOK, Plain
<1> QED
    BY <1>0, <1>1, <1>2, IdleRecords, PassSound

(* A command that was given up on lands. *)
LEMMA LandLateSound == ASSUME Sound, NEW m \in late, LandLate(m) PROVE Sound'
<1>0. TypeOK /\ m.id \in RowIds /\ m.cron \in Crons \cup {Off}
    BY DEF Sound, TypeOK, Commands
<1>1. /\ redis' = [redis EXCEPT ![m.id] = m.cron] /\ late' = late \ {m}
      /\ touched' \subseteq touched \cup Syncers
      /\ UNCHANGED <<site, row, sync, client, created, edits, faults>>
    BY DEF LandLate
<1>2. TypeOK'
    BY <1>0, <1>1 DEF TypeOK
<1> QED
    BY <1>1, <1>2 DEF Sound, Held, Waiting, Numbered, Gone, Wanted, Kept, Exists

LEMMA InitSound == Init => Sound
<1> SUFFICES ASSUME Init PROVE Sound
    OBVIOUS
<1>1. TypeOK
    BY IdleRecords, NoRowTyped, ScheduleAssumption DEF Init, TypeOK, SiteRecords
<1>2. Held /\ Waiting /\ Wanted
    BY IdleRecords DEF Init, Held, Waiting, Wanted, Syncers
<1>3. Numbered /\ Gone
    BY NoRowTyped DEF Init, Numbered, Gone, Exists
<1> QED
    BY <1>1, <1>2, <1>3 DEF Sound

LEMMA NextSound == Sound /\ [Next]_vars => Sound'
<1> SUFFICES ASSUME Sound, [Next]_vars PROVE Sound'
    OBVIOUS
<1>1. ASSUME NEW k \in Syncers, StartSync(k) \/ SyncStep(k) PROVE Sound'
    <2>1. ASSUME NEW s \in Sites, Reconcile(k, s) PROVE Sound'
        BY <2>1, ReconcileSound
    <2>2. ASSUME NEW i \in RowIds, Register(k, i) \/ RemoveOrphan(k, i) PROVE Sound'
        BY <2>2, RegisterSound
    <2> QED
        BY <1>1, <2>1, <2>2, StartSyncSound, ReadRowsSound, AskSound, FinishSound DEF SyncStep
<1>2. ASSUME NEW c \in Clients, Edit(c) \/ ClientStep(c) \/ ClientCrash(c) PROVE Sound'
    BY <1>2, EditSound, EnsureSound, WriteRowSound, MirrorSound, ProjectSound, DeleteRowSound,
       DropSiteSound, CrashSound DEF ClientStep
<1>3. CASE UNCHANGED vars
    BY <1>3 DEF vars, Sound, TypeOK, Held, Waiting, Numbered, Gone, Wanted, Kept, Exists
<1> QED
    BY <1>1, <1>2, <1>3, LandLateSound DEF Next

-----------------------------------------------------------------------------
(* What a pass has brought together *)

(* The cron under which a row's id is to be registered, by the copies.        *)
CronIn(rows, i) == rows[CHOOSE s \in Sites : rows[s].id = i].cron

LEMMA CopiesKept ==
    ASSUME NEW k, sync'[k].rows = sync[k].rows, sync'[k].sites = sync[k].sites
    PROVE  Kept(k)' = Kept(k) /\ \A i : CronOf(k, i)' = CronOf(k, i)
<1>1. Kept(k)' = Kept(k)
    BY DEF Kept
<1>2. \A i : CronOf(k, i) = CronIn(sync[k].rows, i)
    BY DEF CronOf, CronIn
<1>3. \A i : CronOf(k, i)' = CronIn(sync'[k].rows, i)
    BY DEF CronOf, CronIn
<1> HIDE DEF CronIn
<1> QED
    BY <1>1, <1>2, <1>3

(* A pass that the step leaves where it is.                                   *)
LEMMA PhaseKept ==
    ASSUME Passes, NEW k \in Syncers, sync'[k] = sync[k], k \notin touched' => k \notin touched,
           UNCHANGED <<site, row, redis>> \/ (sync[k].pc # "idle" => k \in touched')
    PROVE  Undisturbed(k)' => Phase(k)'
<1> SUFFICES ASSUME Undisturbed(k)' PROVE Phase(k)'
    OBVIOUS
<1>1. sync[k].pc # "idle" /\ k \notin touched /\ UNCHANGED <<site, row, redis>>
    BY DEF Undisturbed
<1>2. Phase(k)
    BY <1>1 DEF Passes, Undisturbed
<1>3. Kept(k)' = Kept(k) /\ \A i : CronOf(k, i)' = CronOf(k, i)
    BY CopiesKept
<1>4. \A i : Registered(k, i)' <=> Registered(k, i)
    BY <1>1, <1>3 DEF Registered
<1>5. /\ RowsFollow' <=> RowsFollow
      /\ \A s \in Sites : (Exists(s)' <=> Exists(s)) /\ (Follows(s)' <=> Follows(s))
    BY <1>1 DEF RowsFollow, Exists, Follows
<1> QED
    BY <1>1, <1>2, <1>3, <1>4, <1>5 DEF Phase

(* Whoever writes touches the passes of the others.                           *)
LEMMA PassesKept ==
    ASSUME Passes, NEW a \in Syncers, \A k \in Syncers : k # a => sync'[k] = sync[k],
           \/ UNCHANGED <<site, row, redis>> /\ touched \ {a} \subseteq touched'
           \/ Touch(a)
           \/ touched' = touched \cup Syncers,
           Undisturbed(a)' => Phase(a)'
    PROVE  Passes'
<1>1. ASSUME NEW k \in Syncers, k # a PROVE Undisturbed(k)' => Phase(k)'
    <2>1. sync'[k] = sync[k] /\ (k \notin touched' => k \notin touched)
        BY <1>1 DEF Touch
    <2>2. UNCHANGED <<site, row, redis>> \/ (sync[k].pc # "idle" => k \in touched')
        BY <1>1 DEF Touch
    <2> QED
        BY <2>1, <2>2, PhaseKept
<1> QED
    BY <1>1 DEF Passes

LEMMA EndSyncPasses ==
    ASSUME TypeOK, NEW k \in Syncers, sync' = [sync EXCEPT ![k] = IdleSync]
    PROVE  /\ sync'[k].pc = "idle" /\ ~Undisturbed(k)'
           /\ \A j \in Syncers : j # k => sync'[j] = sync[j]
<1>1. sync'[k] = IdleSync /\ \A j \in Syncers : j # k => sync'[j] = sync[j]
    BY DEF TypeOK
<1> QED
    BY <1>1, IdleRecords DEF Undisturbed

LEMMA ReadPasses ==
    ASSUME Sound, Passes, NEW k \in Syncers, StartSync(k) \/ ReadRows(k)
    PROVE  Passes'
<1>0. TypeOK /\ Gone /\ sync \in [Syncers -> SyncRecords] /\ sync[k] \in SyncRecords
      /\ row \in [Sites -> Rows]
    BY DEF Sound, TypeOK
<1>1. /\ UNCHANGED <<site, row, redis>> /\ touched \ {k} \subseteq touched'
      /\ \A j \in Syncers : j # k => sync'[j] = sync[j]
    BY <1>0 DEF StartSync, ReadRows
<1>2. CASE StartSync(k)
    <2>1. sync'[k].pc = "rows" /\ sync'[k].sites = site
        BY <1>0, <1>2 DEF StartSync, SyncRecords
    <2> QED
        BY <1>1, <2>1, PassesKept DEF Phase
<1>3. CASE ReadRows(k)
    <2>1. /\ sync'[k].pc = "reconcile" /\ sync'[k].rows = row /\ sync'[k].sites = sync[k].sites
          /\ sync'[k].todo = {s \in Sites : sync[k].sites[s].status # "deleted"}
          /\ sync[k].pc = "rows" /\ UNCHANGED touched
        BY <1>0, <1>3 DEF ReadRows, SyncRecords
    <2>2. ASSUME Undisturbed(k)' PROVE Phase(k)'
        <3>1. sync[k].sites = site
            BY <2>1, <2>2 DEF Undisturbed, Passes, Phase
        <3>2. ASSUME NEW s \in Sites
              PROVE  IF s \in sync'[k].todo THEN Exists(s)' ELSE Follows(s)'
            <4>1. s \in sync'[k].todo <=> Exists(s)
                BY <2>1, <3>1 DEF Exists
            <4>2. ~Exists(s) => Follows(s)
                BY <1>0, NoRowTyped DEF Gone, Follows
            <4> QED
                BY <1>1, <4>1, <4>2 DEF Exists, Follows
        <3> QED
            BY <1>1, <2>1, <3>1, <3>2 DEF Phase
    <2> QED
        BY <1>1, <2>2, PassesKept
<1> QED
    BY <1>2, <1>3

LEMMA CopyWritten ==
    ASSUME TypeOK, NEW k \in Syncers, NEW s \in Sites,
           sync' = [[sync EXCEPT ![k].todo = @ \ {s}] EXCEPT ![k].rows[s] = row'[s]]
    PROVE  /\ \A j \in Syncers : j # k => sync'[j] = sync[j]
           /\ sync'[k].pc = sync[k].pc /\ sync'[k].sites = sync[k].sites
           /\ sync'[k].todo = sync[k].todo \ {s}
           /\ sync'[k].rows = [sync[k].rows EXCEPT ![s] = row'[s]]
<1> DEFINE rest == sync[k].todo \ {s}
           rows == [sync[k].rows EXCEPT ![s] = row'[s]]
           d == [sync EXCEPT ![k].todo = @ \ {s}]
           e == [sync[k] EXCEPT !.todo = rest]
           q == [e EXCEPT !.rows = rows]
<1>0. sync \in [Syncers -> SyncRecords] /\ sync[k] \in SyncRecords
    BY DEF TypeOK
<1>1. d[k] = e /\ DOMAIN d = Syncers /\ \A j \in Syncers : j # k => d[j] = sync[j]
    BY <1>0
<1>2. sync' = [d EXCEPT ![k] = [d[k] EXCEPT !.rows = [d[k].rows EXCEPT ![s] = row'[s]]]]
    OBVIOUS
<1>3. e.rows = sync[k].rows
    BY ONLY <1>0 DEF SyncRecords
<1>4. /\ q.pc = sync[k].pc /\ q.sites = sync[k].sites /\ q.todo = rest /\ q.rows = rows
    <2> HIDE DEF rest, rows
    <2> QED
        BY ONLY <1>0 DEF SyncRecords
<1> HIDE DEF d, e
<1>5. sync' = [d EXCEPT ![k] = q]
    BY <1>1, <1>2, <1>3
<1> HIDE DEF q
<1>6. sync'[k] = q /\ \A j \in Syncers : j # k => sync'[j] = sync[j]
    BY <1>1, <1>5
<1> QED
    BY <1>4, <1>6

(* A pass alone never meets the refusals of the database.                     *)
LEMMA ReconcilePasses ==
    ASSUME Sound, Passes, NEW k \in Syncers, NEW s \in Sites, Reconcile(k, s)
    PROVE  Passes' /\ (sync'[k].pc = "idle" => k \in touched')
<1> DEFINE r == sync[k].rows[s]
           cron == sync[k].sites[s].cron
<1>0. /\ TypeOK /\ sync \in [Syncers -> SyncRecords] /\ sync[k] \in SyncRecords
      /\ row \in [Sites -> Rows] /\ site \in [Sites -> SiteRecords]
    BY DEF Sound, TypeOK
<1>1. sync[k].pc = "reconcile" /\ s \in sync[k].todo /\ UNCHANGED <<site, redis, edits, faults, late>>
    BY DEF Reconcile
<1>2. k \notin touched => /\ sync[k].sites = site /\ sync[k].rows = row
                          /\ \A t \in Sites : IF t \in sync[k].todo THEN Exists(t) ELSE Follows(t)
    BY <1>1 DEF Passes, Phase, Undisturbed
<1>3. ASSUME \A j \in Syncers : j # k => sync'[j] = sync[j],
             sync'[k].pc = "reconcile", sync'[k].sites = sync[k].sites,
             sync'[k].todo = sync[k].todo \ {s},
             k \notin touched => sync'[k].rows = row' /\ Follows(s)',
             \A t \in Sites : t # s => row'[t] = row[t],
             UNCHANGED <<row, touched>> \/ Touch(k)
      PROVE  Passes'
    <2>1. ASSUME Undisturbed(k)' PROVE Phase(k)'
        <3>1. k \notin touched
            BY <1>3, <2>1 DEF Undisturbed, Touch
        <3>2. \A t \in Sites : t # s => (Exists(t)' <=> Exists(t)) /\ (Follows(t)' <=> Follows(t))
            BY <1>1, <1>3 DEF Exists, Follows
        <3>3. \A t \in Sites : IF t \in sync'[k].todo THEN Exists(t)' ELSE Follows(t)'
            BY <1>2, <1>3, <3>1, <3>2
        <3> QED
            BY <1>1, <1>2, <1>3, <3>1, <3>3 DEF Phase
    <2> QED
        BY <1>1, <1>3, <2>1, PassesKept
<1>4. CASE /\ r = NoRow \/ ~Stale(r, cron)
           /\ r = NoRow => cron = Off
           /\ sync' = [sync EXCEPT ![k].todo = @ \ {s}]
           /\ UNCHANGED <<row, client, created, touched>>
    <2>1. /\ \A j \in Syncers : j # k => sync'[j] = sync[j]
          /\ sync'[k].pc = sync[k].pc /\ sync'[k].sites = sync[k].sites
          /\ sync'[k].todo = sync[k].todo \ {s} /\ sync'[k].rows = sync[k].rows
        BY <1>0, <1>4 DEF SyncRecords
    <2>2. ASSUME k \notin touched PROVE Follows(s)'
        <3>1. r = row[s] /\ cron = site[s].cron
            BY <1>2, <2>2
        <3>2. Follows(s)
            BY <1>4, <3>1, NoRowTyped DEF Follows, Stale
        <3> QED
            BY <1>1, <1>4, <3>2 DEF Follows
    <2> QED
        BY <1>1, <1>2, <1>3, <1>4, <2>1, <2>2
<1>5. ASSUME sync' = [[sync EXCEPT ![k].todo = @ \ {s}] EXCEPT ![k].rows[s] = row'[s]],
             NEW new, row' = [row EXCEPT ![s] = new], Touch(k),
             k \notin touched => IF site[s].cron = Off THEN ~new.enabled
                                 ELSE new.enabled /\ new.cron = site[s].cron
      PROVE  Passes' /\ sync'[k].pc # "idle"
    <2>1. /\ \A j \in Syncers : j # k => sync'[j] = sync[j]
          /\ sync'[k].pc = sync[k].pc /\ sync'[k].sites = sync[k].sites
          /\ sync'[k].todo = sync[k].todo \ {s}
          /\ sync'[k].rows = [sync[k].rows EXCEPT ![s] = row'[s]]
        BY <1>0, <1>5, CopyWritten
    <2>2. row'[s] = new /\ \A t \in Sites : t # s => row'[t] = row[t]
        BY <1>0, <1>5
    <2>3. k \notin touched => sync'[k].rows = row' /\ Follows(s)'
        BY <1>0, <1>1, <1>2, <1>5, <2>1, <2>2 DEF Follows
    <2> QED
        BY <1>1, <1>3, <1>5, <2>1, <2>2, <2>3
<1>6. CASE r # NoRow /\ Stale(r, cron) /\ row[s].id = r.id
           /\ row' = [row EXCEPT ![s] = Reconciled(@, cron)] /\ Touch(k)
           /\ sync' = [[sync EXCEPT ![k].todo = @ \ {s}] EXCEPT ![k].rows[s] = row'[s]]
    <2> DEFINE new == Reconciled(row[s], cron)
    <2>1. IF cron = Off THEN ~new.enabled ELSE new.enabled /\ new.cron = cron
        <3>1. r \in Rows
            BY <1>0 DEF SyncRecords
        <3>2. row[s] \in Rows /\ row[s].id # 0
            BY <1>0, <1>6, <3>1, NoRowTyped
        <3>3. row[s] \in [id : RowIds, cron : Crons, enabled : BOOLEAN]
            BY <3>2, NoRowTyped
        <3> QED
            BY <3>3 DEF Reconciled
    <2>2. row' = [row EXCEPT ![s] = new]
        BY <1>6
    <2> HIDE DEF new
    <2>3. k \notin touched => IF site[s].cron = Off THEN ~new.enabled
                              ELSE new.enabled /\ new.cron = site[s].cron
        BY <1>2, <2>1
    <2> QED
        BY <1>5, <1>6, <2>2, <2>3
<1>7. CASE cron # Off /\ CreateRow(s, cron) /\ Touch(k)
           /\ sync' = [[sync EXCEPT ![k].todo = @ \ {s}] EXCEPT ![k].rows[s] = row'[s]]
    <2> DEFINE new == [id |-> created + 1, cron |-> cron, enabled |-> TRUE]
    <2>1. row' = [row EXCEPT ![s] = new] /\ new.enabled /\ new.cron = cron
        BY <1>7 DEF CreateRow
    <2> HIDE DEF new
    <2>2. k \notin touched => IF site[s].cron = Off THEN ~new.enabled
                              ELSE new.enabled /\ new.cron = site[s].cron
        BY <1>2, <1>7, <2>1
    <2> QED
        BY <1>5, <1>7, <2>1, <2>2
<1>8. CASE /\ IF r = NoRow THEN cron # Off /\ (row[s] # NoRow \/ ~Exists(s))
                           ELSE Stale(r, cron) /\ row[s].id # r.id
           /\ EndSync(k) /\ UNCHANGED <<row, created, touched>>
    <2>1. sync'[k].pc = "idle" /\ ~Undisturbed(k)' /\ \A j \in Syncers : j # k => sync'[j] = sync[j]
        BY <1>0, <1>8, EndSyncPasses DEF EndSync
    <2>2. k \in touched
        BY <1>1, <1>2, <1>8
    <2> QED
        BY <1>1, <1>8, <2>1, <2>2, PassesKept
<1> QED
    BY <1>4, <1>6, <1>7, <1>8 DEF Reconcile

LEMMA FollowsAll == RowsFollow <=> \A s \in Sites : Follows(s)
BY DEF RowsFollow, Follows

(* A pass whose queue or list cannot be had ends there, and counts as         *)
(* disturbed.                                                                 *)
LEMMA AskPasses ==
    ASSUME Sound, Passes, NEW k \in Syncers, BeginProjection(k) \/ ListInstalled(k)
    PROVE  Passes' /\ (sync'[k].pc = "idle" => k \in touched')
<1>0. /\ TypeOK /\ sync \in [Syncers -> SyncRecords] /\ sync[k] \in SyncRecords
    BY DEF Sound, TypeOK
<1>1. UNCHANGED <<site, row, redis, created, edits, late>>
    BY DEF BeginProjection, ListInstalled
<1>2. ASSUME EndSync(k), touched' = touched \cup Syncers
      PROVE  Passes' /\ k \in touched'
    <2>1. ~Undisturbed(k)' /\ \A j \in Syncers : j # k => sync'[j] = sync[j]
        BY <1>0, <1>2, EndSyncPasses DEF EndSync
    <2> QED
        BY <1>1, <1>2, <2>1, PassesKept
<1>3. ASSUME NEW pc, NEW keys, sync' = [sync EXCEPT ![k].pc = pc, ![k].keys = keys],
             UNCHANGED touched
      PROVE  /\ \A j \in Syncers : j # k => sync'[j] = sync[j]
             /\ sync'[k].pc = pc /\ sync'[k].keys = keys
             /\ sync'[k].sites = sync[k].sites /\ sync'[k].rows = sync[k].rows
             /\ Kept(k)' = Kept(k) /\ \A i : Registered(k, i)' <=> Registered(k, i)
    <2>1. /\ \A j \in Syncers : j # k => sync'[j] = sync[j]
          /\ sync'[k].pc = pc /\ sync'[k].keys = keys
          /\ sync'[k].sites = sync[k].sites /\ sync'[k].rows = sync[k].rows
        BY <1>0, <1>3 DEF SyncRecords
    <2>2. Kept(k)' = Kept(k) /\ \A i : CronOf(k, i)' = CronOf(k, i)
        BY <2>1, CopiesKept
    <2> QED
        BY <1>1, <2>1, <2>2 DEF Registered
<1>4. ASSUME sync[k].pc = "reconcile", sync[k].todo = {}, UNCHANGED touched,
             sync' = [sync EXCEPT ![k].pc = "register", ![k].keys = Kept(k)]
      PROVE  Passes' /\ sync'[k].pc # "idle"
    <2>1. /\ \A j \in Syncers : j # k => sync'[j] = sync[j]
          /\ sync'[k].pc = "register" /\ sync'[k].keys = Kept(k)'
          /\ sync'[k].sites = sync[k].sites /\ sync'[k].rows = sync[k].rows
        BY <1>3, <1>4
    <2>2. ASSUME Undisturbed(k)' PROVE Phase(k)'
        <3>1. sync[k].sites = site /\ sync[k].rows = row /\ \A s \in Sites : Follows(s)
            BY <1>4, <2>2 DEF Undisturbed, Passes, Phase
        <3>2. RowsFollow'
            BY <1>1, <3>1, FollowsAll DEF RowsFollow
        <3> QED
            BY <1>1, <2>1, <3>1, <3>2 DEF Phase
    <2> QED
        BY <1>1, <1>4, <2>1, <2>2, PassesKept
<1>5. ASSUME sync[k].pc = "register", sync[k].keys = {}, UNCHANGED touched,
             sync' = [sync EXCEPT ![k].pc = "remove", ![k].keys = Orphans(k)]
      PROVE  Passes' /\ sync'[k].pc # "idle"
    <2>1. /\ \A j \in Syncers : j # k => sync'[j] = sync[j]
          /\ sync'[k].pc = "remove" /\ sync'[k].keys = Orphans(k)
          /\ sync'[k].sites = sync[k].sites /\ sync'[k].rows = sync[k].rows
          /\ Kept(k)' = Kept(k) /\ \A i : Registered(k, i)' <=> Registered(k, i)
        BY <1>3, <1>5
    <2>2. ASSUME Undisturbed(k)' PROVE Phase(k)'
        <3>1. /\ sync[k].sites = site /\ sync[k].rows = row /\ RowsFollow
              /\ \A i \in Kept(k) : Registered(k, i)
            BY <1>5, <2>2 DEF Undisturbed, Passes, Phase
        <3>2. RowsFollow'
            BY <1>1, <3>1 DEF RowsFollow
        <3>3. ASSUME NEW i \in RowIds
              PROVE  IF i \in Kept(k)' THEN i \notin sync'[k].keys /\ Registered(k, i)'
                     ELSE i \in sync'[k].keys \/ redis'[i] = Off
            BY <1>1, <2>1, <3>1 DEF Orphans
        <3> QED
            BY <1>1, <2>1, <3>1, <3>2, <3>3 DEF Phase
    <2> QED
        BY <1>1, <1>5, <2>1, <2>2, PassesKept
<1> QED
    BY <1>2, <1>4, <1>5 DEF BeginProjection, ListInstalled

LEMMA ProjectPasses ==
    ASSUME Sound, Passes, NEW k \in Syncers, NEW i \in RowIds, Register(k, i) \/ RemoveOrphan(k, i)
    PROVE  Passes' /\ sync'[k].pc # "idle"
<1>0. /\ TypeOK /\ sync \in [Syncers -> SyncRecords] /\ sync[k] \in SyncRecords
      /\ redis \in [RowIds -> Crons \cup {Off}]
    BY DEF Sound, TypeOK
<1> DEFINE cron == IF sync[k].pc = "register" THEN CronOf(k, i) ELSE Off
<1>1. /\ sync[k].pc \in {"register", "remove"} /\ i \in sync[k].keys
      /\ Project(i, cron, k)
      /\ sync' = [sync EXCEPT ![k].keys = @ \ {i}]
      /\ UNCHANGED <<site, row, client, created, edits>>
    BY DEF Register, RemoveOrphan
<1>2. /\ \A j \in Syncers : j # k => sync'[j] = sync[j]
      /\ sync'[k].pc = sync[k].pc /\ sync'[k].keys = sync[k].keys \ {i}
      /\ sync'[k].sites = sync[k].sites /\ sync'[k].rows = sync[k].rows
    BY <1>0, <1>1 DEF SyncRecords
<1>3. Kept(k)' = Kept(k) /\ \A j : CronOf(k, j)' = CronOf(k, j)
    BY <1>2, CopiesKept
<1> HIDE DEF cron
<1>4. CASE touched' = touched \cup Syncers
    BY <1>1, <1>2, <1>4, PassesKept DEF Undisturbed
<1>5. CASE redis' = [redis EXCEPT ![i] = cron] /\ Touch(k)
    <2>1. redis'[i] = cron /\ \A j \in RowIds : j # i => redis'[j] = redis[j]
        BY <1>0, <1>5
    <2>2. ASSUME Undisturbed(k)' PROVE Phase(k)'
        <3>1. /\ sync[k].sites = site /\ sync[k].rows = row /\ RowsFollow
              /\ sync[k].pc = "register" => \A j \in Kept(k) \ sync[k].keys : Registered(k, j)
              /\ sync[k].pc = "remove" =>
                    \A j \in RowIds : IF j \in Kept(k) THEN j \notin sync[k].keys /\ Registered(k, j)
                                      ELSE j \in sync[k].keys \/ redis[j] = Off
            BY <1>1, <1>5, <2>2 DEF Undisturbed, Passes, Phase, Touch
        <3>2. RowsFollow'
            BY <1>1, <3>1 DEF RowsFollow
        <3>3. Kept(k) \subseteq RowIds
            BY DEF Kept
        <3>4. CASE sync[k].pc = "register"
            <4>1. ASSUME NEW j \in Kept(k), j \notin sync'[k].keys PROVE Registered(k, j)'
                <5>1. CASE j = i
                    BY <1>3, <2>1, <3>4, <5>1 DEF Registered, cron
                <5>2. CASE j # i
                    BY <1>2, <1>3, <2>1, <3>1, <3>3, <3>4, <4>1, <5>2 DEF Registered
                <5> QED
                    BY <5>1, <5>2
            <4> QED
                BY <1>1, <1>2, <1>3, <3>1, <3>2, <3>4, <4>1 DEF Phase
        <3>5. CASE sync[k].pc = "remove"
            <4>1. ASSUME NEW j \in RowIds
                  PROVE  IF j \in Kept(k) THEN j \notin sync'[k].keys /\ Registered(k, j)'
                         ELSE j \in sync'[k].keys \/ redis'[j] = Off
                <5>1. CASE j = i
                    BY <1>1, <2>1, <3>1, <3>5, <5>1 DEF cron
                <5>2. CASE j # i
                    BY <1>2, <1>3, <2>1, <3>1, <3>5, <5>2 DEF Registered
                <5> QED
                    BY <5>1, <5>2
            <4> QED
                BY <1>1, <1>2, <1>3, <3>1, <3>2, <3>5, <4>1 DEF Phase
        <3> QED
            BY <1>1, <3>4, <3>5
    <2>3. Touch(k)
        BY <1>5
    <2>4. sync'[k].pc # "idle"
        BY <1>1, <1>2
    <2> QED
        BY ONLY Passes, k \in Syncers, <1>2, <2>2, <2>3, <2>4, PassesKept
<1> QED
    BY <1>1, <1>2, <1>4, <1>5 DEF Project

(* What a pass keeps, if its copies are right, is what the rows ask for: no   *)
(* other row has the same id.                                                 *)
AskedFor(i) ==
    IF \E s \in Sites : row[s].id = i
    THEN LET s == CHOOSE s \in Sites : row[s].id = i
         IN Desired(row[s], site[s].status)
    ELSE Off

LEMMA KeptIsAskedFor ==
    ASSUME Sound, NEW k \in Syncers, sync[k].sites = site, sync[k].rows = row, NEW i \in RowIds
    PROVE  AskedFor(i) = IF i \in Kept(k) THEN CronOf(k, i) ELSE Off
<1>0. /\ Numbered /\ row \in [Sites -> Rows]
    BY DEF Sound, TypeOK
<1> DEFINE s0 == CHOOSE s \in Sites : row[s].id = i
<1>1. i # 0
    BY ScheduleAssumption DEF RowIds
<1>2. CASE ~ \E s \in Sites : row[s].id = i
    <2>1. i \notin Kept(k)
        BY <1>2 DEF Kept
    <2> QED
        BY <1>2, <2>1 DEF AskedFor
<1>3. CASE \E s \in Sites : row[s].id = i
    <2>1. s0 \in Sites /\ row[s0].id = i
        BY <1>3
    <2>2. CronOf(k, i) = row[s0].cron
        BY DEF CronOf
    <2>3. AskedFor(i) = Desired(row[s0], site[s0].status)
        BY <1>3 DEF AskedFor
    <2> HIDE DEF s0
    <2>4. i \in Kept(k) => Desired(row[s0], site[s0].status) # Off
        <3> SUFFICES ASSUME i \in Kept(k)
                     PROVE  Desired(row[s0], site[s0].status) # Off
            OBVIOUS
        <3>1. PICK s \in Sites : row[s].id = i /\ Desired(row[s], site[s].status) # Off
            BY DEF Kept
        <3>2. row[s] # NoRow
            BY <1>1, <3>1, NoRowTyped
        <3>3. s = s0
            BY <1>0, <2>1, <3>1, <3>2 DEF Numbered
        <3> QED
            BY <3>1, <3>3
    <2>5. CASE i \in Kept(k)
        BY <2>2, <2>3, <2>4, <2>5 DEF Desired
    <2>6. CASE i \notin Kept(k)
        BY <2>1, <2>3, <2>6 DEF Kept
    <2> QED
        BY <2>5, <2>6
<1> QED
    BY <1>2, <1>3

LEMMA RedisAsAsked == RedisExact <=> \A i \in RowIds : redis[i] = AskedFor(i)
BY DEF RedisExact, AskedFor

LEMMA InStepKept == InStep /\ UNCHANGED <<site, row, redis>> => InStep'
BY DEF InStep, RowsFollow, RedisExact

LEMMA FinishPasses ==
    ASSUME Sound, Passes, NEW k \in Syncers, FinishSync(k)
    PROVE  Passes' /\ (k \notin touched' => InStep')
<1>1. /\ sync[k].pc = "remove" /\ sync[k].keys = {} /\ EndSync(k) /\ TypeOK
      /\ UNCHANGED <<site, row, redis, created, edits, faults, late, touched>>
    BY DEF FinishSync, Sound
<1>2. Passes'
    <2>1. ~Undisturbed(k)' /\ \A j \in Syncers : j # k => sync'[j] = sync[j]
        BY <1>1, EndSyncPasses DEF EndSync
    <2> QED
        BY <1>1, <2>1, PassesKept
<1>3. ASSUME k \notin touched' PROVE InStep
    <2>1. /\ sync[k].sites = site /\ sync[k].rows = row /\ RowsFollow
          /\ \A i \in RowIds : IF i \in Kept(k) THEN Registered(k, i) ELSE redis[i] = Off
        BY <1>1, <1>3 DEF Undisturbed, Passes, Phase
    <2>2. \A i \in RowIds : redis[i] = AskedFor(i)
        BY <2>1, KeptIsAskedFor DEF Registered
    <2> QED
        BY <2>1, <2>2, RedisAsAsked DEF InStep
<1> QED
    BY <1>1, <1>2, <1>3, InStepKept

(* What a request writes, it writes past every pass.                          *)
LEMMA RequestPasses ==
    ASSUME Sound, Passes, NEW c \in Clients, Edit(c) \/ ClientStep(c) \/ ClientCrash(c)
    PROVE  Passes' /\ (sync[c].pc # "idle" => sync'[c] = sync[c] \/ c \in touched')
                   /\ \A k \in Syncers : k # c => sync'[k] = sync[k]
<1>0. TypeOK /\ Waiting /\ c \in Syncers
    BY DEF Sound, Syncers
<1>1. CASE ClientCrash(c)
    <2>1. /\ sync' = [sync EXCEPT ![c] = IdleSync] /\ touched' = touched \cup {c}
          /\ UNCHANGED <<site, row, redis>>
        BY <1>1 DEF ClientCrash
    <2>2. ~Undisturbed(c)' /\ \A k \in Syncers : k # c => sync'[k] = sync[k]
        BY <1>0, <2>1, EndSyncPasses
    <2> QED
        BY <1>0, <2>1, <2>2, PassesKept
<1>2. CASE Edit(c) \/ ClientStep(c)
    <2>1. /\ sync' = sync
          /\ \/ UNCHANGED <<site, row, redis, touched>>
             \/ Touch(c)
             \/ touched' = touched \cup Syncers
        BY <1>2 DEF Edit, SaveSettings, SaveStatus, ReadToToggle, ReadToRetime, ListToDelete,
                    ClientStep, EnsureRead, EnsureUpsert, WriteRow, Mirror, CheckSite,
                    ProjectRow, DeleteRow, DropSite, Project
    <2>2. client[c].pc # "syncing"
        BY <1>2 DEF Edit, SaveSettings, SaveStatus, ReadToToggle, ReadToRetime, ListToDelete, Begin,
                    ClientStep, EnsureRead, EnsureUpsert, WriteRow, Mirror, CheckSite,
                    ProjectRow, DeleteRow, DropSite
    <2>3. ~Undisturbed(c)'
        BY <1>0, <2>1, <2>2 DEF Undisturbed, Waiting
    <2> QED
        BY <1>0, <2>1, <2>3, PassesKept
<1> QED
    BY <1>1, <1>2

(* It is written past every pass, and nobody ends with it.                    *)
LEMMA LandLatePasses ==
    ASSUME Passes, NEW m \in late, LandLate(m)
    PROVE  Passes' /\ UNCHANGED sync
<1>1. UNCHANGED <<site, row, sync>> /\ touched' = touched \cup {j \in Syncers : sync[j].pc # "idle"}
    BY DEF LandLate
<1>2. ASSUME NEW k \in Syncers PROVE Undisturbed(k)' => Phase(k)'
    BY <1>1 DEF Undisturbed
<1> QED
    BY <1>1, <1>2 DEF Passes

LEMMA InitPasses == Init => Passes
BY IdleRecords DEF Init, Passes, Undisturbed

Repaired(k) == sync[k].pc # "idle" /\ sync'[k].pc = "idle" /\ k \notin touched' => InStep'

LEMMA NextPasses ==
    ASSUME Sound, Passes, [Next]_vars
    PROVE  Passes' /\ \A k \in Syncers : Repaired(k)
<1>0. TypeOK
    BY DEF Sound
<1>1. ASSUME NEW a \in Syncers, StartSync(a) \/ SyncStep(a)
      PROVE  Passes' /\ \A k \in Syncers : Repaired(k)
    <2>1. \A k \in Syncers : k # a => sync'[k] = sync[k]
        BY <1>0, <1>1 DEF TypeOK, StartSync, SyncStep, ReadRows, Reconcile, EndSync, BeginProjection,
                          Register, RemoveOrphan, ListInstalled, FinishSync
    <2>2. CASE StartSync(a)
        BY <2>1, <2>2, ReadPasses DEF StartSync, Repaired
    <2>3. CASE ReadRows(a)
        <3>1. sync'[a].pc = "reconcile"
            BY <1>0, <2>3 DEF ReadRows, TypeOK, SyncRecords
        <3> QED
            BY <2>1, <2>3, <3>1, ReadPasses DEF Repaired
    <2>4. ASSUME NEW s \in Sites, Reconcile(a, s) PROVE Passes' /\ \A k \in Syncers : Repaired(k)
        BY <2>1, <2>4, ReconcilePasses DEF Repaired
    <2>5. CASE BeginProjection(a) \/ ListInstalled(a)
        BY <2>1, <2>5, AskPasses DEF Repaired
    <2>6. ASSUME NEW i \in RowIds, Register(a, i) \/ RemoveOrphan(a, i)
          PROVE  Passes' /\ \A k \in Syncers : Repaired(k)
        BY <2>1, <2>6, ProjectPasses DEF Repaired
    <2>7. CASE FinishSync(a)
        BY <2>1, <2>7, FinishPasses DEF Repaired
    <2> QED
        BY <1>1, <2>2, <2>3, <2>4, <2>5, <2>6, <2>7 DEF SyncStep
<1>2. ASSUME NEW c \in Clients, Edit(c) \/ ClientStep(c) \/ ClientCrash(c)
      PROVE  Passes' /\ \A k \in Syncers : Repaired(k)
    BY <1>2, RequestPasses DEF Repaired
<1>3. CASE UNCHANGED vars
    <2>1. UNCHANGED <<site, row, redis, sync, touched>>
        BY <1>3 DEF vars
    <2>2. ASSUME NEW k \in Syncers PROVE Undisturbed(k)' => Phase(k)'
        BY <2>1, PhaseKept
    <2> QED
        BY <2>1, <2>2 DEF Passes, Repaired
<1>4. CASE \E k \in Syncers : StartSync(k) \/ SyncStep(k)
    BY <1>1, <1>4
<1>5. CASE \E c \in Clients : Edit(c) \/ ClientStep(c) \/ ClientCrash(c)
    BY <1>2, <1>5
<1> QED
    BY <1>3, <1>4, <1>5, LandLatePasses DEF Next, Repaired

-----------------------------------------------------------------------------
(* Copies that agree *)

(* Whatever is still to land asks for what there is.                          *)
Harmless == \A m \in late : redis[m.id] = m.cron

Copied(k) ==
    /\ sync[k].sites = site
    /\ sync[k].pc # "rows" => sync[k].rows = row
    /\ sync[k].pc = "remove" => sync[k].keys \cap Kept(k) = {}

LEMMA AgreedParts ==
    Agreed <=> /\ InStep
               /\ \A c \in Clients : client[c].pc \in {"idle", "sync", "syncing"}
               /\ \A k \in Syncers : sync[k].pc # "idle" => Copied(k)
               /\ Harmless
BY DEF Agreed, Copied, Harmless

(* A pass that moves on within what it has read.                              *)
LEMMA CopiesAgree ==
    ASSUME Agreed, NEW k \in Syncers, UNCHANGED <<site, row, redis>>,
           \A j \in Syncers : j # k => sync'[j] = sync[j],
           \A c \in Clients : client'[c].pc \in {"idle", "sync", "syncing"},
           sync'[k].pc # "idle" => Copied(k)', UNCHANGED late \/ Harmless'
    PROVE  Agreed'
<1>1. ASSUME NEW j \in Syncers, sync'[j].pc # "idle" PROVE Copied(j)'
    <2>1. CASE j # k
        <3>1. Copied(j) /\ sync'[j] = sync[j]
            BY <1>1, <2>1, AgreedParts
        <3>2. Kept(j)' = Kept(j)
            BY <3>1, CopiesKept
        <3> QED
            BY <3>1, <3>2 DEF Copied
    <2> QED
        BY <1>1, <2>1
<1>2. InStep'
    BY InStepKept DEF Agreed
<1>3. Harmless'
    BY DEF Agreed, Harmless
<1> QED
    BY <1>1, <1>2, <1>3 DEF Agreed, Copied, Harmless

LEMMA EndSyncAgrees ==
    ASSUME TypeOK, Agreed, NEW k \in Syncers, EndSync(k), UNCHANGED <<site, row, redis, late>>
    PROVE  Agreed'
<1>1. sync'[k].pc = "idle" /\ \A j \in Syncers : j # k => sync'[j] = sync[j]
    BY EndSyncPasses DEF EndSync
<1>2. \A c \in Clients : client'[c].pc \in {"idle", "sync", "syncing"}
    BY IdleRecords DEF EndSync, TypeOK, Agreed
<1> QED
    BY <1>1, <1>2, CopiesAgree

(* A row that follows its settings is not stale, and is not missing.          *)
LEMMA NothingStale ==
    ASSUME TypeOK, Agreed, NEW k \in Syncers, sync[k].pc = "reconcile", NEW s \in Sites
    PROVE  /\ ~Stale(sync[k].rows[s], sync[k].sites[s].cron)
           /\ sync[k].rows[s] = NoRow => sync[k].sites[s].cron = Off
<1>1. sync[k].sites = site /\ sync[k].rows = row
    BY DEF Agreed
<1>2. IF site[s].cron = Off THEN ~row[s].enabled ELSE row[s].enabled /\ row[s].cron = site[s].cron
    BY DEF Agreed, InStep, RowsFollow
<1> QED
    BY <1>1, <1>2, NoRowTyped DEF Stale

LEMMA PassAgrees ==
    ASSUME Sound, Agreed, NEW k \in Syncers, StartSync(k) \/ SyncStep(k)
    PROVE  Agreed'
<1>0. /\ TypeOK /\ sync \in [Syncers -> SyncRecords] /\ sync[k] \in SyncRecords
      /\ redis \in [RowIds -> Crons \cup {Off}] /\ client \in [Clients -> ClientRecords]
      /\ \A c \in Clients : client[c].pc \in {"idle", "sync", "syncing"}
    BY DEF Sound, TypeOK, Agreed
<1>1. sync[k].pc # "idle" => Copied(k)
    BY AgreedParts
<1>2. CASE StartSync(k)
    <2>1. /\ UNCHANGED <<site, row, redis, late>> /\ sync'[k].pc = "rows" /\ sync'[k].sites = site
          /\ \A j \in Syncers : j # k => sync'[j] = sync[j]
        BY <1>0, <1>2 DEF StartSync, SyncRecords
    <2>2. \A c \in Clients : client'[c].pc \in {"idle", "sync", "syncing"}
        BY <1>0, <1>2 DEF StartSync, ClientRecords
    <2> QED
        BY <2>1, <2>2, CopiesAgree DEF Copied
<1>3. CASE ReadRows(k)
    <2>1. /\ UNCHANGED <<site, row, redis, client, late>> /\ sync'[k].pc = "reconcile"
          /\ sync'[k].sites = sync[k].sites /\ sync'[k].rows = row /\ sync[k].pc = "rows"
          /\ \A j \in Syncers : j # k => sync'[j] = sync[j]
        BY <1>0, <1>3 DEF ReadRows, SyncRecords
    <2> QED
        BY <1>0, <1>1, <2>1, CopiesAgree DEF Copied
<1>4. ASSUME NEW s \in Sites, Reconcile(k, s) PROVE Agreed'
    <2>1. /\ sync[k].pc = "reconcile" /\ sync' = [sync EXCEPT ![k].todo = @ \ {s}]
          /\ UNCHANGED <<site, row, redis, client, late>>
        <3>1. sync[k].pc = "reconcile"
            BY <1>4 DEF Reconcile
        <3> QED
            BY <1>0, <1>4, <3>1, NothingStale DEF Reconcile
    <2>2. /\ sync'[k].pc = "reconcile" /\ sync'[k].sites = sync[k].sites
          /\ sync'[k].rows = sync[k].rows /\ \A j \in Syncers : j # k => sync'[j] = sync[j]
        BY <1>0, <2>1 DEF SyncRecords
    <2> QED
        BY <1>0, <1>1, <2>1, <2>2, CopiesAgree DEF Copied
<1>5. ASSUME NEW pc \in {"register", "remove"}, NEW keys, UNCHANGED <<site, row, redis, client, late>>,
             sync[k].pc \in {"reconcile", "register"},
             sync' = [sync EXCEPT ![k].pc = pc, ![k].keys = keys],
             pc = "remove" => keys \cap Kept(k) = {}
      PROVE  Agreed'
    <2>1. /\ sync'[k].pc = pc /\ sync'[k].keys = keys /\ sync'[k].sites = sync[k].sites
          /\ sync'[k].rows = sync[k].rows /\ \A j \in Syncers : j # k => sync'[j] = sync[j]
        BY <1>0, <1>5 DEF SyncRecords
    <2>2. Kept(k)' = Kept(k)
        BY <2>1, CopiesKept
    <2> QED
        BY <1>0, <1>1, <1>5, <2>1, <2>2, CopiesAgree DEF Copied
<1>6. CASE BeginProjection(k) \/ ListInstalled(k)
    <2>1. Orphans(k) \cap Kept(k) = {}
        BY DEF Orphans
    <2>2. CASE EndSync(k) /\ UNCHANGED <<site, row, redis, late>>
        BY <1>0, <2>2, EndSyncAgrees
    <2> QED
        BY <1>5, <1>6, <2>1, <2>2 DEF BeginProjection, ListInstalled
<1>7. ASSUME NEW i \in RowIds, Register(k, i) \/ RemoveOrphan(k, i) PROVE Agreed'
    <2> DEFINE cron == IF sync[k].pc = "register" THEN CronOf(k, i) ELSE Off
    <2>1. /\ sync[k].pc \in {"register", "remove"} /\ i \in sync[k].keys
          /\ Project(i, cron, k) /\ sync' = [sync EXCEPT ![k].keys = @ \ {i}]
          /\ UNCHANGED <<site, row, client>>
        BY <1>7 DEF Register, RemoveOrphan
    <2>2. sync[k].sites = site /\ sync[k].rows = row
        BY <1>1, <2>1 DEF Copied
    <2>3. redis[i] = IF i \in Kept(k) THEN CronOf(k, i) ELSE Off
        <3>1. redis[i] = AskedFor(i)
            BY RedisAsAsked DEF Agreed, InStep
        <3> QED
            BY <2>2, <3>1, KeptIsAskedFor
    <2>4. redis[i] = cron
        BY <1>1, <2>1, <2>3 DEF Copied, Sound, Wanted
    <2> HIDE DEF cron
    <2>5. redis' = redis
        BY <1>0, <2>1, <2>4 DEF Project
    <2>5a. Harmless'
        BY <1>0, <2>1, <2>4, <2>5 DEF Project, Agreed, Harmless
    <2>6. /\ sync'[k].pc = sync[k].pc /\ sync'[k].sites = sync[k].sites
          /\ sync'[k].rows = sync[k].rows /\ sync'[k].keys = sync[k].keys \ {i}
          /\ \A j \in Syncers : j # k => sync'[j] = sync[j]
        BY <1>0, <2>1 DEF SyncRecords
    <2>7. Kept(k)' = Kept(k)
        BY <2>6, CopiesKept
    <2>8. sync'[k].pc # "idle" => Copied(k)'
        BY <1>1, <2>1, <2>6, <2>7 DEF Copied
    <2> QED
        BY <1>0, <2>1, <2>5, <2>5a, <2>6, <2>8, CopiesAgree
<1>8. CASE FinishSync(k)
    BY <1>0, <1>8, EndSyncAgrees DEF FinishSync
<1> QED
    BY <1>2, <1>3, <1>4, <1>6, <1>7, <1>8 DEF SyncStep

(* Requests other than those that wait for a pass are begun with an edit.     *)
LEMMA NextAgrees ==
    ASSUME Sound, Agreed, [Next]_vars, edits' = edits
    PROVE  Agreed'
<1>0. TypeOK /\ edits \in Nat /\ Clients \subseteq Syncers
      /\ \A c \in Clients : client[c].pc \in {"idle", "sync", "syncing"}
    BY ScheduleAssumption DEF Sound, TypeOK, Syncers, Agreed
<1>1. ASSUME NEW c \in Clients PROVE ~Edit(c) /\ ~ClientStep(c)
    <2>1. ~Edit(c)
        <3>1. \A s, p : ~Begin(c, s, p)
            BY <1>0 DEF Begin
        <3> QED
            BY <3>1 DEF Edit, SaveSettings, SaveStatus, ReadToToggle, ReadToRetime, ListToDelete
    <2>2. ~ClientStep(c)
        BY <1>0 DEF ClientStep, EnsureRead, EnsureUpsert, WriteRow, Mirror, CheckSite,
                    ProjectRow, DeleteRow, DropSite
    <2> QED
        BY <2>1, <2>2
<1>2. ASSUME NEW c \in Clients, ClientCrash(c) PROVE Agreed'
    <2>1. /\ sync' = [sync EXCEPT ![c] = IdleSync] /\ client' = [client EXCEPT ![c] = IdleClient]
          /\ UNCHANGED <<site, row, redis, late>> /\ c \in Syncers
        BY <1>0, <1>2 DEF ClientCrash
    <2>2. EndSync(c)
        BY <1>2, <2>1 DEF EndSync
    <2> QED
        BY <1>0, <2>1, <2>2, EndSyncAgrees
<1>3. CASE UNCHANGED vars
    BY <1>3 DEF vars, Agreed, InStep, RowsFollow, RedisExact, Kept
<1>4. ASSUME NEW m \in late, LandLate(m) PROVE Agreed'
    <2>1. /\ redis' = [redis EXCEPT ![m.id] = m.cron] /\ late' \subseteq late
          /\ UNCHANGED <<site, row, sync, client>>
        BY <1>4 DEF LandLate
    <2>2. redis' = redis
        BY <1>0, <2>1 DEF TypeOK, Agreed
    <2> QED
        BY <2>1, <2>2 DEF Agreed, InStep, RowsFollow, RedisExact, Kept
<1> QED
    BY <1>1, <1>2, <1>3, <1>4, PassAgrees DEF Next

-----------------------------------------------------------------------------
(* Theorems. *)

LEMMA Inductive == Spec => []IInv
<1>1. Init => IInv
    BY InitSound, InitPasses DEF IInv
<1>2. IInv /\ [Next]_vars => IInv'
    BY NextSound, NextPasses DEF IInv
<1> QED
    BY <1>1, <1>2, PTL DEF Spec

(* The state of the schedules is always of its type, whatever the passes and  *)
(* the requests do to each other.                                             *)
THEOREM TypeCorrect == Spec => []TypeOK
<1>1. IInv => TypeOK
    BY DEF IInv, Sound
<1> QED
    BY <1>1, Inductive, PTL

(* A pass of syncSchedules during which nobody else writes and nothing fails  *)
(* leaves settings, rows and Redis equal, from whatever state it started in.  *)
THEOREM PassesRepair == Spec => PassRepairs
<1>1. IInv /\ [Next]_vars =>
        [\A k \in Syncers :
            sync[k].pc # "idle" /\ sync'[k].pc = "idle" /\ k \notin touched' => InStep']_vars
    BY NextPasses DEF IInv, Repaired
<1> QED
    BY <1>1, Inductive, PTL DEF Spec, PassRepairs

(* Settings, rows and Redis that agree stay so until the next edit: passes    *)
(* that read them so write nothing else, however they overlap, whatever the   *)
(* broker refuses or answers late, and whichever request dies.                *)
THEOREM AgreementHolds == Spec => AgreedStays
<1>1. IInv /\ [Next]_vars => [Agreed /\ edits' = edits => Agreed']_vars
    BY NextAgrees DEF IInv
<1> QED
    BY <1>1, Inductive, PTL DEF Spec, AgreedStays
=============================================================================
