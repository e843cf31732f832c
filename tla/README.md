# Bqckup in TLA+

A specification of the parts of Bqckup that decide whether a backup can still
be restored: the locks of the incremental repository, what backup, retention,
repair and restore do to its contents, the first initialization of a
repository, the walk that takes a snapshot and the restore that moves it into
place, a site's backup run with its completion markers and retention, the
storage adapters below it, `backup check` of either mode, the site locks with
the commands that look at them, the export and repair of databases, the
configuration a command opens with, and what people are told: notifications and
reports. Every module is translated from the Go sources under `src/`; TLC checks
small instances, TLAPS proves every safety property for every instance.

    tlc -workers 2 -config RepoLockTimed.cfg MCRepoLock.tla
    tlapm RepoLockProofs.tla

## The system

Bqckup backs up sites. A site has a mode (`full`: one archive per run;
`incremental`: snapshots in an encrypted, deduplicating repository), databases
to dump, and one or more destinations (a local directory or a bucket). A host
runs one process per command; several hosts may share a bucket and therefore a
repository.

| Component | State it keeps | Operations | Talks to | What is hard |
|---|---|---|---|---|
| repository lock (`engine/incremental/lock`, `facade`) | files in `locks/`; handle and handles of each command | New, Refresh, Unlock, RemoveStale | the backend | no atomic test-and-set: check, create, wait, check; clocks differ; holders die; Save may fail and yet store |
| repository contents (`repository`, `index`) | packs, index files, snapshots; an index in memory | SaveBlob/Flush, SaveSnapshot, ForgetAndPrune, RepairIndex, Load… | lock, backend | every command may stop between two writes; the index is loaded before the lock is taken |
| initialization (`repository/init.go`, `facade`) | config, key files | EnsureRepository, Init, rollback, Open, Unlock | lock, backend | two hosts draw two master keys; a rollback is not atomic |
| archiver (`engine/incremental/archiver`) | the walk; the tree of the newest snapshot | Backup | repository, file system | contents reused on metadata alone; sources that change, disappear or cannot be read |
| restorer (`engine/incremental/restorer`) | staging directory, target | Restore | repository, file system | a long reader; conflicts confirmed once, entries moved one by one into a directory in use |
| backup runner (`backup/runner.go`) | a run in progress | run | site lock, history, stores, engine, notifier | partial failure over packages × destinations; failure of history itself |
| flat stores and retention (`storage`, `retention`) | objects of each run at each destination | Put, Replace, Delete, ListBackupSets, Apply | the bucket or disk | markers, sets deleted object by object, local time in keys |
| history | backup_runs, packages, deliveries | CreateRun, FinishRun, LastSuccessful, ListRunning… | SQLite | rows left `running` |
| site lock (`platform/lock`) | a flock and an owner file per site | TryLock, unlock, Inspect, SignalTerm, WaitReleased | the kernel | file and flock are not one thing |
| backup control (`app/control.go`) | what it has read | Active, Stop | history, site lock | everything it has read may have changed |
| batch runner (`app/app.go`) | two lanes | runEnabledBackups | runner | lanes in one process |
| repository check (`repository/check.go`) | findings | CheckOpen, CheckRepository | repository, lock | one piece of damage, or one read that fails, must not hide another; commits between its open and its lock |
| database export (`backup/database`) | one dump file, attempts, the one repair | Export, Check, RepairCorruptTables, Repair | dump and client programs | retries and repair in one loop over one file; tables that break meanwhile |
| notification dispatch (`notify`) | a delivery state per site, scope and channel | Notify | history, channels | load, send, save: any of them fails, per channel |
| report dispatch (`report`) | delivered periods | Build…Report, SendDaily, SendMonthly | history, channels | local days and months; runs dated before and written after a report; check, send to all, record |
| configuration (`config`, `remoteconfig`, `app.Open`) | the configuration in memory, file modes, an open database | Load, Resolve, Validate, Open, Close | files, providers | rules over several files; answers from outside; a partly opened application |
| chunker, crypto, formats, command line, update, doctor, logging | none that is shared | | | pure code or I/O |

A run of a site goes: site lock (`TryLock`) → history row → for each package and
destination an upload, or for an incremental site `EnsureRepository` and
`BackupFiles` under the repository lock → completion markers → retention
(`ApplyRetention` under the repository lock, then `retention.Apply`) →
history → notification → unlock. `backup active/stop` read history and the site
locks from other processes; `backup unlock`, `repair-index` and restore use the
repository from other processes or hosts.

## Modules

| Module | Models | Composes |
|---|---|---|
| `RWLock` | what a repository lock promises: one writer or several readers; a reader's lock may lapse | |
| `RepoLock` | the lock files that keep the promise | `RWLock` (refinement) |
| `RecoveryPoints` | what a repository promises: points are added and leave only past keep_last | |
| `RepoStore` | packs, index files, snapshots under all commands | `RWLock` (extends), `RecoveryPoints` (refinement) |
| `RepoInit` | the first backup of several hosts, unlock | |
| `ArchiveWalk` | snapshots of a directory in use: parent, reuse, skipped entries | |
| `RestoreMove` | staging, conflicts, moving into place | `ArchiveWalk` (extends: its snapshots) |
| `ArchiveRestore` | backups of a directory, then a restore of the newest | both, step by step |
| `BackupRun` | one site's runs, objects, markers, retention, history | |
| `FlatStore` | one destination below a run: local and s3 put, Delete, retention, `backup check` | `RecoveryPoints` (refinement) |
| `BackupControl` | site locks, two-lane processes, active/stop | |
| `RepoCheck` | `backup check` of a repository with damaged files | `RepoStore` (extends: its commands go on beside it) |
| `DatabaseExport` | dump, retries, table check and repair | |
| `Alerts` | notification routes, incidents, recoveries | |
| `Reports` | daily and monthly reports | |
| `Configuration` | validation, loading, provider answers, opening, what is built | |
| `SiteWatch` | one site over days: configuration, runs, export, notices, reports | the four above (extends) |
| `MC…` | values for constants | the module of the same name |
| `RepoLockProofs` | theorems | `RepoLock` (extends) |
| `RepoStoreProofs` | theorems | `RepoCheck` and with it `RepoStore` |
| `RepoInitProofs` | theorems | `MCRepoInit`, whose specification has the host alone |
| `BackupRunProofs`, `BackupControlProofs`, `FlatStoreProofs` | theorems | the module of the same name |
| `ArchiveRestoreProofs` | theorems | `ArchiveRestore` and with it `ArchiveWalk`, `RestoreMove` |
| `SiteWatchProofs` | theorems | `SiteWatch` and with it `DatabaseExport`, `Alerts`, `Reports`, `Configuration` |

### RepoLock

One process is one command: it asks for a lock, works, lets go, and starts anew
as another command. `files` is `locks/`; a name is a content hash, so a new file
gets a name nobody has seen (`Fresh`). `pc` follows `lock.New`: `list1`/`scan1`
(first `checkOthers`), `create`, `list2`/`scan2` (the check after the wait),
`backout`, then `held`; `swap` is a `Refresh` between its two backend calls.
Files listed are looked at one by one (`todo`) and may be gone by then. The
facade's goroutine refreshes exclusive locks and ignores errors; a failed Save
may have stored the file (`AfterFailedSave`). Time is in ticks: an age per file,
as seen by a perfect clock, and a skew per command. `OnTime` is the only timing
assumption: a command that is not `Suspendable` moves or refreshes within
`RefreshEvery`, and a reader ends within `ReadLimit`. `RemoveStale` is `backup
unlock`. The 200 ms wait is an interleaving like any other.

### RepoStore

A process is what runs one command after the other: a host's runner (which the
site lock keeps from doing two at once) or an operator's shell. Each action is
one backend write or one read that later steps depend on. A pack is a set of
blobs; tree blobs are those retention must be able to read in order to mark.
`Walk` chooses any set of blobs for the new snapshot and takes a part of them
from a parent without looking them up, as the archiver does. `Open` loads the
index, `Lock` takes the lock later. `Stop` ends a command anywhere: an error, a
cancellation or a death. `Expire` is a restore whose lock goes stale.

### RepoInit

`config` and `keys` are the master keys sealed or stored; `lock` is the one lock
file (the protocol is `RepoLock`'s subject), of kind `init` (sealed with the
password's key) or `repo` (sealed with the master key). A host looks for the
config (`OuterStat`), takes the init lock, looks again (`InnerStat`), stores
config and key file, rolls back when the key file fails, releases, opens, locks
and backs up. An operator's unlock must open first. `Faults` says which backend
calls may fail; a failed one may have taken effect.

### BackupRun

A process has the site's flock or waits for nothing: a run that finds it held is
skipped. Runs are named by their start; `Stamp` is the time their keys are
parsed back to. `objects` at a destination are packages, markers and (in
incremental mode) snapshots, each whole or made from unreadable sources.
`Upload` goes through packages × destinations in the code's order; `AfterUploads`
decides as lines 486-500 of `runner.go` do. `Forgotten` counts like
`ForgetAndPrune`, `Expired` like `retention.Apply`. `told` records
notifications.

### FlatStore

One destination of a full-mode site; `BackupRun` has the packages ×
destinations around it and the flock that lets one run at a time get here.
`kind` is the adapter. A run goes through its objects (`ObjectSeq`: the
packages, then the marker). The s3 adapter uploads with If-None-Match (`Send`),
the SDK retries (`SendIsLost`: lost before or after it took effect;
`SendCollides` is what a retry meets then), HeadObject compares size and metadata
(`Verified`), and what does not compare is deleted again if that works. The
local adapter stages a copy, renames it without replacing and syncs the
directory. `Record` is `CreatePackage`. Retention lists the sets that have a
marker, deletes the oldest beyond keep_last object by object
(`NextDeleted`: a local directory's marker sorts first, a bucket's batch has no
order), and any error makes a warning and ends it. `backup check` takes no lock:
it chooses the latest successful run, then verifies what is on record for it one
package at a time. `Damage` is what nobody at Bqckup did. An object's content is
one of four values, which is what size, checksum and existence tell apart.

### ArchiveWalk, RestoreMove, ArchiveRestore

The source is one directory of regular files; metadata is a stamp, the clock of
the entry's last change, which stands for everything `sameMetadata` compares.
A walk lists the directory (`BeginWalk`), and for each listed entry does Lstat
(`VisitUnmodified`, `VisitModified`, `VisitSkips`) and, in a later step, reads it
(`Read`), while `Change` writes, renames and deletes. A file that has changed
since its Lstat may be read `Torn`. `Unmodified` is the shortcut by which a
directory keeps its parent's subtree. `latest` is the newest snapshot with, for
the properties only, what was skipped and when its walk began.

A restore stages the snapshot (`Stage`), opens the target and lists the
conflicts (`Collect`), asks once (`Confirm`, `Decline`), then renames the whole
tree where there was no target, or removes and renames entry by entry (`Remove`,
`Rename`). `Touch` is the target's owner, who does not wait. `ArchiveRestore`
lets any number of backups come before the restore; the repository lock keeps
the two apart, as `RWLock` promises.

### BackupControl

A backup process has a PID with start ticks of its own (one model value), runs
its sites in two lanes, and for each site takes the flock, writes its identity,
creates a row, ends it, clears the identity and gives the flock up, in separate
steps. `RowsFail` and `MetaFails` are the sites whose history rows or lock
files cannot always be written, `Crashable` the processes that may be killed. A
control process reads rows, probes each lock (`Probe`; a free flock is
taken until `Unprobe`, a held one leads to `ReadOwner`), decides, probes again,
signals, and waits. A lock file that a process has not created yet is a free
one here.

### RepoCheck

`Harm` is what nobody at Bqckup did: a key, the config, an index file, a
snapshot, a pack's header or one blob of a pack changes (`Corrupt`), or a file
disappears (`Lose`); `bad` names what does not decrypt, parse or hash any more.
The check tries every key file, lists the index files (`CheckOpen`), loads them
one by one (`LoadIndex`), takes its lock, and then walks the snapshots, compares
packs with the index and, with `--read-data`, reads every blob
(`CheckRepository`: one step, because nobody writes while its lock is held).
`Walked` is what one snapshot's trees tell: below a directory listing that cannot
be loaded nothing is seen. A blob two packs hold is read where the last index
file puts it (`Places`). The commands of `RepoStore` go on beside the check, and
stop at what they cannot read.

Any read of the check may fail although its file is intact (`SomeFail`, kept in
the auxiliary `misread`): the code reads a file once, and calls a key, the config,
an index file, a snapshot, a tree, a pack's header or a blob it could not read
broken or corrupt, like one that is damaged (`check.go:122`, `:155`, `:205`,
`:323`, `:375`, `:452`, `:585`). So a repository nobody damaged does get alarms
where reads fail. `AlarmsAreReal` says which: each is a file the check could not
read, or what only index files list that it could not read. `DamageIsNamed` says
that a failed read hides nothing but what lies behind it, as damage does. What
ends a check without a verdict is a directory that cannot be listed, a pack whose
size cannot be asked for, the lock, or a cancellation (`CheckEnd`).

### DatabaseExport

One call of `ProcessExporter.Export`: the file is created with O_EXCL, the dump
runs, the file is closed; a transient failure waits and tries again twice; after
a corruption error, once, every table is checked, and when all unhealthy ones
are MyISAM or Aria they are repaired one by one and the dump is tried again.
`health` is what the server would say of a table: `marked` tables fail CHECK TABLE
but can be dumped. Tables break and an operator repairs them at any time.

### Alerts

`Notify` for one site, whose flock the caller has, so notices follow one another.
`print` and `sent` are the `NotificationState` per scope and channel; `untold`
are the channels the loop has not come to (in any order, which the code's route
order is one of); between `Send` and `Save` the channel knows more than the state.
`apart` and `missed` are auxiliary: where state and inbox may differ because a
save did not happen, and which channels the last notice did not reach because a
send failed, the process died, or the state could not be loaded.

### Reports

`rows` is history with a run's start, scope and status; `Day` and `Month` are the
local calendar of the reports' timezone, `Offset` ticks ahead of UTC; a month has
`MonthLength` days and a day always 24 hours. A command builds its report
(`ReportBuild`), looks whether the period is recorded (`ReportCheck`), sends to
every channel of the route, and records when all accepted (`ReportRecord`). The
date of `--date` is midnight UTC, as the command line parses it.

### Configuration

A configuration is a record of storages, sites, channels, routes and reports,
with values only as different as a rule or a use tells them apart; `Valid` is
`Config.Validate`, rule by rule. `Load` reads file after file, tightens the modes
of those that hold credentials and stops at the first that is unusable, then
fills in defaults and validates. `Resolve` takes a provider's answer, `Revalidate`
validates again, and what `Open` builds from the result is `Stores`, `Exporters`,
`Maintainers` and `Deliverers`.

### SiteWatch

The four modules with the run between them: a process opens the configuration,
skips or starts a run (`TooSoon` is the minimum interval), stores files with one
of their outcomes, exports the database step by step, writes the outcome to
history and dispatches the notice step by step; the process may die at any of
these steps. A run reads the clock and then history (`RunStarts`), and its row,
which it writes later, has the time it read (`RunBegins`, or `RunCannotBegin` where
the row cannot be written): time passes and reports are built in between. Report
commands have processes of their own; a report remembers the date of a run that
had none in history when it was built (`Unwritten`, auxiliary).

## Runs

Passing runs. All sets below are small on purpose; what matters is named with
each run.

| Run | Shows | Bounds |
|---|---|---|
| `RepoLockHostile` | `Implements` RWLock when commands stall, die, lose any backend call, and one clock is a tick ahead of the staleness window | 2 commands, 3 names, nobody runs unlock |
| `RepoLockTimed` | with the timing assumption, while `backup unlock` runs with the master key at any moment: `WritersAreAlone`, `LiveLockKept`, `NothingLeftBehind`, `RequestsAreDecided` | 2 commands, one of which may die, 3 names, clocks agree; listings and the removal of replaced files fail; one refresh per command (`HandleCap`), one dead command's files at a time (`OrphanCap`) |
| `RepoStoreOneHost` | a host that backs up and retains two tags, a shell that repairs and restores: `SnapshotsRestorable`, `RestoresComplete`, `PruneLeavesNoGarbage` and the refinement `KeepsRecoveryPoints` | keep_last 1, 2 snapshots ever, a tree and a data blob, 2 pack names, 3 index names; a restore may outlive its lock |
| `RepoInitCommands` | `NoLostData` where hosts race; `LoneInitLeavesNothing`, `LoneDeadLocksClear` for a host alone | the race: 3 hosts, an operator, a crash, any fault other than in the key file; alone: 1 host whose key file and lock removals may fail, an operator, a crash, 3 master keys (a behaviour is one or the other, `race`) |
| `ArchiveRestoreInUse` | snapshots and a restore of directories whose owners work on: `SnapshotIsCurrent`, `OnlyConfirmedReplaced`, `OneEntryMissing`, `RestoreGivesSource` | 2 entries, 2 contents, 3 changes of the source, 2 entries written in the target; contents are interchangeable (symmetry) |
| `BackupRunFull` | `SuccessfulSetsKept`, `PruneAfterCommit`, `RunsAreSpaced`, `ToldAsRecorded` | 2 destinations, 2 processes, 3 starts, interval 2, keep_last 1, a crash, every fault |
| `BackupRunIncremental` | `RunsConclude` | 1 destination, a database, 3 starts, keep_last 2; uploads and retention fail, runs are cancelled |
| `FlatStoreRuns` | `MarkersNeverLie`, `HistoryMatchesStorage`, `FewSetsRemain`, `CheckTellsTruth` and the refinement `KeepsRecoveryPoints` | either adapter, one package, keep_last 1, 3 runs, 2 attempts of an upload, one object damaged, every fault, no prefix |
| `BackupControlBatch` | `SiteRunsOnce`, `OwnerHoldsLock`, `StoppedMeansReleased`, `StoppedProcessEnds` | a batch with both lanes, a single-site process that may be killed, 1 control process, 2 sites; of one of them neither the lock file nor history can always be written |
| `RepoCheckDamaged` | `HealthyMeansRestorable`, `DamageIsNamed`, `AlarmsAreReal` | as `RepoStoreOneHost` without repairs and restores; 2 key files; 2 files damaged, lost (never while a command or check runs) or, by one check, not read; where something is damaged, a check that a commit overtook is left there (`CONSTRAINT Judged`): no property speaks of its findings |
| `SiteWatch` | `OpenedIsUsable`, `PackagesAreWhole`, `RepairsAreJustified`, `ChannelsKnow`, `NobodyIsNagged`, `ReportsAreTrue`, `ReportsAreDelivered` | some 90 configurations, each with one thing odd; a right one is used further, with a mail channel routed for failures only and a webhook, 2 tables of which one can be repaired; a behaviour is about full runs (3 runs, 2 faults, clock to 2), about runs of either scope (3 runs, a fault, clock to 2) or about reports (2 full runs, 2 report commands of 2 processes, a fault, clock to 3), `focus` |

Why the bounds suffice: the lock's hazards are between two commands, whose
second checks must not overlook each other, and a refresh has two files at most
at a time unless removals fail (where the three names are used up, a request waits
in the model, which `RequestsAreDecided` allows for); a prune's are between a snapshot that goes, one
that stays and packs that nobody indexed, which two tags and two snapshots give;
retention needs one set more than keep_last, and a third start a set that is
deleted while another is incomplete; three hosts give an initializer, one that
waits for its lock and one that comes after the release; a lock file has to pass
from one owner to the next while somebody reads it, which two backups and one
site give. In `FlatStore` keep_last 1 and three runs give a set that retention
has left half deleted, a set that must stay and a set that is being stored; one
package and the marker give every order of two deletions; with two attempts an
upload meets its own lost predecessor. A walk needs one entry that it has seen
and one that it has not, and three changes: one before a first snapshot, one
during a walk and one between two walks. Two damaged files are one that is found
and one that it might hide. Three runs with two faults are an incident, the
failure to deliver or save it, and a recovery or a second incident; two days of
two ticks and months of days give runs on either side of midnight and of a
month's end. In `SiteWatch` steps that have nothing in common are put in one
order: tables break while an export is under way (before it, it would find
the same), time passes and configurations change between processes
(`Tick`, `ChangeMode`) and, where the behaviour is about reports, before a run's
row is written; reports are built there, before a run's end and between processes
(`BetweenSteps`), and routes are configured once. Runs with `CHECK_DEADLOCK FALSE` stop when their starts are used up;
in the others a command can always begin or go on.

One run expects a violation: the code does something else than its documents
say.

| Run | Property | What happens |
|---|---|---|
| `BackupRunPartial` | `SuccessfulSnapshotsKept` | partial snapshots count toward keep_last (`prune.go:38`, `README.md:287`) |

Other places worth knowing, found while modelling. No run is kept for them;
the first three can be shown with a configuration of the existing modules:

* `BackupFiles` loads the index before it takes its lock (`facade.go:99`, `:105`).
  With two hosts on one repository the other's retention may delete packs in
  between, and SaveBlob then skips blobs whose pack is gone
  (`repository.go:118`): `RepoStore` with two runners violates `DedupedIsStored`.
* With a key file that fails to be stored, the rollback removes the config while
  another host may have opened the repository and backed up (`init.go:57`):
  `RepoInit` with `Faults` = {"key"}, two hosts and no operator violates
  `NoLostData`. With it, initializations are not serial either: the rollback
  drops a config whose initializer has already been unlocked. The proofs assume
  that key files do not fail for this reason.
* `backup check` of an s3 destination with a prefix reports every package
  missing: put returns the key with its prefix (`s3compat/store.go:201`), the
  runner records it (`runner.go:874`), the check hands it to VerifyPackage
  (`check.go:99`), which prefixes it once more (`s3compat/store.go:88`), although
  `README.md:224` has the check verify the packages. `FlatStore` with `Prefixed`
  = TRUE and no faults violates `AlarmsAreReal`.
* A set whose deletion fails after its marker went is no set any more: retention
  never comes back to its packages. Nor does it to sets of failed runs.
* An upload whose response is lost is refused when it is retried
  (ErrObjectExists), and the run fails with its object stored.
* An entry that comes into a restore's target after the conflicts were confirmed
  is replaced unconfirmed (`OnlyConfirmedReplaced` says no more than that), and a
  merge that fails half way leaves the entries it has moved.
* The archiver reuses a parent's contents without asking the index; `RepoStore`
  shows that nothing is lost by it with one runner.
* A reader never refreshes its lock: after 30 minutes `backup unlock` or a
  writer removes it, although it is live (`facade.go:326`), and a restore that
  goes on loses packs to a prune (`facade.go:235`). `RestoresComplete` and
  `LiveLockKept` are about readers within the window.
* A host that dies with the initialization lock before it wrote a config leaves
  a lock nobody can remove: `Unlock` must open the repository first
  (`facade.go:340`). `DeadLocksClear` starts from a repository that opens.
* A config whose Save failed but took effect is not rolled back (`init.go:47`).
* Sets are ordered by the local time in their keys (`storage.go:35`): when
  clocks go back an hour, the set just completed may look older than the last
  one. `Stamp` is where a model would say so.
* `no_change` compares sizes (`runner.go:667`), not contents.
* An inspection takes a free flock for a moment, and a backup that starts then
  is skipped (`flock_linux.go:116`).
* `stop <site>` does not look again at the other sites of the process it is
  about to signal, so a batch that has just taken its second site is stopped
  (`control.go:187`).
* Rows are read before locks are inspected, so a run that has just ended is
  called stale (`control.go:52`).
* A slow initialization can lose its lock: it is never refreshed
  (`facade.go:53`), and after 30 minutes `backup unlock` removes it.
* A repository that lost its last key file, or has none yet, is "healthy": no key
  is broken, and the check returns without a lock or a finding
  (`check.go:75`). `RepoCheckDamaged` keeps one key file (`KeysMayGo` = FALSE).
* A lost index file is no finding either: its packs are called orphaned, which
  is right as far as the index tells, and the next retention deletes them although
  they may hold the only copy. What a snapshot needs of them is reported missing.
* `report send daily --date D` west of UTC reports the day before D and says it
  sent D (`cli/report.go:49` parses UTC, `report.go:103` converts); `--month`
  likewise. The run's timezone is ahead of UTC.
* A report asked for a day or month that is not over counts a part of it, is
  recorded as delivered, and is never sent again for the whole period
  (`ReportsAreTrue` allows it: `Over`).
* A run that has read the clock just before midnight and gets its row after it
  (`runner.go:256`, `:284`) is missed by a report on the day that ended which is
  built in between, and that report is recorded as delivered. `ReportsAreTrue`
  allows for such runs (`LateFor`) and for no others.
* `backup check` does not repeat a read that failed: a backend that fails for a
  moment makes intact files "broken" and the verdict "problems", and if it was the
  only key, the result ends there (`check.go:75`, `:122`).
* A day ends 24 hours after it starts (`report.go:105`): on the day clocks change,
  an hour is counted twice or not at all in daily reports.
* A report is sent again to channels that had it, when another channel failed,
  a command died before it recorded, or two commands overlap.
* ListRunsInRange does not load packages (`history/repository.go:164`), from which
  reports add up sizes and destinations (`report.go:197`).
* A route may have no channels; a report on it fails at every attempt
  (`report/dispatch.go:69`).
* An incident stays open for a channel whose route is taken away, and a recovery
  is not told when the state cannot be loaded (`notify/dispatch.go:91`).
* Two destinations of a site may name the same storage; each package of a run then
  collides with itself.
* Only the first row of REPAIR TABLE counts (`maintenance.go:162`): a repair that
  warns before it says OK fails the export, and a `note` row of CHECK TABLE makes a
  table unhealthy. Warnings about repairs are lost when the dump after them
  fails.

## Fairness

Safety needs none. `RequestsAreDecided`: a command that is acquiring keeps
running (weak fairness of its own steps); it never waits for anybody, so nothing
is asked of other commands, the clock or the operator. `LoneDeadLocksClear`
(`DeadLocksClear` of a host alone): commands run on and the operator repeats `backup unlock`, as the lock's message
asks. `RunsConclude`: a process that has the flock runs on; nobody is obliged to
start one; crashes are excluded because a dead process writes no outcome.
`StoppedProcessEnds`: a live backup process runs on (weak fairness of its steps
taken together: a goroutine of it is scheduled, no matter which lane's; the
lanes' sites are finite and none is waited for); nothing is asked of control
processes, and nobody is obliged to run `stop`.

## Theorems

Every safety property of the passing runs, invariant or action, is proved for
every value of the constants, by the usual three facts (the initial states satisfy
an invariant, every step preserves it, it implies the claim). `PROJECT.json` lists
the theorems; here are the invariants, and what is assumed beside the constants'
own assumptions.

* `RepoLockProofs`. `LockFilesKeepPromise`, the refinement of `RWLock`, assumes
  that nobody runs `backup unlock`; crashes, stalls, skew and failing calls are
  all allowed. Its inductive invariant `IInv` says whose a file is (`OwnFiles`),
  that a writer is on record under some name from creation to release
  (`WriterOnRecord`), and that of two commands that must not meet at most one can
  get through its second check without seeing the other (`OneOverlooks`); the
  last is what neither check alone gives.
  `WritersStayAlone` and `LiveLocksStay` are about time and assume `InTime`:
  commands are not suspended, no two clocks differ by so much that a lock within
  its holder's time is stale to another (`ClocksAgree`), and if there is an
  operator, refreshes do not fail, he has the commands' key, and no command's
  clock is so far behind (`OperatorInTime`). This is how `RepoLockTimed` is set up.
  `Timely` then says that the current file of a command is stored, unless it is a
  writer whose refresh failed, and no older than the command's timer says: so
  nobody can think it stale. That a writer's file may be missing is allowed where
  there is no operator; `OneOverlooks` does the rest. `NothingStaysBehind` needs
  that creation, backing out and release do not fail for good, which leaves
  listings, refreshes and the removal of replaced files to fail (`OneHandle`: a command that backs out
  has one file).
* `RepoStoreProofs`, the repository. `SnapshotsSurvive`, `IndexIsSound`,
  `DedupIsSound`, `RestoresFindAll`, `RepositoryKeepsPoints` are for one runner of
  backups and retentions (`OneRunner`) beside any repairs and restores. Between
  the steps of a prune the repository has several indexes at once;
  `NewIndexSuffices` says that the new one alone serves every snapshot,
  `KnowsIndexed` that a backup's picture of the index, loaded before the lock, is
  not outdated by a repair, `LosesNothing` where each blob of a coming snapshot
  is. The assumption is needed: see the index loaded before the lock above.
  `PrunesAreClean` holds for any number of runners; `TidyInv` follows what a prune
  has to delete from its marking on: every stored pack remains or is doomed.
  For a restore, `RestoreInv` says that between loading the index and taking the
  lock the packs it knows keep what the snapshots need (`WillFind`), and from then
  on the packs with its snapshot's blobs stay (`Finds`). `RepositoryKeepsPoints` is
  the refinement of `RecoveryPoints`: every step adds the newest snapshot, takes
  one that is past keep_last, or leaves them as they are.
* `RepoStoreProofs`, the check. `DamageGetsNamed` holds for any number of runners,
  any damage and any number of failing reads: `CheckInv` says of a check that nothing
  overtook what it has loaded, and of a finished one that it saw everything there
  is to see (`SawAll`).
  `AlarmsAreExplained` and `HealthyIsRestorable` join it with `HarmInv`, that an
  undamaged repository is as the commands leave it, which is the theorem above and
  needs its `OneRunner`. `HealthyIsRestorable` assumes `~KeysMayGo` as the run
  does: without any key file the check finds nothing wrong, as noted above.
* `RepoInitProofs`. When key files do not fail to be stored, `DataStaysReadable`
  and `OneInitialises`: `OneKey` ties data, config and key files together,
  `InitUnderLock` says that whoever draws a key has the lock, `OpenedWithKey` that
  whoever opened has the config's key. The assumption is needed: see the rollback
  race above. `LoneInitsLeaveNothing` is about a host alone whose key file fails,
  with an operator beside it, as long as nobody dies: before and after each step of the initialization and
  its rollback, config and key file are both there, both gone, or what the next
  step is about to undo (`Between`, `Settled`). It assumes that storing the config
  and the rollback's removals do not fail; a config that is stored by a failing
  call is not rolled back, as noted above.
* `BackupRunProofs`. `Control` says that only who has the flock is at work, that
  its run is the newest, and what history and people know of it: `RunsStaySpaced`
  and `ToldIsRecorded` follow, whatever fails and whoever dies. `Sets` counts what
  a run has stored by its place in the list of uploads (`StoredBy`) and says that a
  set called complete is whole or has keep_last newer ones (`CompleteKept`);
  `SuccessfulSetsStay` and `PrunesAfterCommit` rest on it. They assume `Forward`:
  keys' times are in the order of the runs, that is, clocks are not set back (see
  above for what happens otherwise).
* `FlatStoreProofs`. A set is displaced when keep_last newer ones are kept. A
  retention deletes only what is displaced, and a displaced set stays so, because a set that
  goes is displaced itself and keep_last newer ones are left
  (`DropLeavesEnough`, `StaysDisplaced`): hence `MarkersTellTheTruth`, `HistoryIsStored`, `RetentionLeavesFew` and
  the refinement `DestinationKeepsPoints`, for both adapters and any packages.
  `VerdictsAreRight` assumes `Prefixed = FALSE`: with a prefix the check's alarms
  are false, as noted above.
* `ArchiveRestoreProofs`. Trees are `Honest`: a node with its entry's stamp has its
  contents; every tree the archiver ever makes is, torn reads included, because a
  later change gives the entry a later stamp. They are `Current` for entries that
  did not change since the walk began. So `SnapshotsAreCurrent` although most
  contents come from parents. Of the restore, `InPlace` says what the target has,
  and that at most one entry is out of its place (`AtMostOneMissing`) needs that
  what is renamed next is what was removed last. `ConfirmedBeforeReplaced` and
  `RestoresGiveTheSource` follow.
* `BackupControlProofs`. `LocksAreHeld` (processes and probes have their flocks),
  `OneProcessPerSite` and `OwnersAreRight`, whatever is killed or fails; the last
  speaks of the sites whose lock files can be written (`Site \ MetaFails`). Without
  the flock's uniqueness the owner file says nothing: `NamedIsAtSite` says that
  whoever a file names is at that site between its writing and its clearing.
  `StopsAreDone` needs that a process comes to each site of its plan once
  (`OnceThere`): then a flock that a stop saw held by it, and that has changed
  hands, is not taken by it again (`WaitsOrReleased`).
* `SiteWatchProofs`, the parts. An export: `ExportInv` says, for each place it may
  be at, what is in the file, how many attempts are used and whether the repair is
  (`Budget`: the last retry and the repair may both come, which is why four dumps
  are the limit), and that what is to be repaired and what is repaired make up
  the check's verdict (`Settled`, `Untouched`); `PackagesStayWhole` and
  `RepairsStayJustified` follow. The dispatcher: where no save was lost, the record
  is what the channel knows (`RecordsMatch`); during a dispatch each channel either
  is still to come or knows already (`InformedSoFar`), the one whose state is being
  saved has the message (`UnsavedIsTold`), and only channels routed for a failure
  have an incident open (`IncidentsAreRouted`), which is why the recipients of a
  recovery are enough: `ChannelsStayInformed`, `NobodyIsNaggedEver`, where clocks do
  not go back (`Later`). Opening: validation accepts a storage that is to be
  resolved, so validity alone does not say that a store can be written to;
  `Unresolved` ties the storages that are still remote to those a provider is to be
  asked for, `FromFiles` keeps channels and routes what the files say,
  `PrivateFiles` remembers what loading did: `ReadyIsUsable`.
* `SiteWatchProofs`, the whole. `WatchImplementsParts` says that the composition is
  a behaviour of `ExportSpec`, `AlertsSpec` and `ConfigSpec`, from which
  `SiteKeepsPromises` and `SiteNagsNobody` follow by the theorems above. What has to
  be shown for it: that clocks do not go back (`ClockOK`), that what a run tells is
  a notice (`RunOK`), and that the routes a dispatcher gets are valid (`ConfigInv`).
  `SiteRecordsDelivery` rests on `JobsOK`: until it has failed, a report command
  has sent to a channel of its route or will, and the route stays while it runs.
  `ReportsStayTrue`: history goes on by adding a row with the time its run has read
  and giving each one outcome once (`RowsOK`, `HistoryGoesOn`), and so every report
  that a command holds or a channel got stays `Sound`. To a period that was over
  when a report on it was built only the run can be added that had its date by
  then: a run that starts later reads a later day (`NowIsNotCovered`). `MissesNoMore`
  counts that run while it waits for its row (`Waiting`), so the step that adds the
  row moves it from one side to the other. Days and months are any number of
  ticks and the offset is constant; days of other lengths are left out.
  That a month is the sum of its days needs that
  a sum over a set of days is the size of the union of the days' runs
  (`PartsAddUp`). Assumes no more than `WatchAssumption`: candidates' channels are
  channels, and routes are records.

The library's induction theorems cannot be instantiated here, but `WFMin` can: a
least counterexample takes the place of an induction. The sum of `PartsAddUp` is
shown that way, over the sizes of sets, and finite sets of runs and names have a
least and a greatest element (`FlatStoreProofs`, `BackupRunProofs`,
`ArchiveRestoreProofs`).

Only model-checked: liveness (`RequestsAreDecided`, `LoneDeadLocksClear`,
`RunsConclude`, `StoppedProcessEnds`), which is out of TLAPS's reach. Type
invariants (`TypeOK`) and the inductive invariants of the modules are no properties
of the runs: they are proved.

## What is not modelled

Contents, encodings and encryption (a sealed file is a value that opens with one
key); the 200 ms wait and eventual consistency of object stores beyond calls
that fail or have taken effect unknown to the caller; backend staging files;
nested directories, symlinks and several include
roots (the archiver takes them by the same steps), the file archiver of full mode
other than by its outcomes; sizes, durations and the wording of notices and
reports, and the transports (a channel accepts a message or does not); copies of
site configurations in storage; batch results; the failure streak in notices
(which for a database-only run counts full runs); command-line output, update,
doctor and logging, which have no shared state.

In `RepoLock` a creation that fails leaves its file to go stale, and blocks
others until then; `RepoLockHostile` covers that this is safe, no property says
how long it takes. In `RepoInit` only the locks of dead commands go stale,
although an initialization slower than 30 minutes could lose its lock too.

## Plan

Written in this order, most important first: `RepoLock`, `RepoStore`,
`RepoInit`, `BackupRun`, `BackupControl`, `FlatStore`, `ArchiveWalk`,
`RestoreMove`, `ArchiveRestore`, `RepoCheck`, `DatabaseExport`, `Alerts`,
`Reports`, `Configuration`, `SiteWatch`. What would come next:

1. Proofs that ask for less: `SuccessfulSetsStay` where clocks go back by less than
   the distance of two runs, `RestoresFindAll` with the timing of `RepoLock` in the
   place of `RWLock`'s lapse, `NothingStaysBehind` for each fault alone.
2. Batch results and errors of `runEnabledBackups`, the failure streak, copies of
   site configurations.
3. Nested directories in `ArchiveWalk`; pure operators against reference
   definitions: unique root names, multipart plan, exclusion rules.

New runs replace or join existing ones: the project is kept at about a dozen
runs and forty properties, so that running all of it stays affordable.
