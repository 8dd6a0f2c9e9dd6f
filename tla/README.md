# SNPanel: TLA+ models

SNPanel is a hosting panel: a Rust server (`snpanel-api`) that an administrator
and their customers use in the browser, a root helper (`snpanel-helper`) that
does what needs root, a command line, an installer, and a database (SQLite).
This directory holds models of its parts that run concurrently, over time or
across failures, the configurations TLC checks them with, and proofs that TLAPS
checks. Source paths below are relative to `src/crates/`.

- [The system](#the-system)
- [Modules](#modules)
- [Runs](#runs)
- [Fairness](#fairness)
- [What is proved](#what-is-proved)
- [Where the code and what is said of it differ](#where-the-code-and-what-is-said-of-it-differ)
- [What is left out](#what-is-left-out)
- [Plan](#plan)

## The system

### Processes and how they interact

| Process | Started by | State it keeps | Shares with others |
|---|---|---|---|
| the panel, `snpanel-api` | systemd, always | job registries, semaphores, limiter windows, caches: all in memory | the database, files below the data directory |
| a one-shot of the same binary: `--run-backup-schedules`, `--run-malware-schedules`, `--run-notification-checks` | systemd timers | the same kinds of registries, for its own life | the same database and files |
| the helper, `snpanel-helper serve` | systemd socket | slots, one mutex per shared resource, in memory | the operating system |
| the helper as a command, `snpanel-helper <verb>` | sudo from the panel, systemd units | none | the operating system |
| `snpanel-ctl`, the installer | an operator | none | the database, the operating system |

The panel asks the helper over a Unix socket, one connection per call, and runs
the same verb through sudo when the socket gives no answer. Background work in
the panel is a request that records a job and spawns a task; the page polls the
job. The release profile aborts on a panic (`Cargo.toml:107`), so a panic
anywhere in a process ends everything the process was doing. The database is in
WAL mode with foreign keys on, and each handler runs its statements one by one,
without a transaction around what a request does.

### Components, what each must get right, and what makes it hard

| Component | State and operations | Correct when | Hard because |
|---|---|---|---|
| Helper server (`snpanel-helper/src/main.rs`, `locks.rs`; `snpanel-api/src/shell.rs`, `helper_socket.rs`) | slots, ordered mutexes, connections; accept, dispatch, answer, fall back to sudo | operations that change one resource take turns; no deadlock; no slot leaks; an answer is final | many threads, timeouts, a process that dies with all of them, a second transport that knows no locks |
| Malware scan jobs (`malware_jobs.rs`) | a map and a task table per process, one directory of files; start, update, get, list, close what is stale | a lost scan does not look alive, a live or finished one does not look lost | reads write; two processes; edits and file writes are separate steps |
| Job registries (`backup_jobs.rs`, `file_jobs.rs`) | a bounded map, a semaphore; queue, start, finish, evict | a worker finds its job; two work at a time; the oldest finished go first | eviction beside workers; the sequence is drawn before the lock is taken |
| Backup timer and sweep (`backup_scheduler.rs`, `main.rs`, unit files in `snpanel-installer/src/systemd_units.rs`) | `last_run_at`; sweep, run by hand | a schedule runs once for a minute it is due in, and is not passed over | reads as old as the sweep; runs by hand write the same column; reboots |
| Backup schedules (`routes/maintenance.rs`, `snpanel-db`) | two rows per schedule; create, delete, run | a schedule goes by its own options | two statements; ids are used again; failures that are logged only |
| Imports and restores (`da_jobs.rs`, `routes/user_restore.rs`) | three registries; start, work, poll | one at a time; seen while at work; every archive counted | checks and recordings under different locks; callers that go away |
| Users' archives (`backups.rs`, `sftp.rs`, `s3.rs`) | a directory and a bucket; build, send, prune, delete | no half archive under a name; retention deletes only what is superseded | overlapping runs, names that repeat, uploads that fail or land without an answer |
| Provisioning (`routes/provisioning.rs`) | accounts of billing systems, users, sites, Linux accounts; create, suspend, unsuspend, terminate, new package, new password | a repeated request converges; an answer says what was done; a customer's rows stay the customer's | several steps that fail, are cut off, repeat and overlap; ids that come back |
| What nginx is told about sites (`routes/websites.rs`, `snpanel-nginx`, `ops/waf.rs`, `ops/ssl.rs`) | rows, vhosts, rules, zones, certificates; all settings that rewrite a vhost | one missing file never takes all sites down; the vhost says what the row says | files that others refer to, put back after a failure; certificates that are borrowed |
| The life of a site (`routes/websites.rs`, `mariadb.rs`, `ops/site.rs`) | row, tree, pool, vhost, database; create, install WordPress, move, delete | a site is whole or gone; a WordPress opens its own database | a dozen steps over three systems without a transaction; a clean-up that takes what it did not make |
| Quarantine (`malware_quarantine.rs`, `routes/malware_quarantine.rs`, `ops/quarantine.rs`) | a store of files and records, a whitelist, what jobs say; isolate, restore, judge, delete | a file is in one place and is what its record says | customers who swap files meanwhile, moves that are a copy and a removal, stops between two system calls |
| Notifications (`notify/`) | a memo of what was told; look, deliver, save | told once | load and save around a delivery; two processes |
| Sessions (`auth.rs`, `routes/auth.rs`) | token versions, limiter windows, challenges; sign in, revoke | what is revoked stays so | expiry beside use |

All other parts (the scan's watcher, quotas, cron's syntax, the file manager, updates, the installer, the MCP server, the
web page and so on) are listed in `PROJECT.json` with the reason why they are
not modelled: most are text, tables, single statements or input and output.
The places where this code could go wrong and a test would hardly show it are
listed there under `hazards`, each at its line with the properties that are
about it.

## Modules

Each component is a module; `<component>_proofs` extends it with theorems
(`Jobs_proofs` has those of `JobPool` and `ImportGate`, `BackupSchedules_proofs`
those of `BackupTimer` and `ScheduleOptions`), `MC<component>` gives TLC an
instance. `ResourceTurns` and `JobLife` are
abstract specifications which `HelperServer` and `JobPool` implement through an
`INSTANCE ... WITH`. An operator called `Slip...` beside a definition is that
definition with a plausible mistake in it; the `mutants` in `PROJECT.json` say
which property notices which mistake, and no behaviour of a module uses one.

**HelperLocks** is the table of `locks.rs`: eight resources in the order of the
enum, which is the lock order, and what each operation is placed on. One or two
operations stand for each row.

**HelperServer** follows a call from the panel to its end. `caller` is what the
panel is doing (`helper_socket::call`, `shell::privileged`), `conn` the helper's
thread for it, `reply` what is on the connection, `backlog`, `free`, `owner` and
`up` the server's state. `Connect`, `Accept`, `TakeSlot`, `Admit` or `Refuse`
(`peer_is_panel` and decoding), `TakeLock` once per resource, `Dispatch`,
`Finish`, `DropLock`, `Respond` and `GiveBack` are the path of a call;
`NoSocket`, `TimeOut`, `NoThread`, `Panic` its failures; `RunBySudo` and
`SudoEnds` the other transport; `UnitStarts` and `UnitEnds` systemd units that
run a verb. An operation is opaque: it starts, holds what it is placed on, ends
or panics. `runs` counts how often each call's operation was started.

**MalwareJobs** follows one job through `malware_jobs.rs`. An edit of the map
and the write that follows it are two steps, as the write is outside the lock.
`Remember`, `WriteQueued`, `SpawnWorker`, `KeepHandle` are the starting request;
`Begin`, `Log`, `End`, `WorkerWrites`, `Forget` the worker; `Get`, `Gather`,
`Dedupe`, `Check`, `Close` a reader, `finalize_stale` being the last two. `home`
is the process that starts the job, the panel or the scheduler's one-shot.

**JobPool** is both registries of background jobs. `Make`, `Number`, `Queue` are
the request (`created_at`, then `NEXT`, then `remember` with its eviction);
`Acquire`, `Start`, `Finish`, `Release` the worker; `RunByHand` a schedule run by
hand, which takes a permit of the same semaphore and has no job.

**BackupTimer** counts quarters of a minute. `Elapse` is the timer, `StartUnit`
an operator, `Reboot` the machine; `Stamp`, `List`, `PassOver`, `Run`, `EndRun`,
`EndSweep` are `--run-backup-schedules`; `HandAsk`, `HandRun`, `HandEnd` are
`run_backup_schedule_now`. `times` and `byHand` are histories.

**ScheduleOptions** has the two rows a schedule consists of. `Insert`, `Set`,
`SetFails`, `Undo` are a creation; `Delete`, `Forget` a deletion, by request or
with its last user; `Read`, `Begin`, `BeginFails`, `End` a run.

**ImportGate** has the three registries. `Look`, `Remember` are an import's
request, `BeginImport`, `Import`, `EndImport` its worker; `Enter`,
`LookAtImports`, `Record`, `Spawn` a restore's request, which holds its
registry's lock from `Enter` to `Record`; `Restore`, `EndRestore` its worker;
`Disconnect` a caller that goes away at the await before `Spawn`.

**UserArchives** has the archives of one account. `Begin`, `Collect`, `Write`,
`Rename`, `BuildFails` build one; `SendBySftp`, `OpenForS3`, `PutToS3`,
`SendFails` send it; `List`, `DeleteKey`, `EndBucket`, `DeleteFile`, `EndDir`
prune the bucket, then the directory; `Remove` is a deletion by hand, `Die` the
end of a run's process at any step. A name is a style and a number that orders
the names of that style, as the text of the names does.

**SiteConfig** is what nginx is told. `row` and `vhost` are a site's row and its
file, `rules`, `zones` and `certs` what vhosts refer to, `req` the one request
in flight, `off` a history of the sites a request left half-way. `Create`,
`SetWaf`, `SetFlood`, `SetApp`, `Share`, `Upload`, `Enable`, `Wildcard`, `Delete`
begin a request, each with its checks (`block_if_source` among them); the steps
they share follow: `SaveRules`, `SaveZones`, `Custom`, `Write`, `WritePlain` and
`WriteBlock` with the short write, `Accepted`, `Refused` and `NotPutBack` for
`nginx -t`, `Install`, `Refile`, `Issue`, `IssueZone`, `Remove` for certificates,
`SetRow`, `DropVhost`, `Release`, `DeleteRules`, `DeleteRow`. `StepFails` is an
error of any of them, `Dropped` a request that is dropped.

**Accounts** is provisioning. `acct`, `users`, `site` are rows, `vhost` and
`linux` the machine, `req` one request per customer, and `told`, `due`, `amiss`
are histories: what the billing system was answered, what it still has to
repeat, and what an error that was logged only has left. Each request starts at
a `Look...`, reads what the handler reads, and keeps the ids it has read until
its end, as the handler does. Ids are the greatest in use plus one, so that they
come back.

**Quarantine** is the store, one system call at a time: `Open`, `Folder`,
`Move` or `Copy`, `Same`, `Unlink`, `OpenMoved`, `Record` set a file aside,
`Restore`, `PutBack`, `CopyBack`, `Clear`, `Own`, `Forget` put it back, `Delete`,
`WhiteAdd` and `WhiteDrop` do the rest; each has the failures of its calls, and
`GiveUp` is `give_up`. `Scan`, `Isolate`, `Amend` are a scan's worker, `AskItem`,
`AskThreat`, `AskUnwhite`, `Send`, `Judge`, `Told` the administrator. A customer
does `Put`, `Remove`, `Rename`, `Write` or `WriteAside`, the last into a file that
was renamed into the store and that they still have open. A file is known by its
content, and `lies` is where the file is by now that the helper has open: the
code compares inodes, so that a swap is seen and a write is not. `ReplyLost`
has an answer lost and the verb run `Again`; `Dropped` is one request that is
dropped, `PanelDies`, `HelperDies` and `ServerDies` stops between any two steps.
`owed`, `late` and `untold` are histories: the files nobody removed, the items
written into after their sum was taken, the items that were put back or deleted
without their scan being told.

**SiteLife** follows creation, WordPress on an existing site, another owner and
deletion through row, `tree`, `pool`, `vhost` and `base`. A database is the
password of its account, 0 when there is none; a tree has the password in its
wp-config.php. `NameOf` gives the name of a domain's database, which two domains
may share, since `safe_db_identifier` maps what is no letter to one character
and cuts at 38. `marred` and `stuck` are histories of what a stop, a failing
write or a request for deletion has left.

## Runs

States are distinct states. A configuration gives values to constants and replaces
no definition. The type invariants of the modules with proofs are proved, and not
repeated here, but for `Quarantine` and `SiteLife`. That of `MalwareJobs` holds on
the instance of `malware_jobs`.

| Run | Instance | States | Shows |
|---|---|---|---|
| `helper_calls` | two calls of the panel, one that cannot be decoded, two slots, a timer's unit, timeouts, panics, no socket, threads that do not start | 97 k | `SocketOpsExclusive`, `NoWaitCycle`, `SlotsAccounted`, `AnswerTellsTheRun`, `TakesTurns` (implements `ResourceTurns`), `EveryCallEnds`, `AnswerIsFinal` |
| `malware_jobs` | a job started by either process, one reader by id, one of the list, one death, two seconds | 286 k | `MapKeepsTheEnd`, `ClosedComesBack`, `EndStaysOnDisk`, `LostIsClosed` |
| `pool_jobs` | three jobs, a limit of two, two permits, a schedule by hand, a restart | 330 k | `WorkersFindTheirJob`, `OldestGoFirst`, `CutToLimit`, `KeepsThePromise` (implements `JobLife`), `QueuedEnds` |
| `timer_sweep` | one schedule due every minute, one every second minute that is run by hand too; 3½ minutes, one start by an operator, one reboot | 3.8 M | `OncePerMinute`, `NeverPassedOver` |
| `schedule_one` | three creations, two deletions, a run, two ids; requests one at a time | 5 k | `KeepsItsOptions` |
| `import_gate` | an import of each kind, three restores, two archives each, a registry of two, callers that go away | 142 k | `OneRestore`, `SeenWhileAtWork`, `Tally`, `ComesToAnEnd` |
| `user_archives` | two schedules' runs named by date that keep two and one, both to the bucket, one to SFTP; a backup by hand; three days | 207 k | `ListedAreWhole`, `DirKeeps`, `BucketKeeps` |
| `site_config` | two sites, the certificates of one good for the other, which is on the zone of the first; any number of requests one after the other, one site left half-way | 3.5 M | `NothingMissing`, `ServesItsRow`, `SourceStays` |
| `accounts` | two customers at once, one of them with failures and cut requests, two packages and passwords, two ids | 1.8 M | `OwnRows`, `OkMeansDone`, `BothHalves`, `OnlyTheirs` |
| `quarantine` | two paths on the store's file system, one of them out of the scan's sight, one on another; two files, one item, one scan, one request; customers, failing calls, dropped requests and stops of the panel at any step, one stop of the helper or lost answer | 926 k | `NothingLost`, `RecordIsTheFile`, `QuarantinedIsAside` |
| `site_life` | two domains whose database has one name, two owners, two requests at a time, three requests, one stop | 346 k | `LiveIsWhole`, `NameComesFree` |
| `account_lock` | one customer, nothing amiss | | finds what is described [below](#where-the-code-and-what-is-said-of-it-differ) |

### Bounds, and why they are enough

*Helper.* Two calls and a unit are what it takes for a chain of waiting; fewer
slots than calls make a connection wait for a slot while others wait for locks.
A request that cannot be decoded takes a slot like any other. Each call is made
once: a call has no state that a second one would find, except what the counters
above hold. A call's timeout and its fault may fall anywhere.

*Malware jobs.* Jobs do not touch each other: the map, the table and the files
are keyed by the job. Two seconds give equal and different stamps. Two readers
are enough for one to close what another has read, and `ClosedComesBack` for a
scan that is closed again and again.

*Job pool.* The real limit is fifty and the real number of workers two. With a
limit of two and three jobs each case of `remember` comes up: nothing to drop,
one finished job dropped and another kept, and more in flight than the limit.

*Timer.* The unit's periods (90 s after boot, 60 s after an activation, accuracy
15 s) are multiples of 15 s. Three and a half minutes have a boot, two periods
and a reboot with the sweep that follows it; a sweep may take all of it.

*Schedules.* Two ids make an id come back; three creations follow a deletion with
another creation, and a failed one with a good one. Foreign keys are off in the
run, the harder case: nothing but the code removes the options. (The panel turns
them on; the theorem is about both.)

*Imports.* A registry that keeps two of three restores drops one; the code keeps
more and nothing depends on how many.

*Archives.* A day lasts one second and a week two, so that dates come one after
another in three steps of the clock. Two overlapping schedules with different
retentions, on the same style, are what could go wrong in a prune; styles that
repeat their names prune nothing, and a mix of styles is the theorem's matter.

*Site configuration.* Two sites are enough for one to borrow from the other and to
stand in its way, and for one site's failure to take the other down; each kind
of certificate and each setting is there. `MaxAstray` ends what comes after a
site has been left half-way, not how it comes to that. Requests are one at a
time: the module is about order and failure within a request and about what is
left for the next.

*Accounts.* Two customers and two ids make every id come back for the other. Only
one of the two has failures (`Unlucky`); the other's requests fall between any
two of its steps. `Patient` makes a request that failed the next one that is
asked for that customer, which is what a billing system's retry queue does and
what `OkMeansDone` is about; `MaxAmiss` is how much may be amiss before one more
error that nobody is told of happens.

*Quarantine.* Two contents give a swap and a write, a second path beside the first
a rename. One item and one request give a restore or a deletion beside the scan
that has yet to report the item; a second file that it finds is refused a folder.
Requests that take something off the whitelist are not counted. `MaxFalls` bounds
stops of the helper and of the server and lost answers; the panel stops, requests
are dropped and calls fail at any time. No constant keeps customers, requests or
scans apart. Two items on two paths (2.3 M states) hold as well, but take longer.
Links and a path outside the roots are not in the run: a link fails to open, which
any file may. The proofs are about both, and about any number of items. Symmetry is over the files, which nothing tells apart.

*A site's life.* With three requests there is a site, a second whose database has
the same name, and one more thing that happens to either. Four give 6 M states
and hold as well. Requests overlap on different sites, and on
one site where they are installations (`Beside`). `Bare` is off: WordPress is
installed on sites that have a pool. Symmetry is over domains, which share one
database's name, owners and clients.

Every counter is bounded by a constant named in its module: `MaxTime`,
`MaxDeaths`, `MaxRestarts`, `MaxStarts`, `MaxBoots`, `MaxId`, `MaxAstray`,
`MaxAmiss`, `MaxIds`, `MaxAsks`, `MaxFalls`. `CHECK_DEADLOCK FALSE` stands where
a bounded system comes to rest: all requests made, no time left. `HelperServer`,
`MalwareJobs`, `Accounts` and `Quarantine` are checked for deadlock; the helper's
rest is the action `Quiet`, in which all calls are over, and there is always
something that a customer or a billing system may do.

## Fairness

Only what the code and its platform schedule is assumed; that a request comes or
that something fails never is.

- `HelperServer`: threads run, an operation ends, the accept loop loops, a unit
  ends, systemd restarts the helper (`Restart=on-failure`, or the socket). A
  mutex need not be fair: each call is made once, so a lock that a thread wants
  for ever is free from some point on, and weak fairness of its own step is
  enough. The same goes for the slots.
- `MalwareJobs`: the runtime polls its tasks, a scan ends, the one-shot looks
  every five seconds whether it may exit, and a reader that has begun gets to
  its end. That somebody reads the job is a premise of `LostIsClosed`, not a
  fairness condition, since closing is done by readers only. `ClosedComesBack`
  needs the worker's fairness alone.
- `JobPool`: a free permit goes to somebody who waits, and work ends. Which
  waiter gets it is left open; no task comes twice.
- `ImportGate`: a request that has begun and a worker go on. `Disconnect` is
  never forced.
- `BackupTimer`, `ScheduleOptions`, `UserArchives`, `SiteConfig`, `Accounts`,
  `Quarantine` and `SiteLife` have safety properties only and no fairness: what a
  request must not leave behind does not depend on its going on. Where requests
  are dropped is an action of the model that says so (`Dropped`, `Breaks`).

## What is proved

The proofs hold for every value of the constants that the modules' named
assumptions (`ConstantsAssumption`) allow: any sets of calls, operations, jobs,
schedules, requests, runs and names, any limits, any faults. TLC evaluates the
assumptions on each run.

**HelperServer_proofs.** The invariant is `IInv`. A thread takes its locks in
ascending order and holds all of them while its operation runs, so `HoldOrder`
says that a held lock is one the call needs, that a running call holds all it
needs, and that what a waiting call holds lies below all it still wants. Mutual
exclusion (`Exclusive`) follows as a lock has one owner. Of two waiters in a
chain, the second holds what the first waits for, so it waits for something
higher (`NoCycle`). `SlotInv` says that the free slots and the threads that have
one add up (`SlotsConserved`). `BacklogInv` says that a connection waits to be
accepted once, which type correctness and the slots need. `RunInv` counts what
was started, for the type invariant's bound of two, and gives `AnswersAreRuns`: an
answer stands for one run, a refusal for none. `AnswersAreFinal` rests on it and on
a call having one thread: an answered call's is past its operation. `LocksLetGo` says that only a
thread at work has a lock. `Implements` maps `Dispatch`
to `Begin`, `Finish` and `Panic` to `End` of `ResourceTurns`, and every other
step to a stutter.

**Jobs_proofs**, for `JobPool`. `AllAgreed` says what a job's entry is at each step of its
worker (no entry before it is queued, queued while it waits, running while it
works, finished or forgotten after), which is why no worker's job is evicted
(`Found`) and why the registry implements `JobLife` (`Implements`). Permits are
counted over jobs and schedules together (`Bounded`). `EvictsTheOldest` rests on
`Older` being transitive.

For `ImportGate`, `Locked` says that a restore that is past the check holds
the registry and that nothing then runs; `OneAtATime` and `Seen` follow.
`Counted` relates the counters to the archives that were gone through
(`Tallied`).

**BackupSchedules_proofs**, for `BackupTimer`. `RunsOnce` is `OncePerMinute`: no sweep runs a schedule
twice for a minute. Its invariant says that what was run for the sweep's minute
is recorded, or is running, or was cut short by a reboot (`Accounted`); that the
sweep's reading of a schedule nobody runs by hand is up to date (`Sweeping`);
and that the sweep after a reboot is for a later minute (`Later`), which holds
because 90 s pass before it. The exception in the property, an operator who
starts the service on a machine that has just rebooted, is needed: TLC finds a
second run without it. `PassedOverHasRun` is `NeverPassedOver`, under no such
condition and with runs by hand: each stamp, in the row, in what a sweep has
read, or still to be written, stands for a run of that minute (`RunInv`).

For `ScheduleOptions`, `OptionsKept`: with requests one at a time, a
schedule whose creation was answered has its own options, with foreign keys or
without, whatever fails and whoever had its id. `OptionTypes` needs no such
condition. `RowsAgree` says that a request
under way finds the row it is about, or finds it gone.

**UserArchives_proofs.** `Whole`: only finished archives have a name. `DirKept`
and `BucketKept`: an archive that was written, or sent, is there until somebody
deletes it or enough newer ones of its style were written, or sent. A prune
deletes from a listing that is old by then; `Doomed` says that what it listed
is superseded all the same, because the histories only grow. That is why no
lock is needed, and it is the argument the code leaves unsaid.

**SiteConfig_proofs.** `BorrowedIsThere` is `SourceStays`: a row that says it
borrows names a site that has a certificate, for any number of sites, whatever
fails or is dropped. A request holds the row it found and the one it will write,
so `Sourced` says it of these as well; and a request that may take a certificate
away has found that nobody borrows it, which `Unborrowed` keeps until it ends,
as requests are one at a time. `NamesWhatIsThere` and `SaysWhatTheRowSays` are
`NothingMissing` and `ServesItsRow`: a site that no request has left half-way
serves what its row says and refers to nothing that is not there. The property is
about such sites only when nothing is at work on them, so `RightInv` has to say
what a request that is at work may count on: what it found, since a way back
restores the old vhost and the old row and these must still be right then
(`Found`); and how far it has come with the new ones (`Made`). `Wanting` says that
what the request is about to name has been made by an earlier step, and that no
later one takes it away. For the other sites it is enough that rules and zones
are only added to or are the request's own, and that certificates which go are
those nobody borrows (`Right`).

**Accounts_proofs.** Ids come back, so that a request has its customer's rows in
hand only because of what it has read. `Held` says for each step what that is;
with it, ids of accounts stay apart (`IdsApart`) and a name has one user
(`OneUserEach`). `RowsAreTheirs` and `TheirsOnly` follow: an account's user and a
site's owner are the customer's own, and no step for one customer changes
anything of another's, for any number of customers, requests at once and ids.
`ToldIsDone` and `BothAreWritten` are `OkMeansDone` and `BothHalves`, under
`Patient`: a request that failed is the next one for that customer. Without it
both are false: a suspension that breaks off after the user's row leaves the
account active, and a request to unsuspend it is then answered without a look at
the user. As steps touch one customer's values only, `Sound` says of those what
each step of a request leaves for the next one and what a request that broke off
anywhere leaves for the one that repeats it: what a status stands for unless a
request is about to change it (`Standing`), what may be there that no row leads to
(`Strays`, `Orphaned`), how far each request has come (`Created`, `Toggled`,
`Ended`, `Changed`), and that the two halves of a package and of a password are
the same but for a request amid them (`Halves`). Each kind of step is a lemma
about values, `...Sound`; `...Told` brings it back to the action.

**Quarantine_proofs.** The theorems have no condition beside the constants'
assumption; what the code does not keep is excepted in the properties, by the
histories. `IInv` says of each step of the store what it knows of the item: that
it has no record yet while it is being set aside (`Asides`), that it has one until
what is put back is forgotten (`Backs`), who waits for the answer (`Callers`) and
what an administrator has asked (`Asked`). `Safe` is `NothingLost`: a file is
removed from where it was only when it is somewhere else, for which `Twice` says
that while a move over two file systems is at its removal, what is at the path and
owed is in the item as well. `TrueRecords` is `RecordIsTheFile`; `Summed` says it
of the sum a step has in hand, which is of the file in the item as soon as
there is one, but for a `late` one. `ShownIsAside` is `QuarantinedIsAside`. What a
scan shows was true when the store answered and is told later, so `AsideInv`
follows an item from the store's answer over the worker's `got` and the
administrator's `out` to the list (`Told1`, `Outs`), and says that whoever may
remove it meanwhile either tells the scan or has it `untold` (`OnBehalf`).
`Settled` is what any step leaves of an item that was given out.

**SiteLife_proofs.** The theorems are about requests of which only installations
overlap on one site (`OneByOne`, what the model's `Beside` allows in the run; the
panel keeps nothing from overlapping, and two creations of one domain take away
each other's row). `LifeInv` says what a request may count on of its row
(`RowsThere`), which request a vhost without a row belongs to (`VhostsLeft`), and
that a database's record is of a WordPress site of that name (`Items`):
`NamesComeFree` follows. `LiveSitesAreWhole` is `LiveIsWhole`. A database may be
two domains', so `WholeInv` says that of the sites that claim one all are marred
but one (`Alone`), that one request at a time is past the database's creation and
that the password it carries is the one that opens it (`OnePast`), what each has
made so far (`Underway`), and what there is of a site that nothing marred
(`Whole`). It needs `~Bare`: a WordPress on a site without PHP has no pool, which
is listed [below](#where-the-code-and-what-is-said-of-it-differ). What a step
does is proved at the request's own site; what it leaves alone is proved once for
all steps (`LifeGoesOn`, `WholeGoesOn`).

### What only TLC shows

Liveness (`EveryCallEnds`, `LostIsClosed`, `ClosedComesBack`, `QueuedEnds`,
`ComesToAnEnd`) is out of the prover's reach, as is whatever needs ENABLED. Also checked on instances
only: all properties of `MalwareJobs`, and `CutToLimit`. The type invariant of `ImportGate` has a bound on
`kept` that its proof does without. No module declares a RECURSIVE operator, and
no theorem is by induction over data.

## Where the code and what is said of it differ

One run shows the code doing something other than a comment says.

`account_lock`: `change_password` does not look at the account's status, and the
helper's `panel-user-password` ends with `passwd -u` (`ops/user.rs:208-210`). A
new password for a suspended customer (`routes/provisioning.rs:1677`) opens the
Linux login again that the suspension locked, against `ops/user.rs:295-298`.

The following was met while modelling. No run is about it; the models have it,
but where it says otherwise, and the properties except it by name.

*The helper and the jobs*

- A command line runs an operation without `locks::hold`, whose locks are of one
  process (`snpanel-helper/src/main.rs:430`): a unit's `firewall-blocklist-run`
  overlaps a firewall operation of the socket, which `locks.rs:6-11` rules out.
- The panel asks only its own task table, so it closes a scan that the
  scheduler's process runs and tells the reader that its worker is no longer
  running (`malware_jobs.rs:292`, `:320-323`).
- After the timeout of 900 s the panel runs through sudo what the helper is
  still doing (`helper_socket.rs:164`). `AnswerIsFinal` is about answers that
  come in time.
- A panic in one operation ends the operations beside it, and their calls go to
  sudo: an operation that was half done is done again from its beginning.
- Between `remember` and the insertion of the handle a reader closes a scan that
  is about to run (`malware_jobs.rs:155`). It comes back when the worker writes
  next (`ClosedComesBack`). A reader that read the job before its end may still
  write "interrupted" over the end on disk; the map is right, and after a restart
  the file is what is left. `EndStaysOnDisk` begins when no such reader is left.
- A worker that ends before its handle is kept leaves a finished task in the
  table of the one-shot, which then waits for ever (`main.rs:695`).

*Backups and imports*

- A run by hand records the minute it started in, at its end, over what the timer
  has recorded meanwhile (`routes/maintenance.rs:2453`): the guard "that makes a
  60-second timer safe" (`backup_scheduler.rs:32-36`) no longer matches, and a
  schedule runs twice for a minute.
- The timer's activations are 60 to 75 s apart, so some minutes have no sweep.
- Creations and deletions of schedules that overlap may lose options or inherit
  them, and a run between the two statements goes by the default.
- An import is recorded as pending, the check counts running ones only, and each
  is a task of its own: two imports run at once (`da_jobs.rs:83`), against "one
  import at a time, across both kinds" (`da_jobs.rs:12-17`). An import and a
  restore may start beside each other as well.
- A restore whose caller goes away before its worker is spawned stays "running"
  and refuses the others until the panel restarts; `ComesToAnEnd` excepts it.

*What nginx is told*

- A site on a Cloudflare wildcard names the files under the zone's name, the
  uploaded ones first (`routes/websites.rs:923-947`), which are the files of the
  hosted site of that name. `block_if_source` asks for `ssl_mode` "shared" only
  (`snpanel-db/src/websites.rs:206-214`), so that another certificate there
  removes them, and `nginx -t` then refuses everything, against
  `routes/websites.rs:2464-2466`. `NothingMissing` excepts who borrows.
- `ssl_source_domain` stays when a site goes on to a certificate of its own, so
  that a site may be taken to borrow from itself.
- `apply_app_id` rewrites the vhost with the old application's port and then
  stores the new one (`routes/websites.rs:5250`); for this `ServesItsRow` is silent
  about the application, which is in the model for what its request does to
  everything else.
- Turning the flood limiter off writes row and vhost before the zones; when the
  zones cannot be saved the answer is an error and the site is off (`:1957-1960`).
- An upload that fails late leaves a row that says "manual" and no files
  (`:3037-3041`), and a deletion removes a certificate it could not read.

*A site's life*

- Two domains that differ in a sign that is no letter, or after 38 letters, get
  one database name (`mariadb.rs:176-184`). Creation adopts what is there and
  sets its password (`mariadb.rs:203-221`): the first site's WordPress no longer
  opens its database, or both use one, the "data-loss shape" that the
  installation's comment is about. `LiveIsWhole` excepts both sites.
- WordPress on a static site gets no PHP pool: `install_wordpress_on_website`
  never calls `site-runtime-ensure`, and the vhost names a socket that is not
  there. (The constant `Bare`; the run has it off.)
- A creation that fails removes the tree it was given, also one that a deletion
  had kept, and a WordPress creation drops a database that was kept.
- A creation that fails in `site-runtime-ensure` or `create_database` cleans up
  nothing. One whose row cannot be written leaves its vhost, and the domain is
  answered 409 from then on.
- A change of owner that fails after the move cannot be repeated: "target path
  already exists". An installation that fails in `set_wordpress_installed` leaves
  a database that no later installation accepts.
- A deletion of a site with more than one database row fails at the foreign key
  after everything else was removed (`by_website` has LIMIT 1); a second one
  takes the next. (Not in the model, which has one row per site.)
- Two creations of one domain at a time may remove each other's tree, and an alias
  and a site of the same name may both be made. (Not in the model.)

*Accounts*

- A creation that is cut off between the user's row and `set_links`, or that
  failed in building the site, is answered "Username already exists" from then
  on; one that was cut off earlier stays "pending".
- A creation looks for a user through an error as if there were none, and removes
  a row of an account that is alive; a suspended customer's row as well.
- An unsuspension that is cut off and followed by a suspension is answered "ok"
  while the user is active. `OkMeansDone` wants the repetition first.
- A creation that is cut off before the site's row leaves a vhost that no
  termination finds; one that fails after the Linux account was made leaves that.

*Quarantine*

- An administrator who restores or deletes what a scan has just set aside is
  overwritten by the scan's result (`malware_quarantine.rs:146-177`). A restore or
  a deletion that is dropped at its await, whose answer is lost so that sudo's
  second run is refused, or that the panel does not outlive, is never told to the
  job either (`routes/malware_quarantine.rs:144-163`, `:236-253`). In each case the
  page goes on showing what is gone as quarantined; `QuarantinedIsAside` excepts
  these items (`untold`).
- What a scan found is lost when the panel stops before its end: the files are
  aside, the job shows them as found.
- Between the last look at a file and its removal the customer may put another
  file there, or write into it, which is removed; what is written during a copy is
  not in the copy. `NothingLost` does not owe these. What is whitelisted after a
  restore is whatever is at the path then.
- Clearing up after a failing reopening deletes the only copy
  (`ops/quarantine.rs:486-489`); `NothingLost` does not owe that file.
- A file is hashed again if it is another inode, and never after a copy
  (`ops/quarantine.rs:492-498`), so that a customer who writes into it after the
  sum was taken, or afterwards through a descriptor they kept, makes the record
  untrue. `RecordIsTheFile` excepts these items (`late`).
- A second sum, a change of owner or a record that fails leaves the file in the
  store, unlisted, with "failed" in the job, which `malware_quarantine.rs:20` takes
  to be where it was. A restore to another file system that is cut short leaves
  half a file.
- A whitelist that cannot be parsed is taken for empty and written over.

## What is left out

- What an operation of the helper, a backup, an import or a restore does to the
  system: each is one step, or one step per archive.
- What overlaps on one site, in `SiteConfig` any two requests, in `SiteLife` all but
  two installations; in `Accounts`, two requests for one customer.
- Reading the request: parsing, validation and permissions come before the first
  step of each model.
- The choice among jobs in lists and pages, log lines' texts, messages.
- `BackupTimer` takes the minutes a schedule is due in as given; the clock only
  goes on. Recording a run is assumed to work, and a schedule is run by hand once
  at a time.
- `UserArchives` has one account, takes the bucket's listing as one step, and
  does not have the files on an SFTP server; archives that are uploaded or
  downloaded by hand are not there either. `Die` is the end of a process: nothing
  is synced before the rename (`backups.rs:832-836`), so that a loss of power may
  leave less.
- `Quarantine` has no threat whose job nobody knows, and one administrator. Nobody
  writes into a file that the store keeps without a record, nor into one at a path
  through another name of it, and what sudo runs has the lock like what the socket
  runs.
- `HelperServer` has no reply of a helper from another release that has no such
  operation (`shell.rs:184-189`): the current one never sends it
  (`helper_socket.rs:183`). A connection that ends without an answer
  (`main.rs:330-343`, `:362`) is a fault among the others, and a timeout comes before
  the reply or not at all.
- `Accounts` has no database of an account, no certificates, no backup before the
  end, no login tickets. That an administrator deletes the user is one step, which
  succeeds (`RemoveUser`); a sign-in is its effect on the tokens (`SignIn`).
- `SiteConfig` and `SiteLife` know neither aliases nor PHP versions (a site with PHP
  is taken to name one); what certbot,
  WP-CLI and MariaDB do is one step each. The database's row moves with the owner
  in one step (`move_with_site`).
- The parts listed as `not_modelled` in `PROJECT.json`, each with its reason.

## Plan

The helper came first because everything privileged goes through it, then the
registries and schedules whose concurrency is the panel's own, then what is made
in several steps over several systems: sites, accounts, the quarantine. Next, in
order:

1. **Notification watcher** (`notify/watcher.rs`): the memo around a delivery, by
   the timer's process and a request at once.
2. **Malware schedule** (`malware_schedule.rs`): settings read, changed and written
   back by two processes.
3. **Scan watcher** (`malware_scan.rs`): the signal without memory, composed with
   `MalwareJobs`' worker.
4. **Sites that overlap**: two creations of one domain, aliases, PHP versions.
5. **User restore** (`routes/user_restore.rs`): what one archive does to the account.
6. **Cron**: `cron_due.rs` as a pure algorithm against a reference definition, to
   give `BackupTimer` its due minutes.
7. **Sessions and sign-in**: token versions, revocation, limiter windows.

Theorems worth having next: `MapKeepsTheEnd` for `MalwareJobs`, in `Jobs_proofs`
beside the other registries, and `CutToLimit` for `JobPool`.
