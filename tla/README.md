# Verification of nest-api-pgsql

TLA+ models of the NestJS API in `src/` (TypeORM on PostgreSQL, a two-tier
cache on Redis, BullMQ, Passport JWT, a file-storage library), the TLC
configurations that check them on small instances, and TLAPS proofs.
Source paths below are relative to `src/src/`.

## 1. Inventory

| Part | Source | State | Operations | What is hard |
|---|---|---|---|---|
| Sessions | `api/auth/services/*-auth.service.ts`, `api/auth/strategy/`, `api/auth/entities/session.entity.ts` | `sessions` table, blacklist in the cache, JWTs held by clients | sign-in, refresh, logout, guards | the rotation of the refresh hash is not awaited; two services share the table; logout writes two stores; blacklist key mismatch |
| Accounts | same services, `api/user/`, `api/admin-user/` | `users`, `admin_users` rows, verification and reset tokens | register, verify, resend, forgot, reset, change password, update, soft delete | `@BeforeUpdate` hashes an already hashed password; stale entity saves; stateless reset tokens; unique-index races |
| System set-up | `api/home/home.service.ts`, `hasAdmin`/`hasRole` and `createWithManager` of the two services | first role, first admin, two cache flags | initialStatus, systemSetup | check-then-act over a cache, invalidation before commit |
| Roles and policies | `api/role/`, `guards/policies.guard.ts`, `libs/casl/` | `roles` rows, role copied in the admin JWT | CRUD, CheckPolicies | permissions in a token are stale until the next refresh |
| Settings | `api/settings/` | `settings` rows, a private in-memory cache per process | get, set, updateWebsiteSetting | cache-aside fill races an update; read-modify-write through the cache; first-insert race |
| Files | `api/file/` | `files` rows, blobs on the disk | upload, uploadImage, delete, original | blob write not awaited before the row is saved; delete of blob and row not atomic |
| File-system library | `libs/filesystem/` | files, sidecar metadata, temporary-URL table, registered disks | put, stream, timed put, purge, temporary URL, upload interceptor | purge races renewal; nested listing; check-then-put; partial multi-file upload |
| E-mail queue | `background/queues/email-queue/`, `mail/` | BullMQ jobs | enqueue, process, retry | at-least-once delivery, retries, stalled jobs |
| Audit log | `api/audit-log/` | `audit_logs` rows | subscriber hooks, purge cron | row written on the next tick, outside the order of the transaction |
| Pagination | `utils/cursor.pagination.ts`, `utils/offset.pagination.ts`, `common/dto/` | none | build the page query, encode and decode cursors | cursors over several keys and directions; page counts |
| Validation and error filter | `decorators/`, `main.ts`, `filters/global-exception.filter.ts` | none | convert and check each property of a body, map errors to answers | conversions before checks, lists and nulls, nested errors, the filter's own errors |
| Infrastructure | `config/`, `database/`, `i18n/`, `utils/`, `redis/`, `main.ts`, swagger and logger | configuration | start-up | pure configuration and I/O |

How they interact: controllers call services; services read and write
PostgreSQL through TypeORM (each statement its own transaction except in
`systemSetup`), the shared cache, and the e-mail queue; guards read the cache;
entity subscribers write the audit log; the error filter turns a violated
unique index into a 409. A handler runs until its next `await`; between two
awaits the handlers of all other requests run.

For each part, what makes it correct:

- Sessions: a replaced refresh hash never becomes valid again; a token works
  for the session and the account it was signed for; logout is final; a removed
  account gets no new tokens; nobody is locked out by the rotation alone.
- Accounts: the password last accepted opens the account; a link acts on its
  own account; one live account per e-mail; a removed account stays removed; a
  verified e-mail stays verified.
- System set-up: it happens once, entirely or not at all, and a cached "there is
  none" does not outlive its minute.
- Roles and policies: a permission taken from a role is gone for its holders;
  a role in use is not removed under them.
- Settings: an answer older than the cache's lifetime is never given; an update
  does not undo another.
- Files: a row and its file are created and deleted together, or the
  difference has a known cause and an end.
- File-system library: every driver is the same abstract disk; what expired is
  deleted, what was renewed is not; two uploads do not overwrite each other.
- E-mail queue: a mail is sent or its job is finally failed, at most three
  attempts, one at a time.
- Audit log: an entry for every committed change and for no other.
- Pagination: the pages of an unchanged list are its partition, in order.
- Validation and error filter: a handler gets what its code can take, and who is
  rejected is told why.

## 2. Modules

| Module | Of | Kind |
|---|---|---|
| `Sessions` | sessions of both services, guards, account removal | detailed specification |
| `SessionLifecycle` | what the table promises | abstract specification, implemented by `Sessions` |
| `Accounts` | the rows of users and administrators | detailed specification |
| `SystemSetup` | the first role and administrator, and the cached questions | detailed specification |
| `FileStore` | `upload` and `delete` of the file service over the local disk | detailed specification |
| `Disk` | what the storage interface promises: a dictionary | abstract specification, implemented by the drivers but Google Drive's |
| `DiskState` | calls in progress on a disk, expiries, what a caller expects | shared by the drivers |
| `LocalDriver`, `MemoryDrivers`, `S3Driver`, `DropboxDriver`, `DriveDriver` | one driver each; memory and read-only together | one request to the store per action |
| `Disks` | a disk of any driver, called by several clients | composition of the five |
| `Uploads` | the four ways a file is uploaded, to one disk | detailed specification |
| `ServerState` | what the parts of a server process share; what a restart empties | shared by the next four |
| `Settings`, `AuditLog`, `MailQueue`, `Policies` | settings and their cache; audit entries of `systemSetup`; mail jobs; roles, permissions and tokens | components |
| `Server` | the four in one process that restarts | composition |
| `Pages` | cursor and offset pages, walked by a client | detailed specification |
| `Fields`, `Forms` | field decorators as operators; pipe, handler and error filter around them | pure functions, specification |
| `Requests` | what a client is answered: a list or a form | composition of `Pages` and `Forms` |
| `SessionsProofs`, `AccountsProofs`, `SystemSetupProofs`, `FileStoreProofs`, `DisksProofs`, `UploadsProofs`, `ServerProofs`, `RequestsProofs` | theorems about the module they extend | proofs |
| `MC...` | model values, constant definitions and symmetry for TLC | instances |

Definitions named `X_Y` beside a definition `X`, commented "Mutant", are wrong
variants of `X`; nothing uses them. Each property is violated when one of them
takes the place of `X`, which shows that the property constrains the code.

### Conventions

- A handler is a record in `req`, whose `pc` names the `await` it stands at and
  whose other fields are its local variables. One action runs a handler from
  one `await` to the next; a handler that answers goes back to `Idle`.
- `FailIO` (`Fault`, `Fail`, `SettingFails`, `Rollback`) rejects the promise a
  handler awaits; `Crash` (`Restart`) restarts the process. What the database,
  Redis and disks hold survives, handlers and the process's memory do not.
- A call that is not awaited is a message of its own (`updates`, `dels`,
  `put`), executed later, in any order, or lost. An unhandled rejection does not
  stop the process: Sentry, initialised in `instrument.ts`, handles the event.
- There is one API process. The two tiers of its shared cache (memory and
  Redis) are one store; the cache of the settings is this process's memory.
- Variables after the comment "history", and the record `ghost` of the later
  modules, record what happened. No guard reads them (with one exception:
  `setups` in `Create` of `SystemSetup` stands for "somebody can be signed in").
- A property may name its exceptions: states the code does reach, each with the
  cause it has. `StaleWrite`, `Diverges`, `Confused`, `Blurred` and `Shifted` are
  such lists. What is not in the list does not happen.

### Sessions

| Variable | Code |
|---|---|
| `session` | `sessions` rows: hash, userId, userType |
| `updates` | the UPDATEs that `refreshToken` sends without awaiting them |
| `cache` | blacklist entries, with the token whose expiry is their time to live |
| `access` | token pairs whose access token is still valid |
| `active` | accounts that are not soft-deleted |

`SignInFind`, `SignInSave`, `CreateToken` are `signIn` / `login`;
`RefreshRead`, `RefreshRotate`, `RefreshOwnerGone`, `CreateToken` are
`refreshToken`, whose UPDATE is `ApplyUpdate` or `LoseUpdate`; `LogoutBlacklist`
and `LogoutDelete` are `logout`, behind a guard (`GuardAccepts`) that reads the
key of the Passport strategies. `AccessExpires` is the clock. A random hash is
the next number, and access tokens of one kind expire in the order in which they
were signed. `SessionLifecycle` has three actions: open, rotate, close.

### Accounts

| Variable | Code |
|---|---|
| `row` | `users` and `admin_users`: e-mail, password hash, verified_at, deleted_at |
| `tokens` | signed verification and reset links that were mailed |
| `chosen`, `spoiled` | history: the password last accepted; whether a re-hashing save came after |

A password value is the text it started from and how often it was hashed, so
the hook that hashes a loaded hash can be told from one that hashes a new
password. `save()` is modelled as TypeORM does it: it loads the row again,
compares it with the entity and writes every column that differs, which is why a
stale entity undoes what others wrote, `deleted_at` included; a property that
was deleted from the entity is not written. The partial unique index
(`deleted_at IS NULL`) is a guard of `Insert` and `Save`. `signUp` of a user
always fails in the database, because `first_name` is NOT NULL and the handler
does not set it; `verify/email` of a user always ends with 410, because the
controller passes the whole query object for the token.

### SystemSetup

| Variable | Code |
|---|---|
| `live` | names of the committed live rows of `roles` and `admin_users` |
| `cache` | the flags SYSTEM_HAS_ROLE and SYSTEM_HAS_ADMIN |
| `dels` | deletions of a flag that nobody awaits |
| `setups`, `touched` | history: successful set-ups; other writes of the tables |

`Arrive` starts both questions together (`Promise.all`), which then go on in any
order (`ProbeGet`, `ProbeCount`, `ProbeSet`). The transaction holds its rows
back until `Commit`; an INSERT of a name that another transaction holds waits
(`HeldRole`, `HeldAdmin`).

### FileStore

| Variable | Code |
|---|---|
| `rows` | public ids in `files` |
| `blob` | the file on the disk: absent, partial or whole |
| `put` | the write that `upload` starts and does not await |
| `broken`, `unsaved`, `cut`, `gone` | history: failed writes, uploads without a row, deletes that stopped half-way, answered deletes |

### Disks

| Variable | Code |
|---|---|
| `driver` | the configured driver, one of six, chosen once |
| `store` | the files of every path; a set, because Google Drive keeps files of one name side by side |
| `exp` | the expiry on record: the sidecar of a local file, the tag of an S3 object, the entry of the index Dropbox and Drive keep on the server |
| `hasDir` | whether the one directory exists (local disk) |
| `op`, `ops` | the call each client has in progress, with its local variables; calls so far |
| `ghost` | history: what a caller expects, what a sweep missed or deleted too early |

Each driver module has an action per request its methods send (an `fs` call,
`HeadObject`, `filesUpload`, `files.list`, ...), in the method's order, with the
errors the driver swallows: a failed read that counts as an empty file
(`LocalRead`, `S3Get`, `DropboxGet`, `DriveGet`), an index that cannot be read or
parsed (`DropboxReadIndex`, `DriveSweep`, ...), whatever fails while a sweep deletes
(`LocalSweepFails`, `DropboxDeleteFails`, `DriveSweepFails`). Between two requests any
other call may go on, `Fault` ends a call half-way, and `Expire` lets an expiry pass.
`writeFile`, `createWriteStream` and `copyFile` are two steps each: `LocalOpen` creates
or empties the file, and possibly writes a part, `LocalWrite` writes the open file,
whatever its name is by then; a call that stops in between leaves the part. The write
of a sidecar or an index that stops half-way leaves what is no JSON (`Torn`).
`rm -r` is a listing, one step per file, and the directory.

A content is a sequence of chunks, the strings and Buffers that calls brought. Those of
the calls in `Binary` are no UTF-8 and do not survive `toString`: `Decoded` makes
other chunks of them. `prepend` of the local driver decodes what it read, `prepend`
and `append` of Dropbox and Google Drive do so when they are given a string
(`Decodes`). A listing of S3 is one page of `PageSize` keys (`S3Pages`), and
`deleteDirectory` deletes no more than that; its sweep follows the pages, which the
model lists at one moment. `ServicePutTimed` and `ServicePutStream` are what
`FileStorageService` does for drivers without the method. `SameMeaning` relates the
answers of `get`, `exists`, `getMetadata` and `listFiles` to a dictionary;
`ImplementsDisk` relates every step to `Disk`.

### Uploads

| Variable | Code |
|---|---|
| `disk`, `temps` | the files of the disk and of the temporary directory, with the upload their bytes come from |
| `clock` | `Date.now()`, which is part of temporary and of stamped names |
| `req` | the requests: step, files, counter of the candidate name, temporary files, the bytes being written, what `finally` has left to remove, what was stored |
| `ghost` | history: who overlapped whom, names given twice, temporary files that could not be removed, names that were taken for free by a failed check |

`Receive`, `Received`, `MulterGivesUp`, `Validate`, `Probe`, `ProbeFails`,
`OpenStream`, `PutStream`, `Unlink`, `Cleanup`, `CleanupFails`, `End` are
`FileUploadInterceptor.intercept`; `ValidateFile`, `NameVariant`, `OpenFile`,
`PutVariant` are `uploadImage` (the image, its sizes, its thumbnail), `uploadFile`
and, without a validation, `FileStorageInterceptor` and `FileToDiskPipe`.
A file is opened, which empties it, and then written; a failure or a restart in
between leaves it without all its bytes (`<<request, 0>>`). `exists` answers "no"
for every error, so a failed check makes a taken name a free one (`ProbeFails`); the
`finally` block ignores the errors of its removals (`CleanupFails`); `multer`,
which gives up, removes the files it has written and may fail at that, too.
`StreamError` is the read stream of a temporary file that is gone or cannot be
opened or read: nobody listens to its error, which ends the process.

### Server

| Variable | Code |
|---|---|
| `mix` | which calls are made side by side, chosen once |
| `call`, `calls`, `restarts` | the calls in progress; bounds |
| `row`, `cache` | `settings` row of one key and its entry in `cache-manager`'s memory |
| `pending`, `log`, `changes` | `setImmediate` callbacks of the subscriber, `audit_logs`, committed inserts |
| `jobs`, `worker` | BullMQ jobs in Redis; the processor's current job |
| `role`, `holder` | `roles` rows; the role of one administrator |
| `tokens`, `lost` | access tokens of that administrator with a copy of the role; how long ago each permission was lost |
| `ghost` | history: overlapping and answered updates, a raced entry, late audit entries |

The value of a setting gives, for every field, the number of the update that
wrote it, so a lost update shows. `updateWebsiteSetting` is a `get` that goes on
to `FindRow`, `SaveRow`, `DelEntry`. An audit entry is saved through the query
runner of its statement: within the transaction while it is open, by itself
between its end and `release`, and not at all after that. A job is `Pick`ed,
`Send`s its mail, and is `Complete`d or `Refuse`d; `Stalled` is BullMQ's check for
jobs whose worker is gone. `Tick` ages tokens; that no tick falls between the read
and the signature of one sign-in or refresh is an assumption. `AssignRole` sets
`roleId` on an entity whose eager `role` was loaded with it, and TypeORM's save takes
the column from the loaded relation: an administrator whose role is still there
keeps it, and gets the new one only after the old one was removed (`LoadHeld`).

### Requests

| Variable | Code |
|---|---|
| `query`, `stamp`, `table`, `changes` | the request's order and limit; the dates of rows, in milliseconds and microseconds; the rows there are |
| `walk` | the page the client has, its cursors or its number, the page it left |
| `seen`, `stayed`, `match` | history: rows shown, rows there all along, whether a page that should be equal was |
| `form` | a body with one property: the value sent, the value converted, what was thrown, the answer |

`Ordered` gives every order the database may answer in, `CursorQuery` the WHERE of
`buildCursorQuery`, `Page` the rest of `paginate`. `FieldOf` of `Fields` gives for each
decorator its type, transformations and checks, `Converted` and `Validate` run
them, `case` being the `toLowerCase` and `toUpperCase` options, and `Throws` says what a
transformation throws at: `String`, `Number` and `Date` of an object without a `toString`, the
change of case of a null in a list; `ExtractErrors` is the filter's function of that
name, unfolded to the depth that validation errors have (a property, an item, a property
of the item), and `Status` its choice of status. Errors are a set: class-validator
promises no order.
A property that was not sent is absent from the DTO, because the build (swc)
does not define class fields that have no value. `OffsetPaginationDto` computes
`nextPage` before `totalPages`, so it is never there, and the client of the model
counts. A nullable `EmailField` that is not optional still does not accept null,
because `ToLowerCase` makes it undefined. `Unprocessable` thrown with a text makes the filter itself throw,
which ends as 500.

## 3. Runs

| Run | Instance | Result |
|---|---|---|
| `sessions_owners` | two sessions, a user and an administrator with one id, 2 requests, 3 hashes | holds: owners, final logout, order of logout's two stores, silence after removal, refinement of `SessionLifecycle` |
| `sessions_rotation` | one session of a user, 4 hashes, 2 requests, fair | holds: reordered and lost UPDATEs revive no old token and lock nobody out; every token handed out becomes valid, or its UPDATE fails, or the session is deleted |
| `sessions_force_logout` | both kinds, one session, 2 requests | violated: the guards read another key than logout writes |
| `accounts_emails` | two rows, two e-mails, 2 requests | holds: one live row per e-mail; only a handler that loaded the row before revives it |
| `accounts_kinds` | a user and an administrator with one id, two passwords, 2 requests | holds: the last accepted password works, except after a re-hashing save; links act on their own account |
| `system_setup` | two requests, one role name, one e-mail, fair | holds: all or nothing; a stale "none" is not renewed and leaves the cache for good; one known table closes the set-up |
| `file_store` | three requests, three files | holds: deletion is complete; rows without a file and files without a row have a named cause |
| `disks` | each of six drivers, 3 calls, 3 clients, a file in a directory and one beside it, the first and third content no UTF-8, pages of one key | holds: every step is one a caller asked for, or one of those named; without overlaps the drivers answer alike; a sweep deletes what has expired and nothing else (972,995 states) |
| `disks_visibility` | the same | violated: `setVisibility` on S3 empties the object |
| `uploads` | 2 requests, up to 2 files, an image alone or with one size asked twice, names "a" and "a(1)", 2 ticks, 1 fault | holds: temporary files go; no file of a rejected request is stored; answered files stay; no request loses a temporary file it has still to store, unless two have one name in one millisecond (6,583,269 states) |
| `server` | four mixes of calls: settings (3), mails (2), set-ups (2), roles and sign-ins (3); 2 at a time, 2 restarts; fair worker | holds: stale entries and lost updates have the named races; the log tells no lies but late ones; jobs end as reported; a lost permission is refused a token life later; every mail is settled |
| `requests` | 3 rows, 4 dates (two in one millisecond, one null), limits 1 and 2, one change; every field decorator, option and kind of value | holds: walks show every row once, both ways; handlers get what fits; rejections point into what was sent |

Exceptions. Some sentences of the code are not true of every execution. The
passing properties name the executions, so that the rest is checked:

- "Reset password successfully. Please login": a user's later profile edit, or
  an administrator's `verifyEmail`, hashes the hash it loaded (`@BeforeUpdate`);
  `LatestPasswordWorks` excludes accounts in `spoiled`.
- "Your account has been verified": a stale save writes the old `verified_at`,
  and even the old `deleted_at`, back; `RemovedStaysRemoved` names the handlers.
- "System has already been initialized": two set-ups succeed when both asked before
  one committed, or through a "none" cached between invalidation and commit;
  `SetupClosed` says from when on none does.
- "Delete file by publicId": a row whose file is missing cannot be deleted;
  `MissingFilesAreExplained` gives the causes of such rows.
- The drivers are interchangeable: except `Diverges` (moving a buffered file onto
  itself loses it, prefix instead of directory in two drivers, `setVisibility` on S3,
  copies and moves on Google Drive, and a `prepend` or `append` that decodes bytes
  which are no UTF-8: from then on `SameMeaning` expects nothing), deletions on S3
  of more than a page, and `Confused` (names in two directories of Drive, nested names
  in the recursive listing of a local disk, listings of more than a page on S3).
- "Prepend content to a file": what was read may be old, empty after a failed read, or
  decoded by the time it is written. `ImplementsDisk` says of such a write (`Raced`) that it
  has the call's chunk and what the call read, and of the opening of a local file
  (`Begins`) that it leaves a part of what will be written, or an empty file.
- A sweep spares what is not due: except that the sidecar of a local file, and the
  index of Dropbox and Drive, outlive a `put` that renews the file without an expiry.
- Uploads keep each other's files: except those that overlap, those of the
  ways that never look for a free name, and those put under a taken name because the
  check for it failed. An image for which one size is asked twice may put both
  variants under one name, within a millisecond; files of one request to the
  interceptor overwrite each other only if such a check failed.
- "Clean up any remaining temp files (on error or after upload)": every error of a
  removal is ignored, so a temporary file whose removal fails stays; `TempsAreCleaned`
  names it, as it does those of requests lost with the process.
- A rejected request has an explanation, except for the values in `Unusable`: a null in
  a list of a field that changes the case of its texts, and an object that no text,
  number or date can be made of, end as 500 (`RejectionsAreExplained`).

Bounds. Two requests suffice for a race between any two handlers; three are used
where the race needs a third to observe it (two deletes and an upload; a read,
an update and the read that is answered wrongly; a put, its expiry or renewal,
and a sweep). Three hashes are a sign-in and two refreshes, which is what it
takes to reorder two UPDATEs; the fourth shows a chain in which the loser of the
race goes on. Two account rows of one kind are what it takes to move an e-mail
from one to the other, one row of each kind what it takes to confuse kinds. One
role name is enough for `system_setup`, because roles are removed and created
again. The two paths of `disks` are the least on which a directory, a name's
prefix and a basename differ; with three clients all three calls may overlap, and of
the three contents the first and the last are no UTF-8, so that a string is put to such bytes and they are put to a string (`disks` was
run once with every other choice of `Binary`, with two clients, and `uploads` once with two
faults: 22,390,985 states, no error). The names "a" and "a(1)" make the second candidate
of one upload the first of another. Two mails make one wait for the other; three
attempts and one stall are the values of the code and of BullMQ; two restarts
use the stall up. A token that lives two ticks can be signed between two changes of a role.
Three rows and a limit of one make a page between two others, and two dates in one
millisecond are what a cursor cannot tell apart. Permissions of `server` are one:
`RevocationTakesEffect` speaks of sets, its theorem covers any.

The bounds (`MaxSessions`, `MaxMints`, `MaxOps`, `MaxCalls` and each mix's `max`,
`MaxFiles`, `MaxClock`, `MaxFaults`, `MaxRestarts`, `MaxChanges`, the ids) end
actions that add something. Deadlock is checked where a handler that waits
forever would be one (`Accounts`, `SystemSetup`). The other configurations turn
the check off because the system may really stop there: all sessions closed and no
hash left, all files deleted, every call made and answered, the last page shown.
Requests and clients are symmetric where nothing but equality is asked of them;
runs with a liveness property use no symmetry.

Fairness. `FairSpec` of `Sessions`: the event loop resumes a handler whose await
was answered, and PostgreSQL answers each statement, by executing or rejecting
it (`ApplyUpdate \/ LoseUpdate`). `FairSpec` of `SystemSetup` adds that cache
entries expire and that Redis answers a deletion one way or the other. `Spec` of
`Server`: the processor's promise ends (`Complete \/ Refuse`), BullMQ's delayed and
stalled checks run (`BackoffOver`, `Stalled`), each weakly fair; and a waiting job
is picked under strong fairness, because the worker, busy with others in between,
takes jobs first in, first out, and a job that failed waits for its backoff. A crash is never
forced, restarts are bounded, and nothing forces a request to arrive; a failure counts as an answer.

## 4. Proofs

TLAPS proves the following for every number of requests, sessions, hashes,
accounts, e-mails, passwords, files, paths, clients, calls, fields, roles, permissions,
ticks, rows, dates and values sent, under the assumptions named in the modules:

- `SessionsAssumption`, `AccountsAssumption`, `SetupAssumption`, `FilesAssumption`,
  `UploadsAssumption`, `ServerAssumption`: bounds are natural numbers, a token lives and
  a job is tried at least once, there is a role, kinds and ways are those of the code, an
  image has a directory, the absent value is not a row.
- `DiskAssumption`: there is a path, the basename of a path is a path, the paths in
  the directory start with its prefix, and a page of S3 holds a key at least.
- `PagesAssumption`: ids are numbers, dates are milliseconds and microseconds, only the
  null has the null's milliseconds, a table is finite, a page has at least one row, and
  pagination keys are distinct and are the id or the date.
- `FormsAssumption`: a body's property is a null, a text, a number that is one, a boolean,
  an object, a list of these, or absent: what JSON can hold, one level deep. Lists of
  lists are left out.

- `Sessions`: `TypeOK`, `TokensStayWithOwner`, `DeletedStaysDeleted`,
  `SupersededNeverReturns`, `SpentTokenDies`, `QuietAfterRemoval`, `NoLockout`,
  `LogoutBlacklistsFirst`, and that `Sessions` implements `SessionLifecycle`.
  Two inductive invariants carry most of them.
  `OwnersInv` says that a row, a pending UPDATE, a deleted session and a token all
  belong to a session that was opened, by the account they name, and that serial
  numbers not yet used are unused everywhere. `RotationInv` keeps hashes apart:
  each is in one place, the row of one session, one pending UPDATE or the past,
  so an UPDATE that lands late brings a hash that was never there before.
  `KnownInv` adds to `NoLockout` that the hashes of pending UPDATEs, too, are held by a
  client, about to be, or missed through a crash. `BlacklistInv` says that a session whose
  row is gone, or about to go, is on the blacklist or has an expired access token;
  it needs that no two tokens have one hash (`SigningApart`).
- `Accounts`: `TypeOK`, `LatestPasswordWorks`, `LinksActOnTheirAccount`,
  `OneLiveAccountPerEmail`, `RemovedStaysRemoved`. The invariant adds to the rows
  what only the handlers know (`HandlerOK`): the row a handler loaded still exists,
  a reset or a change is about to save a plain password, an administrator's
  edit saves none, and a handler that a link let in acts on the account of the link.
- `SystemSetup`: `TypeOK`, `AllOrNothing`, `StalenessIsNotRenewed`,
  `SetupClosed`. The type invariant is enough: the argument is about one step,
  and the lemmas about the three steps of a question carry it.
- `FileStore`: `TypeOK`, `DeletedMeansGone`, `MissingFilesAreExplained`,
  `OrphansComeFromUploads`. The invariant adds that public ids not yet given are
  unused, that an upload alone knows its file until the row is saved, that a
  delete past its unlink has no file, and that no write is just issued where the file exists.
- `Disks`: types, `ImplementsDisk`, `SameMeaning`, `SweepSparesCurrent`, `SweepFindsAll`.
  The types say at which step a call holds what. The refinement goes request by
  request: each either leaves the contents alone or changes them as an operation its
  caller asked for may, or as one of the named exceptions; a sweep and a recursive delete
  need that what they hold in hand was listed under their prefix (`ListedIsPrefixed`), and the
  write of an open local file that no two paths have one inode and that a call which has
  opened nothing has created nothing (`Inodes`). The other three speak of histories
  without overlaps, in which one call at most is in progress (`Alone`). `ContentsSound` says for
  every step of a call how the contents stand to those its caller expects, and that what the
  call has read is still so: of a local file that is open, that the others are as they were
  (`Half`), and what it held before (`Old`). It is the longest of the proofs, a case per
  request of each driver. `ExpiriesSound` says that an expiry on record is the one that
  is due, except for the paths that the call in progress will bring up to date, what a
  call has read of an index, and what a sweep has still to delete.
- `Server`: types, `StaleEntriesComeFromRaces`, `QuietUpdatesLast`, `LogNeverLies`,
  `SentAsReported`, `RevocationTakesEffect`. The components share nothing but the
  process, so the argument has two layers: a step moves calls of its own kinds only
  (`Only`), and the invariant of a component is kept by its own steps and by whatever
  moves other calls (the `...Frame` lemmas). The invariants say where the mail of a job
  may have been counted (`MailInv`), which entries a set-up has made at each of its steps (`LogInv`), that
  the age of a loss and the rest of a token's life add up (`LossInv`), and that a quiet
  update is in the row, the entry and whatever later calls have read (`LastInv`).
- `Uploads`: types and phases, `TempsAreCleaned`, `FilesToStoreAreThere`,
  `EveryFileIsClaimed`, `AnsweredFilesAreKept`.
  `HeldInv`: every temporary file is held by a request that will still remove it.
  `ClashInv`: a name given twice is recorded as a clash, and the temporary file
  a request has still to store is there unless its name clashes.
  `TracedInv` ties the bytes of a temporary file to the request and the index that hold it;
  with it `ClaimInv` says of every file whose bytes it has, all or a part, and that the
  request of these will answer it, or ended otherwise.
  `AnsweredFilesAreKept` needs more than the answered requests: `KeptInv` says of every file
  put so far what may be under its name (`Excused`), and that whoever has chosen that name and
  not yet written under it (`Aims`) has met its request or took the name blindly; requests
  that are in progress at once have met (`MetInv`); `StampInv` bounds the time in a name
  by the time its request was there.
- `Pages`: `WalkSeesEveryRow` and `PagesMatchBothWays`. A row is clear if a cursor tells it
  from every other. Where the row of a request is clear, the WHERE of its cursor is
  exact (`CursorsAreExact`): it holds of the rows ordered after the cursor's row and of no
  others, in either direction. `CursorWalk` says that the clear rows that stayed have been shown
  once if they are not beyond the cursor, and never if they are; that beyond a row
  beyond a cursor is beyond the cursor carries it over a page, whatever comes and goes. For
  offsets, a row's place in an order without ties is the number of rows ahead of it
  (`PlaceOfRow`), so every answer of the database has it there, and `OffsetWalk` says that the
  pages counted so far have shown just the rows with fewer rows ahead than they hold.
  For pages that match, `Neighbours` says what a page's cursors are worth: of the rows not
  beyond its last, the page's come first when read backwards, and likewise those of the page
  that was left, seen from this one. Rows that come first are one set (`OneHead`), and there is
  one order of them (`OneOrder`), so the page that comes back is the page that was left.
- `Forms`: `AcceptedValuesFit` and `RejectionsAreExplained`. The invariant says what each
  phase holds: a value that fits its field before a handler; once thrown, errors with at least
  one detail, each at a path into the value sent, or a value that is `Unusable`. The lemmas
  go through the decorators: which checks each has, what it skips, and what a value is
  that survives conversion and checks.

Only model-checked: `IssuedTokenHasItsTurn`, `StalenessEnds` and `MailsAreSettled`, which are
liveness properties under fairness; the prover does not reach those.
The violated properties are false, with the counterexamples of the runs.

## 5. Findings

1. A logged-out access token is accepted until it expires: logout writes
   `auth:session-blacklist:<id>`, the strategies read `session_blacklist:<id>`
   (`sessions_force_logout`).
2. `setVisibility` on S3 puts an empty object, against its comment (`disks_visibility`).

The exceptions under "Runs" describe other behaviour of the code that its
callers may not expect.

## 6. Plan

What is left, in this order:

1. Temporary URLs: the table in memory, the links, their timers, a restart; listing of
   directories.
2. The audit log of statements outside of a transaction, with the purge cron.
3. Several API processes: the settings' caches and the memory tiers of the shared cache differ.

Runs are to stay below ten million states and a few minutes.

## 7. Not modelled

- Temporary URLs and links, `listDirectories`, `createReadStream` and `url` of the disks,
  and disks registered at run time. A `putTimed` without an expiry is a `put`.
- A worker that stalls while it still works, and then a second one with the same job.
- The audit entries of single-statement saves, their texts, and the purge cron.
- `skipCount` and `takeAll` of offset pages.
- In `Forms`, bodies with lists in lists, and the fields of an object beyond one.
- Image transformation: no route calls it, and what it does is decided by sharp.
- Health checks, start-up, configuration, logging, API documentation,
  migrations and seeds other than the indexes and constraints the modules use: no
  state that changes at run time.
- Several API processes.
- Error texts and translations: `Forms` models which status and which paths an
  error has, the other modules "the request ends with an error".
