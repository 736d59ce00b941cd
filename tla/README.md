# Mikrotik CPE Cloud in TLA+

Specifications of the server in `src/app`, checked by TLC on small instances and
proved by TLAPS for every size where a proof is within reach. Paths below are
relative to the repository.

## 1. The system

A fleet of Mikrotik routers enrolls with one FastAPI process. The process keeps
the fleet in Postgres, renders the enabled routers as peers into
`/etc/wireguard/wg0.conf`, has a root helper load that file into the kernel, and
takes a heartbeat from every router each five minutes, part of which goes to
InfluxDB.

```
 device scripts --POST /auto-enroll--> auto_enroll --rows, tokens--> Postgres
      |                                    |                            ^
      |                                    +--sync_from_db--> wg0.conf --> helper --> wg0
      |                                                         ^
      |            operator: python -m app.cli wg sync ---------+
      +--POST /api/v1/telemetry--> telemetry --last_seen_at--> Postgres
      |                                    +--points--> InfluxDB
      +--GET /factory/self-enroll.rsc--> factory --use_count--> Postgres
                   operator: app.cli fetch-tokens mint|revoke|list --^
```

| component | state it keeps | operations | what makes it correct |
|---|---|---|---|
| auto-enroll (`routers/auto_enroll.py`) | rows of `routers`, `router_tokens`, `audit_log` | one handler: gates, find, insert or update, tokens, commit, sync, audit, answer | one row and one address per router for good; exactly one valid token; the answer names what is committed; no status is changed |
| overlay addresses (`services/wireguard.py`) | `routers.wg_overlay_ip` | `allocate_overlay_ip` | distinct, never the server's, kept by re-enrollment |
| WireGuard sync (`services/wireguard.py`, helper of `INSTALL.md` section 9) | `wg0.conf`, temporary files, wg0 | `sync_from_db`, from handlers and from the command | file always whole; block above the marker kept; peers genuine; repaired by one quiet sync |
| rate limiter (`services/rate_limit.py`) | `_buckets` | `check_rate_limit` | bounded bursts; no starvation |
| fetch tokens (`services/tokens.py`, `cli.py`) and `routers/factory.py` | `admin_fetch_tokens` | mint, revoke, list, download | dead tokens stay dead; uses are recorded |
| telemetry (`routers/telemetry.py`) | `routers.last_seen_at` | one handler | no trace of routers shut out; 204 iff committed; `last_seen_at` goes back only by overlap; scripts of every generation are heard |
| InfluxDB writer (`services/influx.py`) | singleton client, points | `get_client`, `write_telemetry`, `close_client` | never turns a heartbeat into an error; stores what was measured, all of it and nothing else |
| database session (`db.py`) | engine, its pool, sessions | `get_session` | rolls back on error; nobody waits for ever for a connection |
| device scripts (`templates/rsc`) | flag file, key, schedulers | enroll loop, provision import, telemetry push | a router that is enrolled can report |
| manual enrollment, health, settings, migrations, dashboards, deploy scripts | - | stubs, wiring, constants | - |

What is hard here:

* **Interleaving.** A handler is one asyncio task and gives way at every `await`:
  each SQL statement, the thread pool, the helper process, InfluxDB. Handlers
  share tables, files and the kernel, and the command `wg sync` is another process.
* **Postgres at READ COMMITTED.** A statement sees what is committed when it
  starts; one that writes waits for writers of the same row or UNIQUE value.
  SQLAlchemy flushes before a SELECT and writes only the columns whose value
  differs from what was loaded.
* **Failure between steps.** The commit precedes the sync; the sync replaces a
  file before the helper runs; `last_seen_at` is committed before InfluxDB is asked.
* **Retries.** Devices repeat an enrollment every ten minutes until a flag file is there.
* **Time.** Token buckets, expiries, and timestamps taken before they are written.

`PROJECT.json` lists these hazards at their lines, with the properties that watch them.

## 2. The modules

| module | models | grain |
|---|---|---|
| `AutoEnroll` | `/auto-enroll`, `allocate_overlay_ip`, `sync_from_db`, `app.cli wg sync`, Postgres locking, crash, reboot, operators | one action per stretch between two awaits |
| `Inventory` | what enrollment promises: the abstract specification that `AutoEnroll` implements | one action per enrollment |
| `Mirror` | what the synchronisation of wg0 promises: the abstract specification that `WgSync` and `AutoEnroll` both implement | one action per step of the peers |
| `WgSync` | `sync_from_db` against the file system: block, `mkstemp`, write, rename, helper | one action per file operation |
| `RateLimit` | `TokenBucket`, `check_rate_limit` | one action per check |
| `FetchTokens` | `fetch-tokens mint/revoke/list`, `/factory/self-enroll.rsc` | one action per statement |
| `Telemetry` | `/api/v1/telemetry` and the InfluxDB write, against re-enrollment, status changes, deletion | one action per statement |
| `Heartbeat` | what a heartbeat reports: the telemetry scripts, the schema of the body, the uptime and the points | one action per hop; the rest are operators |
| `Device` | the scripts of a router: first boot, installer, enroll loop, import of the answer; requests to a server that hands tokens over as `AutoEnroll` does | one action per command that other runs can disturb |
| `AutoEnrollProofs`, `AutoEnrollPeerProofs`, `WgSyncProofs`, `RateLimitProofs`, `FetchTokensProofs`, `TelemetryProofs`, `HeartbeatProofs`, `DeviceProofs` | theorems and their proofs | |
| `MCAutoEnroll`, `MCWgSync`, `MCRateLimit`, `MCFetchTokens`, `MCTelemetry`, `MCHeartbeat`, `MCDevice` | instances for TLC | |

Operators whose comment begins with "Mutant" are faulty versions of the action
they precede. No specification uses them; substituted for the original, each
makes TLC report the property it is paired with in `PROJECT.json`.

### AutoEnroll

`routers`, `token` and `audit` are the committed tables; `conf` and `kernel` the peers in
`wg0.conf` and in wg0. `pc` says where a handler or command is. What a session
holds is `loaded` (the object a SELECT returned), `draft` (what the open transaction
has written), `seen` (the tokens to be revoked) and `image` (the peers a sync has
fetched, or its helper has read).

| action | code |
|---|---|
| `RateLimited`, `Reject`, `Admit` | the gates, `auto_enroll.py:239-288` |
| `Find` | the SELECT by serial number, 301 |
| `Allocate`, `Exhaust`, `Insert` | a new router, 306-326 and `wireguard.py:167-197` |
| `Update`, `FindTokens` | a known router, 327-349: the SELECT of the old tokens first flushes the changed row, which takes the row lock |
| `Commit` | 354-366 |
| `FetchPeers`, `WriteConf`, `HelperRead`, `HelperApply`, `SyncFails` | `sync_from_db` and 368-382 |
| `Answer` | 384-424 |
| `PoolTimeout` | no connection comes free: SQLAlchemy's pool gives up after 30 seconds (`db.py:18`) |
| `Hang` | a helper that does not end: `communicate()` has no timeout (`wireguard.py:216`) |
| `Fail`, `Crash`, `Reboot`, `SetStatus` | rollback, a service that dies, a host that restarts, an operator's UPDATE |

`Holding` are the transactions that have written; `Unblocked` says when a statement
need not wait for them, `Duplicate` when the UNIQUE constraints refuse it. `Changed` is
the dirty-column UPDATE. Names, keys and addresses are members of small sets; the
MAC address, which is UNIQUE too, travels with the serial number. A request
whose server key is not configured takes `Fail` after `Admit`: nothing is written before it.

`Connected` are the sessions that have a connection: from their first statement to the commit, and again from
the query of the sync to the closing audit entry, so that a hung helper keeps one. A handler that needs one needs `Room`.
The default pool has 15; instances have 2. The command `wg sync` is a process with a pool of its own.

### Inventory

An enrolled device has a record (address and status) for good and one valid credential; an enrollment replaces the
credential in one step with the record, or does nothing. `AutoEnroll` implements it under the mapping `Promised`: the
record is the committed row, a credential is the request that minted it, valid while its token is active. Only `Commit` and
`SetStatus` are steps of `Inventory`; whatever else a handler, a sync, a crash or a reboot does is a stutter.

### Mirror

A sync fetches the table, writes the file, reads it back for the kernel and applies what it has read; any number of syncs
may stop anywhere, a restart begins with the file, and the table changes at will. What a fetch, a write or a read moves, it moves whole.
`AutoEnroll` implements it under the mapping in which the table is the set of active peers, with the further promise that no table has
an address or a key twice (`Tables`); `WgSync` under the one that takes the peers out of file and kernel. So the one step
`WriteConf` of `AutoEnroll` stands for the block, the temporary file and the rename of `WgSync`: neither adds a behaviour that the
promise does not have.

### WgSync

The table is a version number and `wg0.conf` a pair of versions, of its
[Interface] block and of its peers, so that a mixed or stale file shows. `temp` has the
temporary files, `name` the one a run writes. `alone` and `contended` are history: whether
a run has been the only thing going on, and whether a sync was under way when the
last edit was saved.

### RateLimit

A bucket holds integer units so that fractions of a token can be in it: a check costs
`Cost`, a tick adds `Rate`. The code's bucket is `Capacity = 10 * Cost`. The lock of
`check_rate_limit` makes a check one step. `start`, `admitted` and `passed` are history: an
observer may begin to count at any moment, and `passed` is when a check of the key passed last.

### FetchTokens

A raw token is the run of `mint` that printed it. A download reads the clock (`Arrive`),
looks the token up (`Find`), writes the incremented `use_count` it had loaded (`Count`)
and renders the installer (`Serve`). A revocation selects rows and updates them by
primary key. `hidden` and `late` are history: the
tokens that `list` has left out as inactive, and the downloads that came in with one.

### Telemetry

A heartbeat finds its token (`Find`), then its router (`Gate`), takes a timestamp (`Stamp`),
commits it (`Touch`), writes to InfluxDB or fails to (`Write`, `WriteFails`) and answers 204.
`Rotate` is the commit of an enrollment, as `TokenHandover` of `AutoEnroll` says it is.
`stale`, `shut`, `counted` and `rivals` are history; `rivals` has the heartbeats that were under way when
a router's `last_seen_at` was committed. Token and status are read at different
moments: a heartbeat that finds its token valid, and whose router is barred and
let in again before `Gate`, passes; so does one whose token is revoked after `Find`.
The property is therefore about what was shut out when it arrived.

### Heartbeat

A reading is what the commands of the telemetry script give; a guarded command that fails leaves its field out. `Push` makes the
body of it as the script of that generation does, `Receive` validates it, `Write` stores `Points(body)` in one call. JSON objects
are functions on the fields they have, so that "absent", which the schema and the builders do not tell from null, is
to be outside the domain. The scripts before today's are known from the schema's docstring
(`telemetry.py:156-165`) and from `tests/routers/test_telemetry.py:483`. `Measured` and `Told` take reading and points apart into
triples of a series, a field and a value, without the operators in between. `schema_version`, the tags that come from the
router's row, and how RouterOS prints numbers are left out. An uptime is the units that are printed and how many there are of each
(`Formatted`, `Parsed`): order and spelling are those of the regular expression (`influx.py:54-63`).

The scripts put texts between quotes as they are (`telemetry-wireless.rsc.j2:61-140`), so what a parser reads is not what the device
has: `Decoded` is what a text becomes, and `Broken` that it is not JSON. A quote breaks it, and so do a control character and a backslash that
escapes nothing; a backslash that does is read as something else. `Object` is what a script says, its texts read so. One broken value breaks
the whole request (`WellFormed`), and so does `/tool fetch` when it caps the payload (01-design, line 820): which scripts' requests it
cuts off is part of the reading (`cut`), as the code cannot know it. `Body` is the object, or `Unparsed`.

Readings are assumed to be what a router can say (`ReadingsAssumption`): the parts that are there are of their kind, interfaces have a
name, the identity and the version are always read. `FitsAssumption` adds that counters and memory do not go below zero, that a MAC
address is one, and that a frequency is a number within the schema, or `Broken`: `:tonum` may return nothing without failing. Nothing is assumed of what texts have in
them or of how long they are, of sensors, of how many interfaces there are, or of which commands fail.

Two simplifications remain. A text whose quotes end the field and go on with other well-formed fields would be read as these: here every
text with a quote is `Broken`. And the uptime is taken to fit its 32 characters, which it always does.

### Device

What persists on the router is variables: the three schedules and scripts, the interface, the file
`cpe-cloud-provision.rsc` with an answer (named by the run that asked for it), the telemetry script's token (`pusher`), the
flag. `pc` is where a run of a script is; a loss of power ends all runs and keeps the rest.
`req` and `valid` are the server: `Commit` is the transaction of an enrollment, `Refuse` an error before it, or a failed
sync after it, `Answer` the 200.

| action | code |
|---|---|
| `BootStart`, `BootRemove`, `Download` | `shelf-flash.rsc.j2:43-85` |
| `Unschedule`, `Unscript`, `AddScript`, `AddSchedule`, `Kick` | `factory-installer.rsc.j2:9-18, 112-121` |
| `Start`, `Wait`, `LookForInterface`, `MakeInterface`, `Post`, `Fetched`, `FetchFails` | `factory-installer.rsc.j2:21-95` |
| `Import`, `GiveUp`, `Tidy` | `factory-installer.rsc.j2:97-109`: the answer is imported twice |
| `ClearPusher`, `AddPusher`, `ClearPushSchedule`, `AddPushSchedule`, `RaiseFlag` | `provision.rsc.j2:61-93` |
| `CommandFails`, `PowerLoss` | faults, `MaxFaults` of them |

What is assumed of RouterOS is at the head of the module: a scheduler starts a script although an earlier run of
it is there, an `add` of a name that exists fails, an import reads its file when it begins. A run that waits for DNS takes
ten minutes and more (lines 30-40), and the schedule's interval is ten minutes: that is how runs overlap.
`solo` and `cut` are history: whether requests have overlapped, and which imports a fault has cut short. The code guards against neither the second
import of an answer nor that of an installer being cut short, so the properties leave these two cases out by `cut`, and section 3 says
what becomes of the device.

## 3. What the runs show

Runs that pass:

| run | instance | properties |
|---|---|---|
| `fleet` | 2 requests, 2 routers, 1 command, 3 hosts, 2 connections, crash, reboot, operator; 1.0 million states | `TypeOK`, `AddressesDistinct`, `AnswerStands`, `PeersGenuine`, `KernelUnambiguous`, `PendingIsNoPeer`, `StatusKept` |
| `reenroll` | 3 requests of 2 routers, 3 hosts, 2 connections, operator; 455 thousand | `OneActiveToken`, `TokenHandover`, `KeepsPromise` |
| `ends` | 3 requests, 2 connections, devices of one name and one bad secret; `FairSpec`; 71 thousand | `EveryRequestEnds` |
| `wgsync` | 3 syncs, 1 table change, 2 edits; 630 thousand | `TypeOK`, `FileWhole`, `NoStrayFiles`, `BlockSticks`, `SoloSyncRepairs`, `MirrorsTable` |
| `rate` | 2 buckets, capacity 2.5 checks, 8 ticks, 2 restarts; 690 thousand | `TypeOK`, `BurstBound`, `NeverStarved` |
| `fetch` | 2 tokens of one prefix, 1 revocation, 2 downloads, 2 ticks; 500 thousand | `TypeOK`, `HiddenIsDead`, `DeadTokenIsDead`, `UseIsRecorded`, `RevokedForGood` |
| `beats` | 3 heartbeats, 2 tokens of 1 router, 2 ticks; 1.25 million | `TypeOK`, `ShutOutLeavesNoTrace`, `CommittedIsAcknowledged`, `SeenGoesBackByOverlapOnly` |
| `heartbeat` | 3 generations of scripts, 190 readings of devices of both stacks; 5 thousand | `TypeOK`, `NothingIsInvented`, `NothingIsLost`, `OldScriptsAreHeard` |
| `device` | 2 first-boot runs, 2 enroll runs, 2 faults; 130 thousand | `TypeOK`, `SoloRunReports`, `SomeoneRetries`, `EnrolledPushes` |

Runs in which TLC refutes what a comment or document says:

| run | what is said | what happens |
|---|---|---|
| `sync` | wg0 is regenerated from the table (`wireguard.py:249-253`, `01-design:124`) | two successful enrollments leave wg0 without one of them until the next sync |
| `partial` | a partial payload still validates (`telemetry-wireless.rsc.j2:4-6`) | a script whose command for the serial number, board or MAC address failed sends an empty string, which the schema refuses: a device without an `ether1` gets 422 for every heartbeat and its `last_seen_at` never moves |
| `device_token` | the device retries until it is enrolled (`factory-installer.rsc.j2:112`, `provision.rsc.j2:89`) | of two enroll runs that overlap one installs the token that the other's request has revoked, and the flag file stops both: the device is silent until someone comes by |

Smaller disagreements have no run of their own:

* `wireguard.py:170-174` says that UNIQUE catches the race for an address and the caller retries once. Two unrelated first
  enrollments that are given one address are kept apart (`AddressesDistinct`), but nothing catches the second one's
  IntegrityError: it gets a 500 (`Insert` leads to "clash"), and its device tries again ten minutes later.
* `auto_enroll.py:328-330` says that re-enrollment rotates the public key. The UPDATE names only columns that differ from what was
  loaded (`Changed`): of two overlapping enrollments the later can commit its token and leave the other's key.
* `01-design-wireguard-and-telemetry.md:509` says that building strings by concatenation is "ugly but reliable". It is for texts that need no
  escaping: with a quote in the identity, a network's name or an interface's name every heartbeat is a 422, and with a backslash the text is
  stored as something else, or that is a 422 too (`OldScriptsAreHeard`, `NothingIsInvented`). The enroll script builds its request
  in the same way (`factory-installer.rsc.j2:66-74`): such a router is refused each time it enrolls.
* `01-design-wireguard-and-telemetry.md:820` says that fetch caps a request at about 4 KB and that one of more than 3 KB is to be split. The templates do not
  split it: what is cut off is refused whole.
* `telemetry-wireless.rsc.j2:123-124` says that the frequency is sent only if it is an integer. It is if `:tonum` fails on everything else; the model
  also has a `:tonum` that returns nothing, which sends the garbage that the comment is about.
* `influx.py:204-206` says that nothing is stored as a placeholder. The scripts send a radio whose `disabled` cannot be read as
  disabled (`telemetry-wifi.rsc.j2:104-116`); `NothingIsInvented` has this one exception.
* `telemetry-wireless.rsc.j2:17-19` says that the server updates its row from a heartbeat. It takes `last_seen_at` only;
  version and name are those of the last enrollment.
* `auto_enroll.py:69-71` says an identity outside the convention lands in "pending". The second router
  with the default name is refused by the UNIQUE constraint, for as long as the first keeps it (`Insert`).
* `secret.py:95-96` says `use_count` is recorded for audit. Two overlapping downloads count as one
  (`Count` adds to what `Find` loaded); `UseIsRecorded` is what holds.
* `provision.rsc.j2:8` says the answer is safe to import again. It is, unless the second import is cut short
  when the flag is up already: then the telemetry script may be gone for good. `SoloRunReports` is about all other cases.
* `shelf-flash.rsc.j2:43-45` takes the enroll script for proof that the installer was imported. When the import stops
  between that script and its scheduler, the first-boot script removes itself and nothing retries; `SomeoneRetries` is about
  all other cases.
* `rate_limit.py:42` says "10/min/key". `BurstBound` is what holds: a full bucket and the refill, so
  nearly 20 in the first minute.
* `wireguard.py:74-77` says manual [Interface] edits stick. An edit saved while a sync is between reading and
  replacing the file is overwritten; `BlockSticks` is about all others.
* `telemetry.py:307-308` says the liveness timestamp keeps advancing. Two overlapping heartbeats
  may commit in the other order, and it goes back until the next one.

### Bounds, and why they are enough

* `AutoEnroll`: every conflict the code can have is between two transactions, or
  between a sync and one other actor: two requests and one command show them. Token
  handover needs a row, an enrollment that is under way and one that overtakes it: three
  requests. Two connections make a third handler wait. Three hosts are the server and one each; two make the overlay run full.
  The payloads contain a renamed router, a new key, a shared default name and a bad secret.
  `audit` is a state of the log, not a counter. Nothing repeats: a request runs once.
* `WgSync`: three runs let one be overtaken twice; `MaxTable` and `MaxEdits` bound version
  numbers only. Temporary names: one per run.
* `RateLimit`: `MaxTime` of 8 ticks is four times what it takes to refill one check, and more than a bucket takes to fill.
  `Capacity` is no multiple of `Cost`, so that fractions matter. The proofs have no such bound on sizes.
* `Heartbeat`: a heartbeat does not depend on another. Each part of a reading is varied by itself and identity together
  with sensors: no rule of the schema or the builders looks at two fields. Values are at zero, negative, in range and beyond it;
  each guarded command fails alone, and all of them do. A quote, an escape, a text of 33 and one of 129 characters stand in the identity, in the name of a
  port, in the name of a radio and in its network's; a request is cut off for the newest script or the two that send more than an identity.
* `FetchTokens`: lifetimes of 0 and 1 with `MaxTime` 2 put an expiry before, at and after a check.
* `Device`: two runs of a script are what can disturb each other, and one after the other is a retry with what the
  first has left; two faults cut a run and its retry. Without faults `EnrolledPushes` was also checked with three enroll runs.
* `Telemetry`: two tokens are one handover; three heartbeats are one before, one during, one after.

Deadlock is checked in every run; a specification that may stop has the explicit
action `Finished`. Symmetry is used only in runs of invariants and of action properties.

### Fairness

`FairSpec` of `AutoEnroll` has weak fairness of each handler's steps and of each sync's. The
event loop runs a ready task, Postgres wakes a statement when the lock it waits for
is released, and the operating system runs the helper. A step that waits for a lock is disabled,
so weak fairness does not help it by itself: that it becomes enabled and stays so is what
`EveryRequestEnds` shows. Arrivals, failures, crashes, reboots and operators get no fairness.
A wait for a connection ends by `PoolTimeout`, which is a step of the
handler: the pool's default timeout. That the helper ends is not assumed: a request whose helper hangs counts as "hung", and the
property is that nobody else is.

## 4. What is proved

All proofs are for any values of the constants that meet the named assumptions.

**AutoEnrollProofs.** `OneActiveToken` is not inductive: nothing in it says why the tokens a
handler has selected are still the valid ones when it commits. `IInv` adds what the
transactions know while they hold locks:

* `Session(r)`: what a session has loaded has the address that the row has, at each label;
  after the commit the row is there, with that address.
* `Held(h)`: a transaction that has written has a draft that clashes with no other committed
  row; for a known router it has the row's address and status; and at `commit` its `seen` is
  exactly the set of valid tokens of its router.
* `Apart`: two such transactions are about different routers and share no UNIQUE value.

`Unblocked` gives `Apart` when a transaction starts to hold, and `Apart` keeps `Held` of the
others when one commits. From `IInv` follow `TypeCorrect`, `TokenUnique`,
`AddressesAreDistinct`, `AnswersStand`, and the action properties `AddressIsKept`, `StatusIsKept`
and `TokensAreHandedOver`.

`PromiseIsKept` is the refinement: `Spec => KeepsPromise`. The lemma `CommitEnrolls` is the step of a request that commits:
`Held` and `TokenUnique` say that its row is the record there was, or a fresh address, and that the credentials it
revokes are the ones that are valid; `SetStatusSets` is the operator's; every other action leaves the mapped variables alone.

**AutoEnrollPeerProofs.** `PeersAreGenuine` needs that everything between the table and the kernel, the images of syncs and helpers
and `wg0.conf`, holds pairs that were committed; `KernelIsUnambiguous` that each of these is the image of one state of the table, in
which rows share nothing; `PendingAreNoPeers` that a router that has always been pending was in none of them (it assumes that
an operator does not put a router back to "pending").

**WgSyncProofs.** `FileIsWhole`, `NoFilesStray`, `BlockStays` and `SoloRepairs` from one inductive invariant. `Names`: a run that
writes has a temporary file to itself. `Edited`: an edit saved between syncs is what every sync has read and carries. `Solo` and `Settled`: a
sync that is alone has the table as it is, and once one has ended well those that follow change nothing until the table or the
block does.

**RateLimitProofs.** `BurstIsBounded` needs that a bucket, refilled to now, plus what was admitted is
covered by the capacity and the refill since the observer started (`Account`); `NobodyIsStarved` that it holds all that has been
added since a check of its key passed, up to a full one (`Gained`), through any number of refusals. The products are split into lemmas
(`TickAdds`, `TickGains`, `Looked`) because the SMT solver does no non-linear arithmetic.

**FetchTokensProofs.** `HiddenTokensAreDead`: a row that was once inactive stays so, since `Count` and
`Revoke` leave the other columns alone and time moves on. `DeadTokensAreDead`: the token of a late
download is not valid at the clock the download carries to its lookup (`Late`). `UsesAreRecorded`: the uses of a row, and
what each session has loaded, are bounded by the number of downloads that have got
past their lookup (`PastGrows`, `Counting`). `RevocationIsFinal` is an action property.

**TelemetryProofs.** `ShutOutIsSilent`: a heartbeat that arrived shut out never gets past the gate,
as a revoked token stays revoked and a barred router barred until it is let in. `CommitIsAcknowledged`:
`counted` and `pc` go together. `SeenGoesBackByOverlap` needs
that a stamp is later than `last_seen_at` or its heartbeat among the `rivals`.

**DeviceProofs.** `SomeScheduleStays`: first-boot runs may replace each other's script and schedule, so the
property needs what a half-done replacement implies (`Retries`): a script without its schedule has a run that will add the one or
remove the other, a schedule without its script has a run that will add it. `SoloDeviceReports` needs `Solo`: only one run or request
is active, its answer is the valid one and the one in the file (`Course`), and once the flag is up the device reports or is importing.

`EnrolledDevicePushes` needs `Pushes`: where a run has counted on the telemetry script or its schedule and it is not there, another has
cleared it and is about to add it.

**HeartbeatProofs.** `UptimeIsReadBack` is arithmetic: weeks, days, hours, minutes and seconds add up to what was counted
(`UnitsAddUp`). `WhatIsHeard` says exactly when a heartbeat is let in: when it is intelligible (`Intelligible`: not cut off, each text it quotes is JSON and fits
its field, each frequency is a number) and, for scripts after the first, the identity was read whole and the sensors are in range. Three
lemmas go through the parts: what is not read is sent empty and nothing empty passes (`IdentifiedPasses`), an entry passes if and only if its texts and its
frequency do, whatever part of it was read (`EntryPasses`), and of the system block only the sensors can be wrong (`SystemIsValid`). `ToldIsMeasured` and `MeasuredIsTold` take a body through the point
builders in either direction. The inductive invariant `HeartbeatInv` is small: until it is answered, the request is the one that the script made of
the reading, whatever script the device has by now, and what is stored is its points or nothing. `TypeCorrect`, `NothingInvented`, `NothingLost` and
`OldScriptsHeard` follow, for any set of readings that meets the assumptions.

**The mirror.** `TableIsMirrored` is in `WgSyncProofs` and in `AutoEnrollPeerProofs`: `Spec => MirrorsTable` for each. In
`WgSync` the step that matters is `Rename`, and `Names` is what it needs: the temporary file a run renames has what that run rendered, as no other
has the name. In `AutoEnroll` it is every step that changes the table: that what it leaves is a table is a consequence of the invariant after the step, so
that `ActivePeersAreTable` is used of both states.

No run checks `AddressKept` by itself, which is also a consequence of `KeepsPromise`. `MirrorsTable` of `AutoEnroll` was checked with the instance of `fleet` before it was proved, and is left out of that run because it trebles its time.

Only model-checked: liveness (`EveryRequestEnds`), as liveness under fairness and ENABLED are out of the prover's reach; and the refutations of
section 3, which are counterexamples. Every other property of a passing run is a theorem. The modules have no RECURSIVE operator.

## 5. Not modelled

* Text: the bodies of scripts, the layout of `wg0.conf`, log lines.
* A loss of power of the server's host. `_write_atomic` does not sync the temporary file before it replaces `wg0.conf`, so that an empty file may
  be what is there afterwards; `FileWhole` is about processes that are killed. `Reboot` of `AutoEnroll` finds the file as it was.
* A wall clock of the server that steps back: `SeenGoesBackByOverlapOnly` and the expiries assume that it does not.
* Two names of one router that differ before JSON reads them and not after: InfluxDB would take their points for one series.
* Hashing: a raw token is found by what it is; the prefix only narrows the search.
* The life cycle of the InfluxDB client. Nothing is awaited between the test for a client and its creation, so that
  two cannot be made; `close_client` runs when uvicorn has seen the last handler end (`requirements.txt:5`, no graceful timeout is
  set), and a second signal leaves it out.
* Factory reset, which gives a router a new key and an empty flag: to the server it is
  one more enrollment of `AutoEnroll`.
* Manual enrollment (501), the stubbed commands, tables without code, health probes, dashboards, deployment.
* Memory. The pool in `FetchTokens` and `Telemetry`, whose handlers wait for nothing but the database while they have a connection.
* Row deletion in `AutoEnroll`: no code deletes a router. `Telemetry` has it, as its handler checks for it.

## 6. Plan

Done: `AutoEnroll`, `WgSync`, `RateLimit`, `FetchTokens`, `Telemetry`, `Device`, `Inventory`, `Mirror`, `Heartbeat`, and the eight
proof modules. Left, most important first:

1. `Device` and the `Rotate` of `Telemetry` against `Inventory` in place of a server of their own: the inventory would need the requests that it refused.
2. Postgres statements in two steps, heap and index, so that two routers that exchange names can deadlock (`auto_enroll.py:331`).
