# A TLA+ model of the RIPE Atlas software probe

The probe is a set of small cooperating programs. A shell loop registers the
probe and keeps a tunnel to a controller; over the tunnel the controller talks
to `telnetd`, which hands measurements to two daemons: `eperd` runs periodic
ones from crontabs and `eooqd` runs one-off ones from a queue file. Both run
the same measurement engines (ping, traceroute, DNS, ...) as callbacks of one
libevent loop; results go to files that `httppost` sends back.

The programs share no memory and take no locks. They hand work to each other
with `rename`, `unlink`, link counts, pid files and small notice files, each may
be killed and restarted at any time, and inside each a single thread interleaves
many callbacks. That is where this development looks.

## Inventory

`PROJECT.json` lists every component with its sources. In short:

| Component | State | Operations | What is hard about it | Module |
|---|---|---|---|---|
| one-off hand-over, `telnetd.c` / `eooqd.c` | three names in the crons directory | `do_oneoff`, `checkQueue` | no lock, several system calls each, crashes in between | `OneoffHandover` |
| `eooqd` | slots, busy count, barrier, open queue file, result files | `checkQueue`, `add_line`, `cmddone`, `post_results`, `re_post` | barriers, slots of tests that refuse to die, files shared by consecutive commands, failed posts | `Eooqd`, `OneoffService` |
| crontab hand-over, `telnetd.c` / `eperd.c` | `root`, `cron.update`, open descriptors | `end_crontab`, `CheckUpdates`, `SynchronizeDir` | unlink against open and write | `CrontabHandover` |
| `telnetd` sessions | list of sessions, `atlas_ts`, `atlas_crontab` | connect, log in, commands, take-over, close | globals shared by sessions that replace each other | `TelnetSessions` |
| `eperd` scheduler | list of lines with timers and cycle numbers | `Insert`, `DeleteFile`, `set_timeout`, `RunJob` | wall clock against monotonic timers, busy lines that are deleted | `Eperd` |
| `evping` | `struct pingstate` | `ping_start`, `dns_cb`, `ping_xmit`, `noreply_callback`, `ready_callback4/6` | late, duplicated and lost replies, several ways to end | `Ping` |
| `evtraceroute` | `struct trtstate` | `traceroute_start`, `send_pkt`, the answer handlers, `noreply_callback` | as ping, and answers of several hops at once | `Traceroute` |
| `evtdig` | `struct query_state` | `tdig_start`, `tdig_send_query_callback`, `process_reply`, `printReply`, `free_qry_inst`, `tdig_delete` | four timers and a name resolution that call back into one state | `Tdig` |
| `httppost`, `condmv`, `dfrm` | result files in `data/new` and `data/out` | list, send, remove; append and rename; purge | three processes on the same names | `ResultPipeline` |
| main loop, `reginit` | `.vol` and `.txt` status files | register, keep alive, restart daemons | state on disk across restarts | `MainLoop` |
| pid files | one file per daemon | `check_pidfile`, `write_pidfile` | stale and reused ids | `MainLoop` |
| `perd` | list of lines, children | fork, wait | supervised in `MainLoop`, its jobs in `ResultPipeline` | partly |

## Modules

Each module's header says how its variables correspond to the code; `map` in
`PROJECT.json` gives the source lines of every definition. Definitions whose
comment starts with "Mutant" are faulty variants of the definition that
follows; nothing refers to them, they serve to see that a property notices.

**OneoffHandover.** One action per system call of `do_oneoff` (`Grab`,
`AppendLine`, `RenameBack`) and of `checkQueue` (`StatQueue`, `UnlinkCurr`,
`RenameQueue`, `OpenCurr`, `ReadLine`, `EndOfFile`), on the names `q`, `new` and
`curr`, with either daemon killed between any two. The contents of a file are
the set of line numbers in it. `AppendLine` includes the `fclose` that nobody
checks: on a full disk it may write nothing or a part of the line (`torn`), with
which the next line is then fused; such lines are `unsaved`.

**OneoffService** says what the one-off queue promises without slots, files or
posts. **Eooqd** is the daemon: `pc` is the position of its only thread, each
step ends where the process may be killed with a visible difference. A line is
a number, `Kind` says what `add_line` makes of it: a command, one it refuses,
`post`, `barrier` or `reload` (the line concerning resolv.conf). `newf` and
`outf` are the result files in `data/new` and `data/out/ooq`; file `RES` is
`ooq.out`, to which loads of resolv.conf are reported. `httppost` first lists the
files as `do_dir` does: those that fit in a post, in any order, while a file left
out that takes more than half a post is deleted unsent (`given`). Measurements are
abstract: they finish, possibly inside `start`, and those in `Stuck` call
`done` while still busy, as `ping.c:1737` does. How lines enter the queue is
one action; `OneoffHandover` justifies it. `QueueIdEmpty = FALSE` is the case
of option `-q`, where the target of the move in `cmddone` is a directory that
does not exist and the moves in `post_results` do the work.

**CrontabHandover.** `cron.update` at the level of inodes: `telnetd` opens,
writes and looks at the link count, `eperd` opens, unlinks, reads and then
loads the crontab. Three inodes suffice because one is named and each daemon
has at most one open. Calls fail and both daemons restart.

**TelnetSessions.** The states of a session (`GET_LOGINNAME`, `GET_PASSWORD`,
`GET_CMD`, `DO_CRONTAB`, and `DO_TRADITIONAL`) and the globals. One action is
one turn of the loop for a session: the line that ends a table installs it and
is carried out as a command in the same turn, as in the code.

**Eperd.** `lines[l]` is the `CronLine`. A timer is the number of ticks left on
the monotonic clock; `now` is the wall clock, which `StepClock` sets. `Load` is
`SynchronizeFile` as a whole, with `Insert`, `Start` and `DeleteFile`.
Microseconds, which are carried along exactly, are left out.

**Ping.** One test and a network that may deliver the reply to a packet at any
time and any number of times until `Life` more packets could have been sent;
`Life` is smaller than the number of sequence numbers. Option `-e` (resolve at init) is covered as `Start` followed by `Start2`.

**Traceroute.** One measurement of any protocol and family, and a network in
which whatever can answer a packet may do so at any later time, also in a later
run: nothing in a packet names its run, so `old` remembers how far the numbers
of earlier runs went. In Paris mode over UDP and IPv4 the number is read from
the checksum, which a NAT may spoil (`paris`). Of the result only the nesting of
its brackets is kept, and how often each packet was entered. `NoAddress` is the
end of `dns_cb` without an address, whose outcome depends on what the freed
result of an earlier run leaves behind.

**Tdig.** One DNS measurement over UDP, TCP or TLS, of one server or of all those
of `resolv.conf`. A macro in the name to look up may fail to expand at any start
(`MacroFails`), and a failure to set up TLS ends the process (`Died`). `eperd` may start it at any time, also while it is busy or in the
one-second gap between two of its queries, and delete it; `eooqd` starts it once.

**ResultPipeline.** Two streams of results (one written and moved inside
`eperd`, one by the main loop), `httppost` from listing to removal, and `dfrm`.
The files of both directories are one function from names to sets of lines.

**MainLoop.** One turn of the loop with `reginit.sh` inside it, step by step as
far as the status files can tell the steps apart (`renewed`: the registration
server has answered since the controller said to wait), and the start of each daemon
at the level of `check_pidfile` and `write_pidfile`. A file with a process id is
modelled by who has that id now.

`MCEooqd`, `MCEperd`, `MCPing`, `MCTraceroute` and `MCTdig` give the constants
that are functions or sets of options their values.

## Runs

| Run | Instance | What it shows |
|---|---|---|
| `handover` | 3 commands, 2 crashes, failures to write and to read | nothing is read twice, out of order or lost between the daemons; what reached the queue file is read |
| `eooqd` | 2 slots, six lines (`reload`, command, barrier, post, stuck command, command), option `-q`, a crash, posts of one result | slots, barrier, result files; implements `OneoffService` |
| `eooqd_live` | 1 slot, `cmd cmd barrier bad`, posts of one result | results are delivered, barriers are passed, the queue drains |
| `crontab` | 3 tables, 2 failures | announced tables are loaded; the hourly run repairs the others |
| `telnet_sessions` | 2 sessions, 2 directories, 2 tables, 2 lines each | no mixed or truncated crontab, no table left open, old sessions end |
| `eperd` | lines with a narrow, a wide and a very wide spread, two that cannot be started, crontabs that change, clock set at will, loop 2 late | lines stay armed, no cycle of a line with a moderate spread twice, none skipped on a steady clock, no stray run |
| `ping` | 3 runs, of 3 packets over IPv4 or 1 over IPv6, sequence numbers modulo 4 | one result per run, no IPv4 packet both lost and answered, idle tests wait for nothing, runs end |
| `pipeline` | 3 results, 2 streams, 1 purge, 1 failure | no result vanishes, duplicates only after failures, delivery |
| `mainloop` | 2 daemons, 4 faults, 1 restart | waits are honoured, no daemon runs twice, dead ones are restarted, the probe reconnects |
| `traceroute` | 2 runs of every protocol and family, 4 hops, gap limit 2, 1 or 3 packets per hop, answers to the run before | one verdict per packet, well-formed results, ends at the target, always ends |
| `tdig` | 3 starts, UDP, TCP and TLS, 0 to 2 retries, up to 3 resolvers | one object per resolver in order, one result per run, nothing left behind, always ends |
| `tdig_twice` | one server with two addresses | finding 1 below |

`eooqd` has 1.7 million states and takes three minutes, as does `eooqd_live` for
its temporal properties; `eperd` (297,000) takes under three, `traceroute`
(187,000) and `pipeline` (174,000) under two; the others take seconds.

### Bounds

The number of slots (10 in the code) is 2: with two a slot can be free or
taken behind the one used last, and the search wraps around. Two rounds of
`post_results` (5 in the code) allow a failure and a success in one call.
Crashes and failures are bounded because each adds only a restart; one or two
let a crash meet every step and a second one the recovery. Two sessions are
enough for take-over, since only `atlas_ts` and one other ever matter at once;
two directories are needed for a table to end in the wrong one. A post of
`Eooqd` holds one result, so that a file with one fits only alone and a file with
two never does. `eooqd_live` has one slot and no crash: two commands then share
the name of a result file, and what a crash leaves behind is the subject of the
safety run. In `Ping` the sequence number (modulo 256 in the code) is taken
modulo 4 and `Life` is 3, its limit: the number wraps twice in the nine packets
of three runs, and a reply may arrive up to the moment its number is used again.
That none arrives later is an assumption on the network; in the code it would
take a reply 256 packets old.
IPv6 sends one packet a run: its part in the run is the ends of a test, and the
properties that compare packets speak of IPv4 only (see below).
`Eperd` has `Slack` 1 for 10 seconds and scales intervals, spread and lateness
along. `NoCycleTwice` speaks of lines that are `Moderate`: half the spread is at
most the interval plus the slack. The wide line is just that; the very wide one
is there for the other properties, since TLC does find a cycle of it repeated.
The wide lines, the narrow one and those that cannot be started are in crontabs
of their own (`Programs`), since `eperd` treats lines independently of each other.

`ResultPipeline` has limits small enough that three results exceed both: the
size of a post is 2 lines and the number of files 2. `Traceroute` has 4 hops and
a gap limit of 2, so that the last-ditch hop (255) is reached with hops to spare
and also after an answer; `count` is 1 or the default of 3. `Window`, how far a
TCP acknowledgement may be ahead (0x2000 in the code), is 2, so that numbers of
the run before fall on both sides of it. `Tdig` has 3 starts:
one in the gap between two queries, one swallowed by it and one after. In
`MainLoop` a fault is a failed call, a refusal, a death or a reused id; four let
a daemon die, its id be reused, its new start break off and the KEEP session
fail in one behaviour.

### Fairness

* libevent serves every timer that is due and calls back for every event, in
  one thread that runs each handler to its end. Hence weak fairness of the
  steps inside a handler, and strong fairness of `CheckQueue`, `RePost`,
  `Finish` and `SynchronizeDir`, which are enabled only between handlers.
* `telnetd` visits every session in each turn of a `select` loop with a ten
  second timeout: weak fairness of `KillOld`.
* The resolver of libevent answers or times out: weak fairness of the answers
  in `Ping`, `Traceroute` and `Tdig`, and of their timers. Nothing is assumed of
  the network.
* The crontabs run `condmv` and `httppost` once per interval and the main loop
  moves its file in every turn: weak fairness of the steps of `ResultPipeline`
  except writing, running out of disk and failing. Failures are bounded, which is what "the
  controller can be reached again" means there.
* In `MainLoop` the script takes its turns, a daemon that was started goes on,
  and a time to wait ends. Nothing is assumed of a foreign process that got
  the id of a daemon or of the session: `Reconnects` and `Restarted` say in
  their hypothesis that it does not hold the id for ever.
* Nobody is obliged to send a command, fail or crash.
* `NoticeSuffices` assumes in its statement that the retry loop of
  `end_crontab` ends; each turn needs `eperd` to unlink the notice between two
  system calls, and `eperd` does so at most once a minute.
* `QueueDrains` is checked without tests that keep their slot: with one, the
  busy count never reaches zero and a barrier is never passed.

Deadlock is not checked where the system may stop: a hand-over with no more
commands to send, a measurement nobody starts again.

## Proofs

Proved with TLAPS for every value of the constants, from the named assumptions
of the modules: bounds are natural numbers; there is at least one slot,
attempt, listed file, packet per hop and address of a resolver; `NoSession` is
no session; the kinds of lines and the protocols are those the code knows; a
sequence number has at least two values and the life of a reply is shorter than
they are many; the last-ditch hop (255) is not below the hop limit, an
`unsigned char`; and a server of `resolv.conf` has one address. None uses
fairness.

Components whose proofs share a module (`TelnetdProofs`, `ProbeProofs`) are
extended together there. That is why the definitions of `OneoffHandover`,
`CrontabHandover` and `ResultPipeline` carry a prefix (`OneoffSpec`,
`CrontabSpec`, `PipelineSpec`).

* **TelnetdProofs**, sessions: `TypeCorrect`, `CrontabIsFree`
  (`OpenForAtlasSession`) and `RootComplete` (`RootIsOneTable`). `Writing` says
  that the open `root.new` holds exactly what the Atlas session sent so far for
  its table, `Owners` that no two sessions share a table, and `Settled` that an
  installed table is one no session adds to any more.
* **TelnetdProofs**, one-off hand-over: `OneoffTypes`, `ReadAtMostOnce`
  (`AtMostOnce`), `NothingVanishes` (`NoLineVanishes`), `InOrder`
  (`ReadInOrder`). The invariant has to say why `RenameBack` replaces nothing:
  `OneQueueFile`, `q` and `new` never exist together, and there is no `q` while
  `telnetd` is inside `do_oneoff`. `Ordered` puts every line read before those
  taken, these before those queued, and the line about to be appended last; at
  most once and the order of reading both follow from it.
* **TelnetdProofs**, crontab hand-over: `CrontabTypes` and `UpdatesKept`
  (`NoUpdateLost`). `SameFile`: only `eperd` removes the name, so what it has
  opened and not unlinked is still what the name stands for; and `telnetd` has
  written the file whose link count it reads.
* **EooqdProofs**: `TypeCorrect`, `SlotAlwaysAvailable` (`SlotAvailable`),
  `AtMostOnce` (`StartedAtMostOnce`), `ResultsKept` (`NoResultLost`),
  `BarriersSeparate` (`BarrierSeparates`). `SlotTable` relates the busy count
  to the cardinality of the occupied slots and every running command to a slot;
  `FreeSlotFound` shows from it that the circular search of `add_line` meets a
  free slot, by the least distance to one. `ReadPosition` says that nothing
  from the reading position on was started and that a pending barrier is the
  line before it. `Posting` says that whatever `httppost` is about to delete
  after its post has been received. Each conjunct has a lemma of its own.
* **EooqdRefinement**: `Refinement` (`ImplementsService`), every behaviour of
  `Eooqd` is one of `OneoffService` under the mapping the run `eooqd` checks.
  `LinesApart`, on top of the invariant of `EooqdProofs`, says that what was
  taken lies before the reading position and that no line is running, pending
  and lost at once; then the status `statusOf` gives a line is unambiguous
  (`StatusIs`). `FilesReported` says that result files hold reported results
  only, so that what is posted may be delivered. One lemma per action shows
  which step of the service it is, or that the service does not see it.
* **EperdProofs**: `AlwaysArmed` (`Armed`), `CyclesOnce` (`NoCycleTwice`),
  `CyclesInTurn` (`NoCycleSkipped`), `ScheduledRuns` (`OnlyScheduledRuns`).
  `Agrees` relates the list to the crontab read last: a line that has left it is
  marked or has no timer. `Accurate` is what `NoCycleTwice` needs: a timer set
  since the clock was set ends at `nexttime`, `nexttime` is the start of
  `nextcycle` plus an offset within the spread, and `nextcycle` is beyond the
  last one started. That the branch "inconsistent time" of `RunJob` cannot go
  back to that cycle is arithmetic on these, kept in lemmas without state.
  `Spaced`, for `NoCycleSkipped`, says in addition that the offset is one
  `do_distr` can draw even where the clock was set, since a line may be
  rescheduled from it.
* **PingProofs**: `TypeCorrect`, `IdleQuiet` (`IdleIsQuiet`), `RunsReported`
  (`ReportedOnce`), `AnsweredNotLost` (`AnsweredIsNotLost`), `OneReportEach`
  (`ReportedOnceOnly`). `Phases`: a busy test waits for the resolver or for
  packets, never both. `Unanswered`: before the first reply of an IPv4 run the
  last packet went out with the number that is expected, so a reply to it would
  have been taken as such. For `OneReportEach`, `Lives` says that no reply
  under way is for a packet before the last `Life` ones, `Numbered` bounds how far
  behind the expected number the number of such a packet can be, and `Once`
  concludes that no packet that was reported carries the expected number, also
  after it has wrapped.
* **TracerouteProofs**: `PacketsEnteredOnce` (`OneVerdict`), `ResultsBalanced`
  (`Balanced`), `StopsAtTarget` (`EndsAtTarget`). `Waiting`: while a packet is
  out three brackets are open, every earlier packet was entered once, and the
  last one exactly if `gotresp` is set. `Signs`: `done` without `not_done`
  means that the target or an unreachable was heard, and a router that answered
  in time has set `not_done`. `Ready` is the state in which `send_pkt` is called;
  that it leaves the invariant is shown once and used by the start, the answers
  and the timer. The end without an address has a lemma of its own
  (`NoAddressInv`): there the text is not well formed, and the property excepts it.
* **TdigProofs**: `ResolversInOrder` (`EveryResolverOnce`), `FreeIsQuiet`
  (`QuietWhenFree`), `RunsReported` (`OneResult`). `Texts`: the result so far
  has the objects of the resolvers before the current one. `Phase`: what may
  call back into the query in each of its states; a `next_qry_timer` outside the
  gap is left by a start inside it. `Told`: `done_qry_timer` is armed when
  the query of `eooqd` goes free. `Counts`: such a timer may begin one more
  run, which has to be accounted for beforehand. The last two do not hold once
  the timer of finding 1 is left behind (`leftover`); `Frame` and `Texts` do.
* **ProbeProofs**, main loop: `TypeCorrect`, `DaemonsAlone` (`OneInstance`),
  `WaitsHonoured` (`WaitHonoured`). `Alive`: a pid file names the daemon exactly
  while one runs, and a start past `check_pidfile` is the only one. `Waits`:
  which file remembers a wait that is not over, at each point of `reginit.sh`,
  unless the registration server has answered since.
* **ProbeProofs**, results: `ResultsKept` (`NoResultVanishes`), `FewDuplicates`
  (`DuplicatesNeedFailure`). `Moving`: the target a `condmv` found free stays
  free, since each name has one mover. `Covered`: what `httppost` has listed and
  sent is all in its post, and once it removes files the controller has them,
  unless `dfrm` has removed the listed file meanwhile. `Once`: a line is in one
  file, which is what bounds the duplicates.

Every safety property of the passing runs is proved. Only model-checked is what
is eventually to happen (`QueuedIsRead`, `ResultsDelivered`, `QueueDrains`,
`NoticeSuffices`, `HourlyRepairs`, `OldSessionEnds`, `Delivered`, `Reconnects`,
`Restarted` and the `Ends` of the three engines): liveness under fairness is out
of the prover's reach.

## Findings

1. `tdig_twice`: `tdig_send_query_callback` arms `noreply_timer` for every
   address it has sent the query to. When the last address fails it prints the
   error and frees the query, without removing the timer as `process_reply`
   does (`evtdig.c:2034`, "Clean the noreply timer"). The timer then prints a
   second result for the same start.

Seen while modelling, not checked by a run of their own. The properties say
where they make an exception for one of them.

* One-off queue: the comment in `checkQueue` (`eooqd.c:319`, "We verified
  queue_file is there so any failure is fatal.") takes it that the queue file
  seen by `stat` is still there at the `rename`. `do_oneoff` (`telnetd.c:1666`)
  may have taken it meanwhile. The code returns and tries again, which
  `handover` shows to be enough. `do_oneoff` does not look at the result of
  `fclose` (`telnetd.c:1690`), where its line is first written: on a full disk a
  command is accepted and lost, or fused with the next one.
* One-off results: `post_results` does not look for `ooq.out`, so that a record
  of a load of resolv.conf waits until there is another result to post. A file
  that does not fit and is larger than half a post is deleted unsent
  (`httppost.c:1118-1128`), which `NoResultLost` excepts.
* Ping: over IPv6 `ready_callback6` (`ping.c:1187`) expects the next sequence
  number after every reply, also a duplicate; `ready_callback4`
  (`ping.c:974-980`) does so only after the expected one. After a stray reply the
  answer to the current packet counts as a duplicate and the packet is reported
  as timed out.
* Ping: `noreply_callback` (`ping.c:804-811`) reports a packet as lost only before the
  first reply of a run, since `got_reply` is reset only by `ping_start2`
  (`ping.c:1474`). After a failed `sendto` the test goes on to the next packet,
  though the comment (`ping.c:775`) says "Report the failure and stop". If the
  resolver succeeds without an address, `dns_cb` (`ping.c:1737`) calls `done`
  with the test still busy: in `eooqd` its slot is never freed and a later
  barrier never passed.
* Traceroute: a late TCP answer to the previous packet is taken for one to the
  current packet, because of the test `seq-state->seq > 0x2000`
  (`traceroute.c:2893`, `3168`); the field is commented "Got a response to the
  last packet we sent. For dup detection." (`traceroute.c:157-159`). IPv4 echo
  replies and TCP segments do not update `last_response_hop`. An answer whose
  number is ahead of the last packet leaves an empty object in the result. The
  numbers of every run start at 1, so an answer to the run before may be taken
  for one to the current packet (`traceroute.c:2626`, `3712`, `4035`).
* Traceroute: if the resolver succeeds without a usable address, `dns_cb`
  (`traceroute.c:4914-4924`) writes the end of a result that has no beginning.
  `report` has freed the text of the run before without resetting its length
  (`reslen`), so the end goes behind uninitialised memory or, if it would still
  have fitted, to an offset from `NULL`. `Balanced` excepts this end.
* DNS: a start in the one-second gap between two queries of a run is taken for
  the next query; `next_qry_timer` then finds the query busy or begins a run of
  its own. `tdig_delete` removes neither `next_qry_timer` nor `done_qry_timer`.
  With `--retry` the timer of finding 1 repeats without end. Over TCP only the
  first address is tried and a first read of one byte is an error; over UDP only
  the socket of the last address is listened to. If a macro in the name does not
  expand, `resolv_i` is not reset (`evtdig.c:3069-3080`): with `--resolv` the
  `subid` of the one object grows from run to run. `tcp_reporterr` does not know
  the causes with which setting up TLS fails and ends the daemon
  (`evtdig.c:1622-1625`).
* Results: if `dfrm` removes a file that `httppost` has listed and another file
  takes its name before `httppost` removes what it listed, the second one is
  removed unsent (`exposed` in `ResultPipeline`). Which of the files between
  half the limit and the limit of a post `do_dir` deletes depends on the order of
  the directory.
* Main loop: `ripe-atlas.in:222` removes `con_keep_reply.txt`, but the reply is
  in `con_keep_reply.vol`; a non-empty one left behind makes every turn force a
  registration, so that a time to wait is ignored until the next KEEP session
  starts. This is the exception for a forced registration in `WaitHonoured`.
  A registration that is due again (an expired `REREG_TIMER`) makes the
  controller be asked before the time it said to wait for is over; this is the
  other exception. A process that has got the id of the session keeps the probe
  from registering for as long as it lives, since `kill -0` takes it for the
  session.
* Main loop: a daemon killed between opening and writing its pid file leaves an
  empty file. `check_pid` (`linux-functions.sh:18`) then tests `/proc/` itself,
  which exists, and the daemon is not restarted (`ripe-atlas.in:299`, "Check if
  ... is still running"). This is the exception in `Restarted`; `check_pidfile`
  reads an uninitialised buffer in that case. `kill_telnetd` looks for the pid
  file in another directory than the one it is in. A restart of the script
  leaves the old KEEP session behind.
* Scheduler: a clock set past the end time of a line and back leaves the line
  without a timer until the crontab is read again, at most an hour later
  (`Armed` excludes this by `stepped`). A line whose half spread is more than
  its interval can have a cycle repeated: a job drawn far before its cycle and
  found off its time is scheduled from the current time again. A line whose test could not be created is
  still scheduled and, after the crontab was read again, may report an
  inconsistent time.

## What the models leave out

* `OneoffHandover`, `Eooqd`: lines longer than the buffer of `fgets`, which are
  read as two; renames that fail for reasons other than a missing file; the
  limit on the number of files in a post, which slots and error reports stay
  far below (it is in `ResultPipeline`);
  `dfrm` emptying the data directories on a full disk, which is modelled in
  `ResultPipeline` and would break `NoResultLost`; a `resolv.conf` changed twice
  within a second.
* `TelnetSessions`: telnet option bytes, the ring buffers, the pty of
  traditional sessions. What is in a `root.new`
  that no session has open does not matter, since `start_crontab` truncates it.
* `Eperd`: the wording of reports, the watchdog, microseconds; `check_resolv_conf`
  is modelled in `Eooqd`, where the code is the same.
* `Ping`: packet formats, options, and ICMP messages of other types that happen
  to carry the cookie of the test.
* `Traceroute`: the building and parsing of packets, MPLS and header options,
  fuzzing options. The number of packets a hop, a `char` the code does not check, is
  taken to be positive.
* `Tdig`: the building and decoding of messages, cookies, HTTP/2 framing,
  fuzzing options.
* `ResultPipeline`: the HTTP and TLS exchange, of which only the outcome and, for
  a failure, whether the data got through are kept; the closing of standard
  output by `httppost` inside `perd`; commands of `perd` whose output goes to a
  file in `data/new` that the main loop moves; the options `-D`, `-x` and `-f` of
  `condmv`; the removal of all data at a firmware upgrade
  (`reginit.sh.in:325-336`).
* `MainLoop`: LEDs, network set-up hooks, manual upgrades. It is assumed that
  the id of a dead daemon is not given to another daemon or session of the
  probe, and that the start of a daemon is over before the next turn.

## Not modelled

* `evntp`, `evhttpget`, `evsslgetcert`, `evtlsscan`: the remaining engines. They
  have the shape of those modelled (one struct, a timer, a resolver, one result,
  one `done`), but their code is their own: nothing shown for `Ping`,
  `Traceroute` or `Tdig` carries over to them. Most of it parses a stream or a
  packet.
* `atlasinit`: a parser of key-value lines; `MainLoop` lets it write anything it
  may write.
* The scheduling of `perd`, an earlier version of the one in `eperd`.
* Status reporters, validation of names and addresses, platform wrappers:
  straight-line code or predicates on strings.
* libevent and the busybox applets and library, which are most of the
  lines of the repository: third-party code. libevent is modelled from how the
  daemons use it: timers, callbacks, one thread.

The components are checked one by one. What one relies on in another is checked
there (`OneoffHandover` for the queue `Eooqd` reads, `CrontabHandover` for the
crontab `Eperd` loads, one `done` per run of the engines for the slots of
`Eooqd`), but no module composes them, apart from `ResultPipeline` and
`MainLoop`, which are compositions of several programs.
