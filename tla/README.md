# Aarvion Guard in TLA+

Aarvion Guard runs beside an OpenClaw agent on a developer's machine and governs
the agent's egress. Every outgoing HTTP(S) request is put to a local policy
engine (OPA), recorded in a hash-chained log that is pushed to a control plane,
and then forwarded or refused. This directory holds specifications of the parts
of it where order, failure and concurrency decide whether it is right, the TLC
configurations that check them on small instances, and TLAPS proofs of the main
results for all instances.

Line numbers refer to `src/`; packages are named without their path
(`decisions.go` is `src/internal/decisions/decisions.go`, `main.go` is
`src/cmd/guard/main.go`).

## 1. The system

### Components

| component | state it keeps | operations |
|---|---|---|
| guard process (`main.go` cmdRun, runTransparent) | a context, ended by SIGINT/SIGTERM or when the OPA supervisor gives up | starts everything below, serves until the context ends, exits through `fatal` on errors |
| `proxy` (forward mode) | `learned`, `blocked` host sets under a mutex | CONNECT (splice or inspect), absolute-URL HTTP |
| `tproxy` (transparent mode) | a listener | accepts redirected connections, recovers their destination |
| `mitm` | none of its own | terminates TLS with minted leaves, decides, records and forwards each request |
| `ca` | the CA files, an in-memory cache of leaves | EnsureCA, GetCertificate |
| `policy` | none | Eval (one request to OPA), Healthy |
| `decisions` | `seq`, `prev`, `pending`, `sampled`, counters under a mutex; `chain.json` | Add, RunPush/flush, saveState, Stats |
| `heartbeat` | a ticker | sends the recorder's counters every 15 s |
| `opa` | the OPA child process; the downloaded binary | Supervisor.Run, WaitHealthy, EnsureBinary, RenderConfig |
| `intercept` | the kernel's nat tables (not its own memory) | Install, Remove, OriginalDst |
| `wiring` | OpenClaw's service-env file and one backup of it | InjectProxy, Restore |
| `config`, `pair`, `svc`, `trust` | `guard.json`; the one-time pairing code; the boot service; the system trust store | Load/Save, Claim, Install/Uninstall, Install/Remove |
| CLI (`main.go`) | the files of the above | init, run, exec, service, update, repair, status, uninstall |
| npm launcher | the cached binary | downloads it once, runs it |

### How they interact

* Handlers in `proxy` and `mitm` run one goroutine per connection. Each asks
  `policy.Eval` with a five second limit, calls `Recorder.Add`, and only then
  answers or forwards.
* `Recorder.Add` and the push goroutine share the recorder's queue under a
  mutex, which is *not* held during the push itself.
* The recorder survives restarts through `chain.json`, written with a plain
  `os.WriteFile` after a push.
* The OPA child is started by a supervisor goroutine; everybody else sees it only
  through HTTP. While it cannot be reached, `Decide` fails closed but for
  essential hosts.
* Guards share the engine's port and the proxy's, and take any engine that answers
  for their own; launchers share the cached guard, and guards the engine's
  download, with no lock.
* `runTransparent` changes kernel state that outlives the process; `repair`,
  `uninstall` and the next start change it too, with no lock between them.
* `main` does not wait for any of its goroutines when it returns, and `fatal`
  runs no deferred function.

### What is hard

* *Crashes and restarts* between a push, its acknowledgement and the save of the
  cursor; between any two iptables commands; in the middle of a file write.
* *Lost, late and repeated pushes*: a timeout says nothing about whether the
  control plane stored the rows.
* *Interleavings*: handlers collapse repeated allows while flush clears the
  window; connections race on `learned` and `blocked`; lookups and updates of the
  two sets are separate critical sections.
* *Stale state*: the policy engine changes between a request's arrival, its
  decision and its effect; leaves outlive their validity in the cache.
* *Shared names*: two launchers, or two guards, write to one file on disk; an engine
  outlives its guard and holds the port.
* *Partial failure*: install of the redirect fails in one family; a save fails.
* *Liveness*: queued rows must be delivered although pushes fail; a pinned
  essential host must become usable; a redirect left by a crash must be healed by the
  next guard.

`PROJECT.json` lists each of these hazards at the line where it bites, with the
properties that cover it.

### What makes each component correct

| component | properties |
|---|---|
| `decisions` | the queue is one unbroken stretch of the chain; a collapsed allow is backed by a queued row; redactions are always queued; what the control plane holds verifies as a chain; every queued row is settled in the end; the saved cursor names a received row |
| `proxy`, `mitm`, `policy`, `ca` | no governed host is downgraded to a raw tunnel; nothing is sent that the policy did not permit; nothing is sent or answered before it is recorded; learned hosts are served; only hosts that rejected inspection are blocked |
| `intercept`, `tproxy`, process | rules are never stacked; a serving guard governs both families; a stop leaves no redirect; the next guard heals what a crash left |
| `opa` | a serving guard gets its engine back within the backoff, which a long run resets; what decides for a guard is its own entity's policy; the machine is governed in the end |
| CLI, `config`, `wiring`, `svc`, `ca` files | init and uninstall invert each other and can be repeated after a crash between any two steps; OpenClaw is never wired to a guard that cannot start; the user's environment file comes back; update takes effect |
| launcher, EnsureBinary | no part of a program is taken for the whole; a download that failed is in nobody's way |

## 2. The modules

```
HashChain ── AuditChain            abstract: what the control plane is promised
    │            ▲ refined by
    └──────── Recorder ── RecorderProofs
                 └─────── MCRecorder          Recorder.cfg RecorderCursor.cfg RecorderRedacts.cfg

Gate                                  abstract: what becomes of a request
  ▲ refined by
Proxy ── ProxyProofs
  └───── MCProxy                              Proxy.cfg ProxyLive.cfg ProxyBlocked.cfg

Redirect ── RedirectProofs                    Redirect.cfg RedirectStop.cfg

Supervisor ── SupervisorProofs                Supervisor.cfg

Download ── DownloadProofs                    Download.cfg

Lifecycle ── LifecycleProofs                  Lifecycle.cfg LifecycleUpdate.cfg
                 ├─── LifecycleCleanProofs
                 └─── LifecycleEffectProofs
```

### HashChain, AuditChain

`HashChain` says what it means for a set of rows to verify as a chain. The
verification is the control plane's and is linkage only, as the comment at
`decisions.go:40-44` states; a hash is a number that two different rows never
share. `AuditChain` is the promise: the rows the control plane holds only grow,
and verify after every arrival unless the writer has declared its chain broken.

### Recorder (`decisions.go`)

One writer (`dp_id`) over several lives of the process.

* `seq`, `prev`, `pending`, `sampled` and the counters are the fields of
  `Recorder`; `chain` is what `chain.json` holds, with `NoCursor` for a missing
  or unreadable file. `push`, `final`, `batch` are the program counter and the
  local variables of `RunPush`/`flush`. `cp` and `late` are the control plane and
  the requests that may still reach it. `clock` numbers the calls of `Add`; row
  hashes are taken from it, since the hash covers a fresh timestamp. `refused`
  and `forked` are history variables, used in no guard.
* `Add(o)` is one critical section: `Collapse` returns early, `Enqueue` appends. What
  makes two requests the same is their method, host and path (`sig`) and that both
  are allowed; a request whose body is redacted is an allow, too (`redacted`).
* `Tick`/`LastFlush` are the head of `flush`, under the mutex; `Stored`,
  `Refused`, `Failed` are the three ways the request ends; `Save` is
  `saveState`, whose errors are ignored, so that it may write, do nothing, or
  leave a truncated file. `Refused` is the response whose status nobody looks
  at: it goes on to `Save` like a success.
* `Die` may happen in every state. In the middle of a push the request may be
  under way (it moves to `late`); in the middle of a save the file may be
  truncated.
* A request made with an ended context gets no answer (`Answerable`), while the
  last flush uses a background context.

### Proxy (`proxy.go`, `tproxy.go`, `mitm.go`, `policy.go`, `ca.go`)

* `conn[c]` is a goroutine: `stage` is its program counter, `via` the handler it
  is in (`tls` inside a terminated tunnel, `plain` on a redirected port-80
  connection, `splice` for a CONNECT that will be a raw tunnel, `http` for an
  absolute URL), `to` the host that is dialled, `name` the one that the request
  names, and `method` its method, `dec` and `row` what was
  decided and what was recorded, `said` the engine's answer on its way back.
  `right` is history: whether the policy permitted
  the request at any time between its arrival and its decision.
* Inside a connection that the guard terminates, each request is decided by its own
  Host header (`mitm.go:96`) and sent to where the connection leads
  (`mitm.go:58, 143-148`). The two need not be the same, nor need the server name of
  the handshake be either of them: `Handshake` and `Request` take any name.
* `CheckBlocked` and `Route` are two critical sections, as in the code.
  `Handshake` mints a leaf or takes it from the cache, and succeeds only if the
  client accepts it; it may also break off, or come without a server name.
  `Rejected` is the fallback of `handleConnect`; the transparent server only
  drops the connection.
* `Request`, `Evaluate`, `Decide`, `Record`, `Refuse`/`Forward`/`Dial` are the
  common sequence of the three handlers. `Evaluate` is the engine's answer,
  `Decide` what the handler makes of it when it has arrived; `Unanswered` is an
  engine that cannot be reached, with `Outage` the fallback. `OpaChange` may happen
  between any two of them,
  `Expire` lets 90 days go by, `Restart` forgets all memory.
* Names are spellings. The proxy's sets are looked up as the client wrote the
  name, `Decide` lowercases first; `Lower` is that function. `Pinned` names the
  hosts whose clients accept only the host's own certificate.
### Gate

What becomes of a request, whichever handler it is in: `Ask`, `Decide`, `Log`, then
`Finish` or `Tunnel`, one after the other, and a verdict of "allow" only for what the
policy permitted at some time since `Ask`. `Gate` knows nothing of hosts that are
learned or blocked, of handshakes and leaves, of the host that is dialled, nor of how
an engine is asked.
`GateOf` in `Proxy` is the refinement mapping: an idle connection, one at its
handshake and one that just carries on are all `Free`; a raw tunnel is `open`.

### Redirect (`linux.go`, `main.go` runTransparent and cmdRepair, `tproxy.go`)

* `table` is the kernel's nat table per family: whether the chain exists, its
  rules in order, and how many jumps lead to it. `proc` gives each process its
  task and the iptables commands it has yet to run. `Works` and `Effect` are
  iptables itself; `Supported` says which families the kernel can redirect.
* `Succeed`/`Fail` run one command. A failure ends `Install` (`fatal`, without
  the deferred Remove), except for the creation of the chain and the check; in
  `Remove` every failure is ignored. `slipped` remembers that a command failed
  which could have worked, `meddled` that two processes worked on the table.
* A process that has run the last command of a Remove goes on to `Cleared`,
  `Stopped` or `Repaired`; between the two it is where `CleanStop` looks.
* `Start` is somebody who runs the guard, as root: `init --transparent` installs no
  service (`main.go:164-171`), and the one of `svc.go:13-17` runs as the user, who can
  neither make the group nor change the redirect. `README.md:51-57` says that the
  background service clears an orphaned redirect on its next start; nothing in the
  code starts a transparent guard again, so that whether and when this happens is left
  open. `Healthy`/`Unhealthy` are everything before the
  first command: EnsureBinary, WaitHealthy, the group, the CA. A signal in that
  time ends the process as `Unhealthy` does; a signal during the commands is
  acted upon when the listener has been opened (`Listen`, then `Stop`).

### Supervisor (`opa.go` Run and WaitHealthy, `main.go` cmdRun)

Several guards with one engine port and one proxy port: the one that the service
manager keeps running, and those that users run in terminals.

* `guard[g]` is the process: waiting for an engine (`WaitHealthy`), serving, or
  off; `cfg` is the pairing it read when it started, `ended` its context. `sup[g]`
  is the supervisor goroutine: its `backoff`, what is `left` of a pause, and how
  long the engine `ran`. `child[g]` is the engine, with the configuration it read
  when *it* started; `orphans` are engines whose guard ended without killing them.
* `Spawn`, `ChildEnds`, `BackoffAfter` and `Doubled` are the loop of `Run`: the
  run's length resets the backoff before the pause, and the doubling comes after
  it. `Bind` and `BindFails` are the engine, which ends if its port is taken; `NeverUp`
  is one that cannot be executed or ends before it has the port for a reason of its
  own, `Crash` one that ends later.
* `Healthy` is `WaitHealthy` and `ListenAndServe`: whatever engine answers is taken
  for one's own, and the second guard to get that far finds the proxy's port
  taken. `GivesUp`, `Exits` and `Dies` end the process without waiting for `Run`, so
  that `Reap` may come too late. The service manager kills what its service
  leaves; nobody does so for a terminal.
* `Second` lets a second go by once nothing is `Due`: whoever can go on without
  waiting does so within the second. An engine has opened its port, or failed to,
  within the second it was started in. `down` counts the seconds that a serving
  guard has had no engine; history remembers a long run before them (`steady`) and how
  many engines have ended since without having been up (`early`).
* `Pair` and `Uninstall` are one step each here; their steps are in `Lifecycle`.
  `Uninstall` may leave the service alive: `main.go:396` discards what `svc.Uninstall`
  says, and that ignores the service manager (`svc.go:40, 44`). A guard that goes on so
  (`outlived`) is one more that is older than the next pairing.
  Signals to the service count as faults: nobody sends them but `uninstall`.

### Download (`aarvion-guard.js`, `opa.go` EnsureBinary)

* `name` leads from the three names on disk to files, `data` from files to what
  has been written to them; a process that has a file open (`fd`) goes on writing
  to it when the name is gone or leads elsewhere. This is what a shared temporary
  name, a rename and an unlink are about. `proc[p].at` is where the process is in
  the launcher (`check` ... `exec`) or in `EnsureBinary` (`find` ... `rename`).
* `Check` is the launcher's size test, `Open`, `Write`, `Finish`, `Verify` and `Fails`
  its `download`, in place. `Find` takes any file of the engine's name, `OpenTmp`,
  `Copied`, `CopyFails` and `Rename` are the download under the temporary name; a
  wrong checksum ends it as a failed copy does.
* `Kill` leaves everything on disk as it is. A process of the boot service is
  started from the cache without the launcher's checks.
* History: `marred` (a launcher was killed with a part of the file written, or its
  stream ended early while another launcher wrote to the same file) and `cut`
  (a download of the engine ended early while another process was at it).
* Assumed: the response announces its length; all downloads are of one release;
  no `opa` is on the PATH; `existsSync` and `statSync` see the same file. A
  system may refuse to run a file that is being written to (`Exec`).

### Lifecycle (`main.go`, `config.go`, `ca.go`, `wiring.go`, `svc.go`, `trust.go`, `pair.go`)

* `cli` is the command at work: what it was asked (`cmd`, `with`), the steps it has
  yet to run (`todo`), and how it ended. `InitSteps`, `UninstallSteps`,
  `InstallService` and the like are the calls of the source in their order; each
  step is an action of its own name (`SaveGuard`, `WriteCert`, `Inject`, ...), and
  `GoesOn` takes it off `todo`.
* A step works, fails, or is killed together with its command. `After` says what
  each leaves: a killed or failed write may leave a part of the file. `Fatal`
  says which failures end which command, `Skipped` what a helper that returns
  early leaves out. `CANotLoaded` is `EnsureCA` on a pair that does not load.
* Files are `none`, `part` or `whole`. `env` keeps the user's lines before and after
  the guard's block; `Strip` drops the lines after a block without an end marker,
  as `stripBlock` does. `trusted` holds the CAs in the trust store by number.
* `unit`, `loaded` and `running` are the versions in the unit file, in the service
  manager and of the process. `Enable` and `Load` leave what runs alone. `Found`
  says when a manager can stop a unit; otherwise `StopInVain`. `MakeCert` and `MakeKey`
  are the service itself, whose `cmdRun` calls `EnsureCA` too, whatever command is at
  work: it writes one file and then the other (`minting`), and may fail or be killed in
  each; `Interrupts` ends it with its process. `RunTransparent` is a guard run
  by hand as root, which makes a CA and has it trusted in any case.
* History, used in no guard: `cli.raced` (the service has begun to make a CA while the
  command was at work), `halved` (the service was cut short while it replaced a whole
  `ca.key` that had been left there), `owed` (the lines the user had when init began),
  `spoiled` (the copy, or the file while it had none, was cut short), `left` (an
  uninstall went on although it could not restore the file), `slipped` (a step of
  an uninstall failed), `imposed` (a CA was trusted that nobody asked for).
* Assumed: OpenClaw is installed (`ServiceEnvPath` finds it); commands do not
  overlap; the user edits the service-env between commands only, and only adds
  lines; both service managers behave as the actions named after them say. `load` does
  not compare the key with the certificate, so that two whole files load.

## 3. What the runs show

| run | question | bounds | states |
|---|---|---|---|
| `Recorder` | safety, refinement and `QueuedRowSettles` | 3 decisions, 2 lives, allowed or denied | about 0.6 million |
| `RecorderRedacts` | finding: `RedactsQueued` | 2 decisions, 1 life, redacted or not | violated |
| `RecorderCursor` | finding: `CursorReceived` | 2 decisions, 1 life | violated |
| `Proxy` | safety and refinement | 2 connections, 3 names, 3 engine states | about 2.8 million |
| `ProxyLive` | `LearnedIsServed` | 2 connections, an essential pinned name and its capitals, 3 engine states | about 0.2 million |
| `ProxyBlocked` | finding: `OnlyRejectingBlocked` | 2 connections, 4 names, 3 engine states | violated |
| `Redirect` | safety and `SelfHeals` | one guard, one repair, 2 chance failures, 2 kills | about 0.4 million |
| `RedirectStop` | finding: `StopTearsDown` | one guard, IPv4 only, no failures, no kills | violated |
| `Supervisor` | safety and `Governed` | the service and one terminal, 2 pairings, 3 faults, times of 3 s | about 0.6 million |
| `Download` | safety and `GetsGoing` | 2 processes, one also a service, 2 chunks, 2 faults | about 0.1 million |
| `Lifecycle` | safety | Linux and macOS, 2 pairings, 2 versions, 1 line, 2 faults | about 4.1 million |
| `LifecycleUpdate` | finding: `UpdateTakesEffect` | Linux, 1 pairing, 2 versions, no faults | violated |

**Properties of Recorder.** `QueueLinked`: rows in flight followed by rows queued
are one stretch of the chain that ends where the next row will hang.
`CollapsedIsQueued`: an allow is collapsed only while a row with an allow of the same
method, host and path is queued. It says nothing of redactions: `RedactsQueued` is the
comment at `decisions.go:138`, "Denies/redacts are always queued", and fails, because
handlers pass a redacted request as an allow (`mitm.go:104`, `proxy.go:152, 182`) and
`Add` compares nothing else. `ChainVerifies`: what the control plane holds
verifies unless it refused a push, or a life started from a cursor behind a row
that had been sent. `ImplementsAuditChain`: the same as a refinement, with the
history as `broken`. `NothingDropped`: a row leaves the memory of a living process
only when the control plane has received or refused it, although `flush` moves rows
between two queues and other threads append meanwhile. `CursorAdvances`: the saved
cursor never goes back to an earlier row, over restarts and late saves; it may only be
lost. `QueuedRowSettles`: no row stays in the queue for ever.
`CursorReceived` is the comment at `decisions.go:125-126`; it fails because
`flush` never looks at the status.

**Properties of Proxy.** `UninspectedByRule`: with inspection on, raw tunnels go
only to essential or passthrough hosts that are not blocked. `VerdictInForce`:
what is sent was permitted at some time since the request arrived, by a bundle
or, for an essential host, by an outage. The permission is for the host that the
request names, and this is the host it is sent to except on connections that the guard
terminates: there the code compares the two nowhere, no document says that it should,
and the property claims no more. `RecordedFirst`: the recorder has the
very decision that takes effect. `ImplementsGate`: every way through the handlers is
a way of `Gate`, so that no request is asked about twice, decided after it was
recorded, or let through by the answer to another one. Requests are known by the host
they name, here too. `LearnedIsServed`: an essential host that
was learned gets its tunnel again and again, provided that it stays learned and that
the policy goes on permitting the tunnel: an engine that has no bundle or denies it
cuts the host off. `OnlyRejectingBlocked` is the comment at
`proxy.go:69-71`; it fails for clients that break off a handshake and for a leaf
that expired in the cache.

**Properties of Redirect.** `NeverStacked`: the chain is always a beginning of
the complete one. `ServingGoverned`: both families are complete while the guard
serves. `CleanStop`: whoever has finished a Remove of which no command failed by
chance leaves nothing redirected, even after a chance failure of `-C` has hooked
the chain twice: the jump that the unhooking leaves leads to an emptied chain.
`SelfHeals`: if guards are started, as root, and get past the policy engine again and
again, one governs again, whatever was left behind. All of these except what two
processes do to each other (`meddled`).
`StopTearsDown` is `README.md:41-42`; it fails when `Install` fails after the first family.

**Properties of Supervisor.** `OwnPolicy`: a serving guard's requests are decided
by an engine with the configuration of the pairing it records them for, although
nothing checks whose engine answers; a mix-up takes a guard in a terminal, or a service
that uninstall has not ended, or the engine of one, that is older than the pairing.
`OutageBounded`: a serving guard is without an engine for the longest backoff at most
for each engine that ends before it is up and once more, and for a second after a long
run if the next engine gets up, although other guards may hold the port meanwhile.
`Governed`: while there is
a pairing, somebody serves with an engine that answers, again and again; orphans,
foreign engines and taken ports do not lead into a loop of restarts.

**Properties of Download.** `EngineWhole`: under the engine's name is a whole engine,
or one that is still being written; the exception (`cut`) is the temporary name
that two downloads share. `CacheWhole`: what is large enough to be taken for the
guard is whole, being written, or about to be checked, but for a launcher that was
killed (`marred`). `GetsGoing`: a user who tries again gets the guard and its engine
to run, whatever downloads failed before, unless one of these cases happened or
two launchers unlink each other's files for ever.

**Properties of Lifecycle.** `WiredIsServable`: while the guard's block is in
OpenClaw's environment, a guard that starts can read its configuration and its
CA; it follows from the order of the steps. `LinesKept`: what
the user had at init is in the file or in its copy. `CleanUninstall`: after an uninstall
the configuration, the CA, the wiring and the service are gone, whatever init or an
earlier uninstall had reached; `chain.json` and the engine's binary are kept.
`InitUnhindered`: an init that is not refused at once can only fail by a failure
of its own, or (`raced`) because a service that was there before has begun to make a CA:
init that finds one file of two gives up with no failure of its own. `InitTakesEffect`: an
init that ends well has done what it reports: the
new configuration is in place, OpenClaw is wired to a guard that runs, and the CA this
guard will load is the one that is trusted, even if an earlier command, or the service,
had made another. `RepairRestores`: a repair that ends well has unwired OpenClaw
and given the user's lines back. The exceptions, by name (`left`, `spoiled`, `slipped`,
`imposed`, `halved`), are
choices of the code: uninstall ignores or only reports its failures, files are
written in place, and uninstall removes the trust only of a guard that inspects.
`UpdateTakesEffect` is the comment at `main.go:424-425`; it fails on Linux, where `enable
--now` does not restart a unit that runs.

### Bounds, and why they are enough

* Three decisions give a batch in flight, a failed one put back, and a row added
  meanwhile; two lives give one restart from a stale, a truncated and a right
  cursor. One request is enough, allowed or denied, since requests meet in the queue
  alone and collapse by themselves; the theorems are for any. Errors are counted to one,
  since nothing depends on the counter.
* Two connections are the two sides of every race on `learned`, `blocked` and
  the leaf cache; they are interchangeable (symmetry is used for the safety run
  only). Four names give every class the code tells apart: essential,
  passthrough, governed, and essential spelled differently. `Proxy` has the first
  three, which makes nine pairs of a host dialled and a host named; `ProxyLive` has the
  first and the last, `ProxyBlocked` all; the theorems are for any names. The three
  engine states, in all three runs, are down, up without a bundle, and up with one that
  allows some requests and denies others.
* Two failures and two kills let a second fault hit the recovery from the first.
  One guard and one `repair` meddle with each other; two guards on one port
  do so as a rule, which no property claims to survive.
* Supervisor: the service and one other guard are enough for every pair of a guard
  and a foreign engine, and an orphan beside both. `MaxBackoff` = `LongRun` =
  `Patience` = 3 stand for 30: the backoff goes through 1, 2 and 4 as it goes
  through 1, ..., 32, with runs on either side of the limit. Three faults end the
  engine of a serving guard, the one after it before it is up, and something else; or
  leave the service alive after an uninstall.
* Download: two processes are the two sides of every race on a name; one of them
  may come by the launcher or from the cache. Two chunks tell apart nothing, a
  part and the whole, and let the last chunk be written without the first. Five
  files are as many as can be named or open at a time.
* Lifecycle: two pairings are an init after an uninstall, with what the first
  round left; two faults let a kill or a failure hit the recovery from another. One line of the
  user is enough, since no line is treated unlike another; it may be absent,
  before the block, after it, or only in the copy. Two versions are the old and
  the new one.

### Fairness, and why the code justifies it

* Recorder: the ticker fires, the request has a 15 s limit and so ends (weak
  fairness); `select` chooses at random among ready cases, so that the ended
  context is seen (strong fairness on `LastFlush`); the control plane is not out
  of reach for ever (strong fairness on `Stored`, an assumption about the world).
* Proxy: goroutines are scheduled and their waits are bounded (5 s for a
  decision, 15 s to dial). Clients finish handshakes, hang up and try again, and
  the host can be dialled: assumptions about the world, stated for essential
  hosts only. Nothing is assumed of the engine: that the policy permits the tunnel from
  some time on, and that no restart forgets the host, are hypotheses of
  `LearnedIsServed` itself.
* Redirect: iptables commands return, and a guard that has begun goes on. Nobody is
  assumed to start one, and no engine to come up: that guards get past the engine
  again and again is a hypothesis of `SelfHeals` itself (while they do not, the redirect
  of a crashed guard stays, see the hazard at `main.go:233`).
* Supervisor: the service manager starts a guard that ended (weak fairness on
  `Start` of the service), goroutines are scheduled and engines start or fail (weak
  fairness on `GoesOn` and `OrphanBinds`), time goes by. Nothing is assumed of users,
  and faults are bounded. `Governed` excepts users who start guards again and again.
* Download: processes are scheduled, users and the service manager start them
  again, a download that meets no fault ends (weak fairness on `Runs`).

Deadlock is checked in every passing run except those of `Recorder`, where the
system stops once the bounds on decisions and lives are used up.

## 4. What is proved

All proofs are checked by TLAPS for every value of the constants, under the named
assumptions of the modules: bounds are naturals, outcomes have the fields of an
outcome, `Lower` is idempotent, configured hosts are lowercase (`main.go:46-48`
and `proxy.go:36-40` make them so), there is at least one name, the largest backoff
is above a second, a download has a chunk, the service is no terminal, and the disk
has a file that is neither named nor open whenever one is needed. TLC evaluates
them in the runs.

**RecorderProofs.** `TypeCorrect`, `QueueStaysLinked`, `CollapseIsBacked`,
`ChainStaysVerified`, `CursorNamesReceivedRow`, `NothingIsDropped`,
`CursorNeverReturns` and `RecorderImplementsAuditChain`.
`QueueLinked` and the verification of `cp` are not inductive by themselves. The
inductive invariant `IInv` adds:

* `Quiet` - what a dead process and an idle pusher look like;
* `Stamped` - every hash in existence is at most `clock`, and equal hashes mean
  equal rows, so that a fresh row is new everywhere;
* `Linear` - the rows ever sent together with the rows in memory never claim the
  same predecessor twice;
* `Rooted` - the rows in memory hang, through the cursor, from a row the control
  plane holds. `Linear` and `Rooted` hold as long as the chain is `Intact`
  (nothing refused, nothing forked).

`Linear` is what makes a late push harmless, `Rooted` what makes a failed push
harmless. TLC checked `IInv` on the bounds of `Recorder.cfg` before it was
proved. `CursorNamesReceivedRow` says that the comment which `RecorderCursor`
refutes is true except for error statuses: unless a push was refused, the saved cursor
names a received row, and a life that forks the chain is no exception. The refinement is
proved step by step:
every action maps to `Receive`, to `Break` or to a stutter of `AuditChain`.

The two action properties need more. `NothingDropped` needs `AnsweredInv`: once the
pusher is past the answer, the batch in its local variable has been received or
refused, so that it may be let go of. `CursorAdvances` needs `NumberedInv`: the rows in
memory are
numbered in order and above the saved cursor, so that whatever batch is saved next ends
beyond it.

**ProxyProofs.** `TypeCorrect`, `OnlyListedUninspected`, `VerdictStaysInForce`,
`RecordedBeforeEffect`, `ProxyImplementsGate` and `BlockedRejectedInspection`, for any
number of connections and names and any set of engine states. The inductive invariant
is one statement per connection (`ConnInv`) and one about the shared sets: only listed
hosts are learned, no listed host is blocked; a raw tunnel's host is listed; a request
that waits for its decision has seen everything the engine permits at present; an
allowed request has been decided and recorded, in that order. It is needed because
`UninspectedByRule` speaks of `blocked` as it is now, long after the tunnel was routed
by `learned` as it was then. The refinement of `Gate` is proved connection by
connection: an action changes at most one connection, and `GateOf` maps the change to
one step of `Gate` or to none; a change at the engine is `Change`, which marks all
waiting requests that it permits. It is the reason why `SplicedInv` says that only a
CONNECT can be on its way to a raw tunnel. `BlockedRejectedInspection` draws the line
around the finding of `ProxyBlocked`: while no client that accepts the leaf breaks its
handshake off or leaves the server name out (`Completed`), and no leaf expires in the
cache, only hosts that reject inspection are ever blocked.

**RedirectProofs.** `TypeCorrect`, `RulesNeverStack`, `ServesGoverned`,
`RemovalIsClean` and `StopsCleanUndisturbed`, for any number of guards and repairs,
any kernel, and any number of failures and kills, nobody meddling where the property
says so. A process has a suffix of its task's
program yet to run (`TypeInv`), so that the number of commands left says which have
been run. As long as no two processes worked on it at a time, each table has a
beginning of the rules (`Begun`), and what the table holds follows from what has been
run (`Holds`): after its flush an install has appended exactly the rules it passed;
after its flush a removal finds the rules gone. `ServingGoverned` needs the whole of
it, since it speaks of tables made up to sixteen commands ago.

`StopsCleanUndisturbed` does the same for the finding of `RedirectStop`: with one
guard, a kernel that can redirect IPv6 whenever it can redirect IPv4, no command
that fails by chance and nothing killed, a guard that has ended has left nothing
redirected, however it ended, as long as no repair's command comes between its own, or
one of its own between a repair's. Its invariant
(`StopInv`) is that an install fails only before the first rule is in the table: a
command ends it only if its family has no chain, a supported family has one from
`new` on (`Leaves`), and an unsupported one fails at its flush.

**SupervisorProofs.** `TypeCorrect`, `NoStrangersPolicy` and `OutageStaysBounded`, for
any number of foreground guards, pairings and faults, and any times. `OwnInv` says of
whom a configuration can be that is not the present one: the guard of the service and
its engine always have it, because uninstall ends both, unless the service has outlived
an uninstall. `OutInv` says that one guard
serves at most and relates `down` to its supervisor (`DownInv`): while the port is
without an engine, the seconds gone by and the seconds left of the pause make up at
most one backoff more than engines have ended before they were up; a child that finds
the port taken puts an engine there that ends the outage.

**DownloadProofs.** `TypeCorrect`, `EngineInPlace` and `CacheInPlace`, for any number of
processes, chunks and faults, and any disk with a file to spare. `Apart` says that
the names lead to different files and that nobody writes a launcher's download and
an engine's to one file. `EngineInv` says of the engine's file and of the temporary
one that somebody copies into it who has written all that he passed (`Whence`), or
that it is whole. `CacheInv` is the same for the cache, where a launcher that wrote
or is about to check may also stand behind a part.

**LifecycleProofs.** `TypeCorrect`, `WiredServes` and `LinesAreKept`, for any lines and
any number of pairings, versions and faults. The command at work has a suffix of
its program to go (`InPlace`), and `Has` says, by the length of that suffix, what it
has done so far; `Copied` says where the user's lines are between commands, `Made`
that a certificate is of some CA. `Has` is where the order of the steps matters:
swap two of them and a clause fails.

**LifecycleCleanProofs.** `UninstallCleans` and `InitGoesThrough`. `CleanInv` adds,
until a removal step fails, what is true between commands (`Between`: no certificate
without a readable guard.json, no trust but for an inspecting pairing), what an init
finds that got past its refusal (`Finds`: no certificate, unless it was raced), and
what an uninstall has taken away at each point of its program (`Gone`). TLC checked
`CleanInv` on the bounds of
`Lifecycle.cfg` before it was proved.

**LifecycleEffectProofs.** `InitIsEffective`, `RepairIsEffective` and
`UpdateRestartsOnDarwin`. `EffectInv` says, by the number of steps that an init without
a failure has left, what it has brought about by then: no later step of its own, nor
the service that may start in between, takes it away again, but for a key that the
service was replacing when it was cut short (`halved`). `RepairInv` says that
a repair about to remove the copy has unwired OpenClaw, and `UpdateInv` that an update
on macOS has unloaded the service before it loads it. The last theorem says that the
comment which `LifecycleUpdate` refutes on Linux is true on macOS. TLC checked all
three invariants on the bounds of `Lifecycle.cfg` before they were proved.

**Only model-checked**: the liveness properties `QueuedRowSettles`, `LearnedIsServed`,
`SelfHeals`, `GetsGoing` and `Governed`, since fairness and `ENABLED` are beyond the
prover. Every invariant, every action property and both
refinements of the passing runs are proved. **Assumed by the models**: iptables,
service managers, the file system, clients, the control plane and OPA behave as
their operators say.

## 5. What is not modelled

* Bytes: headers, bodies, streaming, JSON, hashing, certificates.
* `PeekBody` and `HeaderMap` (they shape the policy's input), `OriginalDst`. A body
  cut short is evaluated and forwarded as if it were whole; no document says what
  should become of such a request.
* Errors that only a malformed configuration can cause: an unparsable control
  plane URL in `flush`, a port of zero in `Install`.
* `heartbeat`, which reads three counters every 15 s and sends them: it has no state
  beyond its ticker, and nothing reads what it sends. `exec` and `status`, which
  change nothing of the guard.
* The handshake of an inspected connection, which has no deadline (`mitm.go:53`): a
  silent client keeps its goroutine, and no property of the model can mind, since
  connections share nothing but the sets.
* `wiring` line by line: `stripBlock` and the quoting are abstracted to the lines
  before and after a block; no user's line is treated unlike another.
* In `Lifecycle`: the redirect (it is in `Redirect`), `chain.json`, which uninstall
  keeps, and two processes that have both found no certificate and write one at the same
  time, each over the other's files.
* The composition of `Proxy` and `Recorder`. They meet in `Recorder.Add` alone, which
  returns nothing to the handler: `RecordedFirst` ends and `CollapsedIsQueued` begins
  there.
* A `guard.json` that was cut short blocks init and uninstall alike, until it is
  deleted by hand; the model has that state, and no property excludes it. Likewise
  a part of the guard that a killed launcher left in the cache, from a megabyte on
  (`marred`).

## 6. Plan

1. `Wiring`: `stripBlock`, `InjectProxy` and `Restore` as functions on sequences of
   lines, checked against a reference definition over bounded files, with markers
   that the user's own editing has duplicated or torn apart.
2. `Guard`: `Proxy` composed with `Recorder`: what was sent upstream is, in the end,
   at the control plane or refused by it.
3. An abstract specification of a redirect that is whole or harmless whenever
   nobody meddles, and `Redirect` shown to implement it.
4. Two recorders with one `chain.json`: what a pairing after an uninstall, or a guard
   in a terminal beside the service, does to the chain.
