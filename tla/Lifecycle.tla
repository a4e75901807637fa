----------------------------- MODULE Lifecycle -----------------------------
(***************************************************************************)
(* The commands that set the guard up and take it down: init, uninstall,    *)
(* repair, update and service (cmd/guard/main.go), with what they do to     *)
(* the files of config, ca and opa, to OpenClaw's service-env (wiring), to  *)
(* the boot service (svc) and to the system's trust store (trust).          *)
(*                                                                         *)
(* One command runs at a time.  Each is a sequence of steps; any of them   *)
(* may fail, and the command may be killed before, within or after any of  *)
(* them.  os.WriteFile truncates a file before it writes, so a write that  *)
(* fails or is killed may leave a part of the content.                     *)
(***************************************************************************)
EXTENDS Naturals, Sequences

CONSTANTS
  Systems,      \* of "linux" and "darwin", those considered
  Lines,        \* what a user may have in OpenClaw's service-env
  MaxPairings,  \* bound on the pairing codes
  MaxVersions,  \* bound on the versions of the guard
  MaxFaults     \* bound on the steps that fail and the commands that are killed

ASSUME SystemsAssumption == Systems \subseteq {"linux", "darwin"}
ASSUME BoundsAssumption ==
  MaxPairings \in Nat /\ MaxVersions \in Nat \ {0} /\ MaxFaults \in Nat

VARIABLES
  system,
  cli,                        \* the command that runs, or ran last
  guard, opaConfig, pairings, \* guard.json, opa-config.yaml; codes claimed
  ca, trusted,                \* ca.crt and ca.key; the CAs in the trust store
  minting,                    \* the service has written ca.crt and is to write ca.key
  env, backup,                \* the service-env and its copy
  unit, loaded, running,      \* versions: in the unit file, known to the manager, of the process
  version,                    \* of the binary that commands are run with
  faults,                     \* failures and kills so far
  owed,                       \* history: the lines the user had when init began
  spoiled, left, slipped,     \* history: see LinesKept, WiredIsServable, CleanUninstall
  imposed, halved             \* history: see CleanUninstall, WiredIsServable

pairing == <<guard, opaConfig, pairings>>
store   == <<trusted, imposed>>
making  == <<minting, halved>>
cafiles == <<ca, store, making>>
wiring  == <<env, backup, owed, spoiled>>
service == <<unit, loaded, running>>
rest    == <<system, version>>
chance  == <<faults, slipped>>
vars == <<rest, cli, pairing, cafiles, wiring, service, chance, left>>

File == {"none", "part", "whole"}

Options == [mode : {"forward", "transparent"}, inspect : BOOLEAN]

NoOptions == [mode |-> "forward", inspect |-> FALSE]

Guard == [is : File, with : Options]

NoGuard == [is |-> "none", with |-> NoOptions]

\* A service-env file: the lines of the user before and after the guard's block.
Env == [before : SUBSET Lines, block : File, after : SUBSET Lines]

NoEnv == [before |-> {}, block |-> "none", after |-> {}]

Backup == [made : BOOLEAN, of : Env]

NoBackup == [made |-> FALSE, of |-> NoEnv]

\* made counts the CAs: the one in the files is the last.
CAFiles == [crt : File, key : File, made : Nat]

UserLines(e) == e.before \cup e.after

\* stripBlock: without its end marker, the block extends to the end of the file.
Strip(e) ==
  [NoEnv EXCEPT !.before = IF e.block = "part" THEN e.before ELSE UserLines(e)]

\* What a write of e that is cut short leaves.
Parts(e) ==
  {[NoEnv EXCEPT !.before = s] : s \in SUBSET UserLines(e)}
    \cup IF e.block = "none" THEN {}
         ELSE {[e EXCEPT !.block = "part", !.after = {}]} \cup {[e EXCEPT !.after = s] : s \in SUBSET e.after}

Init ==
  /\ system \in Systems
  /\ cli = [cmd |-> "none", with |-> NoOptions, todo |-> <<>>, end |-> "done", failed |-> FALSE, raced |-> FALSE]
  /\ guard = NoGuard /\ opaConfig = "none" /\ pairings = 0
  /\ ca = [crt |-> "none", key |-> "none", made |-> 0] /\ trusted = {} /\ minting = FALSE
  /\ \E s \in SUBSET Lines : env = [NoEnv EXCEPT !.before = s]
  /\ backup = NoBackup
  /\ unit = 0 /\ loaded = 0 /\ running = 0 /\ version = 1
  /\ faults = 0
  /\ owed = {} /\ spoiled = FALSE /\ left = FALSE /\ slipped = FALSE /\ imposed = FALSE /\ halved = FALSE

-----------------------------------------------------------------------------
(* Commands.                                                               *)

If(b, steps) == IF b THEN steps ELSE <<>>

\* svc.Install, svc.Uninstall.
InstallService ==
  IF system = "linux" THEN <<"unit", "reload", "enable">> ELSE <<"unit", "unload", "load">>

UninstallService ==
  <<"stop", "rmunit">> \o If(system = "linux", <<"reload">>)

\* wiring.InjectProxy, wiring.Restore.
InjectLast == <<"inject", "backup">>

InjectProxy == <<"backup", "inject">>

RestoreCopyFirst == <<"rmbackup", "restore">>

RestoreEnv == <<"restore", "rmbackup">>

InitTrustFirst(o) ==
  <<"claim", "guard", "opa">>
    \o If(o.mode = "forward",
          If(o.inspect, <<"trust", "crt", "key">>) \o InjectProxy \o InstallService)

InitSteps(o) ==
  <<"claim", "guard", "opa">>
    \o If(o.mode = "forward",
          If(o.inspect, <<"crt", "key", "trust">>) \o InjectProxy \o InstallService)

UninstallGuardFirst(o) ==
  UninstallService \o <<"rmguard">> \o If(o.inspect, <<"distrust">>)
    \o If(o.mode = "forward", RestoreEnv) \o <<"rmca", "rmopa">>

UninstallKeepingCA(o) ==
  UninstallService \o If(o.inspect, <<"distrust">>)
    \o If(o.mode = "forward", RestoreEnv) \o <<"rmopa", "rmguard">>

UninstallDistrustLast(o) ==
  UninstallService \o If(o.mode = "forward", RestoreEnv) \o <<"rmca", "rmopa">>
    \o If(o.inspect, <<"distrust">>) \o <<"rmguard">>

\* The redirect of transparent mode is in Redirect.
UninstallSteps(o) ==
  UninstallService \o If(o.inspect, <<"distrust">>)
    \o If(o.mode = "forward", RestoreEnv) \o <<"rmca", "rmopa", "rmguard">>

Commands == {"none", "init", "uninstall", "repair", "update", "service install", "service uninstall"}

Steps ==
  {"claim", "guard", "opa", "crt", "key", "trust", "backup", "inject", "unit", "reload", "enable", "unload",
   "load", "stop", "rmunit", "distrust", "restore", "rmbackup", "rmca", "rmopa", "rmguard"}

Endings == {"running", "done", "fatal", "killed", "refused"}

Idle == cli.end # "running"

Begins(cmd, opts, steps) ==
  /\ Idle
  /\ cli' = [cmd |-> cmd, with |-> opts, todo |-> steps, failed |-> FALSE, raced |-> FALSE,
             end |-> IF steps = <<>> THEN "done" ELSE "running"]

Refuses(cmd) ==
  /\ Idle
  /\ cli' = [cmd |-> cmd, with |-> NoOptions, todo |-> <<>>, failed |-> FALSE, raced |-> FALSE, end |-> "refused"]

\* config.Exists: init refuses if there is a guard.json, readable or not.
InitCommand(o) ==
  /\ o.mode = "transparent" => system = "linux"
  /\ \/ guard.is # "none" /\ Refuses("init") /\ UNCHANGED owed
     \/ /\ guard.is = "none" /\ pairings < MaxPairings
        /\ Begins("init", o, InitSteps(o))
        /\ owed' = IF env.block = "none" THEN UserLines(env) ELSE owed
  /\ UNCHANGED <<rest, pairing, cafiles, env, backup, spoiled, service, chance, left>>

\* config.Load succeeds.
Paired == guard.is = "whole"

\* uninstall, repair and update want a pairing, service install and service
\* uninstall look at no configuration.
Command ==
  /\ \/ ~Paired /\ \E cmd \in {"uninstall", "repair", "update"} : Refuses(cmd)
     \/ Paired /\ Begins("uninstall", NoOptions, UninstallSteps(guard.with))
     \/ Paired /\ Begins("repair", NoOptions, If(guard.with.mode = "forward", RestoreEnv))
     \/ Paired /\ Begins("update", NoOptions, InstallService)
     \/ Begins("service install", NoOptions, InstallService)
     \/ Begins("service uninstall", NoOptions, UninstallService)
  /\ UNCHANGED <<rest, pairing, cafiles, wiring, service, chance, left>>

-----------------------------------------------------------------------------
(* Steps.                                                                  *)

Outcomes == {"works", "fails", "killed"}

\* What a step may leave that changes old to new, with parts in between.
After(out, old, new, parts) ==
  CASE out = "works"  -> {new}
    [] out = "fails"  -> {old} \cup parts
    [] out = "killed" -> {old, new} \cup parts

\* A command ends if one of these fails; after the others it goes on, with a
\* warning or without.
Fatal(step) ==
  \/ step \in {"claim", "guard", "opa", "crt", "key", "backup", "inject", "rmguard"}
  \/ step \in {"unit", "reload", "enable", "load"} /\ cli.cmd \in {"update", "service install"}
  \/ step \in {"restore", "rmbackup"} /\ cli.cmd = "repair"

\* How many steps are left out: svc.Install, the last that init does, and
\* wiring.Restore return at their first error.
Skipped(step) ==
  CASE step \in {"unit", "reload"} /\ cli.cmd = "init" -> Len(cli.todo) - 1
    [] step = "restore" -> 1
    [] OTHER -> 0

\* The command goes on without the n steps that would follow.
GoesOn(n) ==
  LET todo == SubSeq(cli.todo, n + 2, Len(cli.todo))
  IN  [cli EXCEPT !.todo = todo, !.end = IF todo = <<>> THEN "done" ELSE "running"]

Quits(how) == [cli EXCEPT !.todo = <<>>, !.end = how]

Removals == {"uninstall", "service uninstall"}

\* What a command does when a step fails.
Copes(step) ==
  [IF Fatal(step) THEN Quits("fatal") ELSE GoesOn(Skipped(step)) EXCEPT !.failed = TRUE]

AtStep(step) == ~Idle /\ Head(cli.todo) = step

\* The next step is run; if it works, the n that would follow are not needed.
Runs(step, out, n) ==
  /\ AtStep(step)
  /\ \/ out = "works" /\ cli' = GoesOn(n) /\ UNCHANGED chance
     \/ /\ out = "fails" /\ faults < MaxFaults
        /\ cli' = Copes(step)
        /\ faults' = faults + 1
        /\ slipped' = (slipped \/ cli.cmd \in Removals)
     \/ /\ out = "killed" /\ faults < MaxFaults
        /\ cli' = Quits("killed")
        /\ faults' = faults + 1
        /\ UNCHANGED slipped
  /\ UNCHANGED rest

\* pair.Claim.  If its answer is lost, the code is spent all the same.
Claim(out) ==
  /\ Runs("claim", out, 0)
  /\ pairings' \in After(out, pairings, pairings + 1, {pairings + 1})
  /\ UNCHANGED <<guard, opaConfig, cafiles, wiring, service, left>>

\* Config.Save.
SaveGuard(out) ==
  /\ Runs("guard", out, 0)
  /\ guard' \in After(out, guard, [is |-> "whole", with |-> cli.with], {[NoGuard EXCEPT !.is = "part"]})
  /\ UNCHANGED <<opaConfig, pairings, cafiles, wiring, service, left>>

\* opa.RenderConfig.
RenderConfig(out) ==
  /\ Runs("opa", out, 0)
  /\ opaConfig' \in After(out, opaConfig, "whole", {"part"})
  /\ UNCHANGED <<guard, pairings, cafiles, wiring, service, left>>

CALoads == ca.crt = "whole" /\ ca.key = "whole"

\* EnsureCA: a CA is made, unless there is a certificate; then it must load.
WriteCert(out) ==
  /\ \/ /\ ca.crt = "none"
        /\ Runs("crt", out, 0)
        /\ ca' \in After(out, ca, [ca EXCEPT !.crt = "whole", !.made = @ + 1], {[ca EXCEPT !.crt = "part"]})
     \/ CALoads /\ out = "works" /\ Runs("crt", out, 1) /\ UNCHANGED ca
  /\ UNCHANGED <<pairing, store, making, wiring, service, left>>

CANotLoaded ==
  /\ AtStep("crt") /\ ca.crt # "none" /\ ~CALoads
  /\ cli' = Quits("fatal")
  /\ UNCHANGED <<rest, pairing, cafiles, wiring, service, chance, left>>

WriteKey(out) ==
  /\ Runs("key", out, 0)
  /\ ca' \in After(out, ca, [ca EXCEPT !.key = "whole"], {[ca EXCEPT !.key = "part"]})
  /\ UNCHANGED <<pairing, store, making, wiring, service, left>>

\* trust.Install: on Linux there is one file for the certificate.
Trust(out) ==
  /\ Runs("trust", out, 0)
  /\ LET new == (IF system = "linux" THEN {} ELSE trusted) \cup {ca.made}
     IN  trusted' \in After(out, trusted, new, {new})
  /\ UNCHANGED <<pairing, ca, imposed, making, wiring, service, left>>

\* trust.Remove: on macOS the certificate to remove is the one in ca.crt.
Distrust(out) ==
  /\ Runs("distrust", out, 0)
  /\ LET new == IF system = "linux" THEN {} ELSE trusted \ {g \in {ca.made} : ca.crt = "whole"}
     IN  trusted' \in After(out, trusted, new, {new})
  /\ UNCHANGED <<pairing, ca, imposed, making, wiring, service, left>>

\* cmdRun's EnsureCA: the service makes a CA too, whatever command is at work.
\* It writes one file and then the other, and may fail or be killed within each.
\* A process that has ended or was replaced writes no more.
Interrupts == minting' = (minting /\ running' = running)

MakeCert ==
  /\ running # 0 /\ Paired /\ (guard.with.mode = "transparent" \/ guard.with.inspect)
  /\ ca.crt = "none" /\ ~minting
  /\ cli' = [cli EXCEPT !.raced = @ \/ ~Idle]
  /\ \/ ca' = [ca EXCEPT !.crt = "whole", !.made = @ + 1] /\ minting' = TRUE /\ UNCHANGED faults
     \/ /\ faults < MaxFaults /\ faults' = faults + 1
        /\ ca' = [ca EXCEPT !.crt = "part"] /\ UNCHANGED minting
  /\ UNCHANGED <<rest, pairing, store, halved, wiring, service, slipped, left>>

MakeKey ==
  /\ minting /\ minting' = FALSE
  /\ \/ ca' = [ca EXCEPT !.key = "whole"] /\ UNCHANGED <<faults, halved>>
     \/ /\ faults < MaxFaults /\ faults' = faults + 1
        /\ ca' \in {ca, [ca EXCEPT !.key = "part"]}
        /\ halved' = (halved \/ ca.key = "whole")
  /\ UNCHANGED <<rest, cli, pairing, store, wiring, service, slipped, left>>

\* runTransparent, by hand and as root: the CA is made and trusted whether or not
\* inspection was asked for; that it cannot be trusted is only reported.
RunTransparent ==
  /\ Idle /\ Paired /\ guard.with.mode = "transparent"
  /\ \/ CALoads /\ UNCHANGED ca
     \/ ca.crt = "none" /\ ca' = [crt |-> "whole", key |-> "whole", made |-> ca.made + 1]
  /\ \/ UNCHANGED store
     \/ trusted' = {ca'.made} /\ imposed' = (imposed \/ ~guard.with.inspect)
  /\ UNCHANGED <<rest, cli, pairing, making, wiring, service, chance, left>>

\* os.RemoveAll: one file after the other.
RemoveCA(out) ==
  /\ Runs("rmca", out, 0)
  /\ ca' \in After(out, ca, [ca EXCEPT !.crt = "none", !.key = "none"],
                   {[ca EXCEPT !.crt = "none"], [ca EXCEPT !.key = "none"]})
  /\ UNCHANGED <<pairing, store, making, wiring, service, left>>

RemoveOPAConfig(out) ==
  /\ Runs("rmopa", out, 0)
  /\ opaConfig' \in After(out, opaConfig, "none", {})
  /\ UNCHANGED <<guard, pairings, cafiles, wiring, service, left>>

RemoveGuard(out) ==
  /\ Runs("rmguard", out, 0)
  /\ guard' \in After(out, guard, NoGuard, {})
  /\ UNCHANGED <<opaConfig, pairings, cafiles, wiring, service, left>>

-----------------------------------------------------------------------------
(* wiring.                                                                 *)

\* InjectProxy: the file is copied, if it is not empty and has no copy yet.
BackUp(out) ==
  LET copies == {[made |-> TRUE, of |-> e] : e \in Parts(env)}
  IN  /\ Runs("backup", out, 0)
      /\ IF env = NoEnv \/ backup.made THEN UNCHANGED backup
         ELSE backup' \in After(out, backup, [made |-> TRUE, of |-> env], copies)
      /\ spoiled' = (spoiled \/ (backup' # backup /\ backup'.of # env))
      /\ UNCHANGED <<pairing, cafiles, env, owed, service, left>>

\* InjectProxy: an earlier block is replaced.
Inject(out) ==
  LET wired == [Strip(env) EXCEPT !.block = "whole"]
  IN  /\ Runs("inject", out, 0)
      /\ env' \in After(out, env, wired, Parts(wired))
      /\ UNCHANGED <<pairing, cafiles, backup, owed, spoiled, service, left>>

\* Restore: the copy, or else the file without the block.
Restore(out) ==
  LET old == IF backup.made THEN backup.of ELSE Strip(env)
  IN  /\ Runs("restore", out, IF backup.made THEN 0 ELSE 1)
      /\ env' \in After(out, env, old, Parts(old))
      /\ spoiled' = (spoiled \/ (~backup.made /\ env' \notin {env, old}))
      /\ left' = (left \/ (out = "fails" /\ cli.cmd = "uninstall"))
      /\ UNCHANGED <<pairing, cafiles, backup, owed, service>>

RemoveBackup(out) ==
  /\ Runs("rmbackup", out, 0)
  /\ backup' \in After(out, backup, NoBackup, {})
  /\ spoiled' = (spoiled \/ (out = "fails" /\ cli.cmd = "uninstall"))
  /\ UNCHANGED <<pairing, cafiles, env, owed, service, left>>

\* The user adds a line at the end of the service-env.
AddLine(l) ==
  /\ Idle /\ l \notin UserLines(env)
  /\ env' = IF env.block = "none" THEN [env EXCEPT !.before = @ \cup {l}]
            ELSE [env EXCEPT !.after = @ \cup {l}]
  /\ UNCHANGED <<rest, cli, pairing, cafiles, backup, owed, spoiled, service, chance, left>>

-----------------------------------------------------------------------------
(* svc: the unit file and the service manager.                             *)

Torn == MaxVersions + 1

WriteUnit(out) ==
  /\ Runs("unit", out, 0)
  /\ unit' \in After(out, unit, version, {Torn})
  /\ UNCHANGED <<pairing, cafiles, wiring, loaded, running, left>>

\* systemctl daemon-reload.
Reload(out) ==
  /\ Runs("reload", out, 0)
  /\ loaded' \in After(out, loaded, IF unit = Torn THEN 0 ELSE unit, {})
  /\ UNCHANGED <<pairing, cafiles, wiring, unit, running, left>>

\* systemctl enable --now starts a unit that does not run.
Enable(out) ==
  /\ Runs("enable", out, 0)
  /\ running' \in After(out, running, IF running = 0 THEN loaded ELSE running, {})
  /\ UNCHANGED <<pairing, cafiles, wiring, unit, loaded, left>>

\* launchctl load starts a job that is not loaded.
Load(out) ==
  /\ Runs("load", out, 0)
  /\ loaded' \in After(out, loaded, IF loaded = 0 THEN unit ELSE loaded, {})
  /\ running' = loaded'
  /\ Interrupts
  /\ UNCHANGED <<pairing, ca, store, halved, wiring, unit, left>>

\* Both managers find a unit by its file, and launchd by what is in it.
Found == unit # 0 /\ (system = "darwin" => unit # Torn)

\* launchctl unload, systemctl disable --now.
Stop(out) ==
  /\ Found \/ out # "works" \/ running = 0
  /\ Runs("unload", out, 0) \/ Runs("stop", out, 0)
  /\ running' \in After(out, running, 0, {})
  /\ loaded' = IF system = "darwin" /\ running' = 0 THEN 0 ELSE loaded
  /\ Interrupts
  /\ UNCHANGED <<pairing, ca, store, halved, wiring, unit, left>>

StopInVain ==
  /\ AtStep("stop") /\ ~Found /\ running # 0
  /\ cli' = [GoesOn(0) EXCEPT !.failed = TRUE]
  /\ slipped' = TRUE
  /\ UNCHANGED <<rest, pairing, cafiles, wiring, service, faults, left>>

RemoveUnit(out) ==
  /\ Runs("rmunit", out, 0)
  /\ unit' \in After(out, unit, 0, {})
  /\ UNCHANGED <<pairing, cafiles, wiring, loaded, running, left>>

\* Restart=always, KeepAlive: a process that ended is started again.
Respawn ==
  /\ running # 0 /\ loaded \notin {0, running}
  /\ running' = loaded /\ Interrupts
  /\ UNCHANGED <<rest, cli, pairing, ca, store, halved, wiring, unit, loaded, chance, left>>

\* The launcher brings a newer binary.
Upgrade ==
  /\ Idle /\ version < MaxVersions
  /\ version' = version + 1
  /\ UNCHANGED <<system, cli, pairing, cafiles, wiring, service, chance, left>>

Step(out) ==
  \/ Claim(out) \/ SaveGuard(out) \/ RenderConfig(out)
  \/ WriteCert(out) \/ WriteKey(out) \/ Trust(out)
  \/ BackUp(out) \/ Inject(out)
  \/ WriteUnit(out) \/ Reload(out) \/ Enable(out) \/ Load(out)
  \/ Stop(out) \/ RemoveUnit(out) \/ Distrust(out)
  \/ Restore(out) \/ RemoveBackup(out)
  \/ RemoveCA(out) \/ RemoveOPAConfig(out) \/ RemoveGuard(out)

Next ==
  \/ \E o \in Options : InitCommand(o)
  \/ Command
  \/ \E out \in Outcomes : Step(out)
  \/ CANotLoaded \/ MakeCert \/ MakeKey \/ RunTransparent \/ StopInVain
  \/ \E l \in Lines : AddLine(l)
  \/ Respawn \/ Upgrade

Spec == Init /\ [][Next]_vars

-----------------------------------------------------------------------------
(* Properties.                                                             *)

TypeOK ==
  /\ system \in Systems
  /\ cli \in [cmd : Commands, with : Options, todo : Seq(Steps), end : Endings, failed : BOOLEAN, raced : BOOLEAN]
  /\ cli.end = "running" <=> cli.todo # <<>>
  /\ guard \in Guard /\ opaConfig \in File /\ pairings \in 0 .. MaxPairings
  /\ ca \in CAFiles /\ trusted \subseteq 1 .. ca.made /\ (minting => running # 0)
  /\ env \in Env /\ backup \in Backup
  /\ version \in 1 .. MaxVersions /\ {unit, loaded, running} \subseteq (0 .. version) \cup {Torn}
  /\ Torn \notin {loaded, running}
  /\ faults \in 0 .. MaxFaults
  /\ owed \subseteq Lines /\ {minting, spoiled, left, slipped, imposed, halved} \subseteq BOOLEAN

\* OpenClaw is never pointed at a guard that cannot start: while the block is in
\* its environment, guard.json is readable and, with inspection, so is the CA,
\* wherever commands are killed (main.go:155-198, 396-419).  The exceptions are an
\* uninstall that goes on although it could not restore the file, and for the CA a
\* service that is cut short while it writes ca.key over one that was left there.
WiredIsServable ==
  env.block # "none" /\ ~left =>
    Paired /\ guard.with.mode = "forward" /\ (guard.with.inspect => CALoads \/ halved)

\* The lines the user had when the guard was wired are in the service-env or in
\* its copy, whatever is killed and repeated (wiring.go:28-30, 71).  They can be
\* lost in these ways only: the copy is cut short; the file is cut short while
\* there is no copy; an uninstall goes on and leaves an old copy behind.
LinesKept == spoiled \/ left \/ owed \subseteq UserLines(env) \cup UserLines(backup.of)

\* After an uninstall the configuration, the CA, the wiring and the service are
\* gone, whatever earlier commands had reached when they were killed
\* (main.go:396-419), unless a step of an uninstall failed.  The engine's binary
\* and chain.json are kept, and a CA that a transparent guard had trusted although it
\* was not to inspect stays trusted (main.go:273, 402).
CleanUninstall ==
  cli.cmd = "uninstall" /\ cli.end = "done" /\ ~slipped =>
    /\ guard.is = "none" /\ opaConfig = "none" /\ ca.crt = "none" /\ ca.key = "none"
    /\ trusted = {} \/ imposed
    /\ env.block = "none" /\ ~backup.made
    /\ unit = 0 /\ loaded = 0 /\ running = 0

\* An init that is not refused fails only if a step of its own does: nothing that
\* killed commands left behind is in its way (main.go:119-198), unless a step of
\* an uninstall failed.  The exception is a service that was installed before: it
\* begins to make a CA as soon as init has saved guard.json, and init, met with
\* one file of two or with what a service cut short has left, gives up
\* (ca.go:38-54, main.go:249).
InitUnhindered ==
  cli.cmd = "init" /\ cli.end = "fatal" /\ ~slipped => cli.failed \/ cli.raced

\* An init that ends well has done all it reports, over whatever earlier commands
\* and the service had left: the configuration is the new one, OpenClaw is wired
\* to a guard that runs, and the CA that guard will load is the one the system
\* trusts (main.go:155-204), unless a service is cut short within ca.key as above.
InitTakesEffect ==
  cli.cmd = "init" /\ cli.end = "done" /\ ~cli.failed =>
    /\ guard = [is |-> "whole", with |-> cli.with] /\ opaConfig = "whole"
    /\ cli.with.mode = "forward" =>
         /\ env.block = "whole"
         /\ cli.with.inspect => (CALoads \/ halved) /\ ca.made \in trusted
         /\ {unit, loaded, running} \subseteq 1 .. version

\* A repair that ends well has unwired OpenClaw and given the user's lines back,
\* whatever commands were cut short before (main.go:349-373), unless an earlier
\* uninstall went on with a file it could not restore.
RepairRestores ==
  cli.cmd = "repair" /\ cli.end = "done" /\ ~left =>
    env.block = "none" /\ (spoiled \/ owed \subseteq UserLines(env))

\* main.go:424-425: update re-points the background service "at this binary and
\* restart[s] it".
UpdateTakesEffect == cli.cmd = "update" /\ cli.end = "done" => running = unit
=============================================================================
