----------------------- MODULE LifecycleEffectProofs -----------------------
(***************************************************************************)
(* Proofs about Lifecycle, continued: what an init and a repair that end   *)
(* well have brought about, over whatever was there.                       *)
(***************************************************************************)
EXTENDS LifecycleProofs

\* An init of which no step has failed so far.
GoesWell == cli.cmd = "init" /\ ~cli.failed /\ cli.end \in {"running", "done"}

\* What such an init has brought about, and nothing else undoes.
Effect(o) ==
  /\ ToGo <= (IF ~Forward(o) THEN 1 ELSE IF o.inspect THEN 9 ELSE 6) => guard = [is |-> "whole", with |-> o]
  /\ ToGo <= (IF ~Forward(o) THEN 0 ELSE IF o.inspect THEN 8 ELSE 5) => opaConfig = "whole"
  /\ Forward(o) /\ o.inspect =>
       /\ ToGo <= 7 => ca.crt = "whole"
       /\ ToGo <= 6 => halved \/ ca.key = "whole"
       /\ ToGo <= 5 => ca.made \in trusted
  /\ Forward(o) =>
       /\ ToGo <= 3 => env.block = "whole"
       /\ ToGo <= 2 => unit \in 1 .. version
       /\ ToGo = 0 \/ (ToGo = 1 /\ system = "linux") => loaded \in 1 .. version
       /\ ToGo = 0 => running \in 1 .. version

EffectInv == GoesWell => Effect(cli.with)

\* A repair has unwired OpenClaw before it removes the copy.
RepairInv ==
  /\ cli.cmd = "repair" /\ ~Idle /\ ToGo = 1 => left \/ env.block = "none"
  /\ RepairRestores

-----------------------------------------------------------------------------
(* How a command goes on.                                                  *)

\* The last steps of init are those of svc.Install.
LEMMA InitEnds ==
  ASSUME NEW o \in Options, Forward(o), NEW n \in 1 .. 3
  PROVE  At(InitSteps(o), n) = At(InstallService, n)
<1> DEFINE first == <<"claim", "guard", "opa">>
           mid == If(o.inspect, <<"crt", "key", "trust">>) \o InjectProxy
           s == InstallService
<1>1. InitSteps(o) = first \o (mid \o s)
  BY DEF InitSteps, If, Forward
<1>2. s \in Seq(Steps) /\ Len(s) = 3
  BY InstallServiceIs
<1>3. mid \in Seq(Steps)
  <2>1. <<"crt", "key", "trust">> \in Seq(Steps) /\ <<>> \in Seq(Steps) /\ InjectProxy \in Seq(Steps)
    BY DEF InjectProxy, Steps
  <2>2. If(o.inspect, <<"crt", "key", "trust">>) \in Seq(Steps)
    BY <2>1 DEF If
  <2> QED BY <2>1, <2>2, ConcatProperties
<1>4. first \in Seq(Steps)
  BY DEF Steps
<1> HIDE DEF first, mid, s
<1>5. /\ mid \o s \in Seq(Steps) /\ Len(mid \o s) = Len(mid) + Len(s)
      /\ \A m \in 1 .. Len(s) : At(mid \o s, m) = At(s, m)
  BY <1>2, <1>3, ConcatAt
<1> DEFINE ends == mid \o s
<1>6. ends \in Seq(Steps) /\ Len(ends) \in Nat /\ Len(ends) >= 3 /\ At(ends, n) = At(s, n)
  <2>1. Len(mid) \in Nat
    BY <1>3
  <2> QED BY <1>2, <1>5, <2>1
<1>7. InitSteps(o) = first \o ends
  BY <1>1
<1> HIDE DEF ends
<1>8. At(first \o ends, n) = At(ends, n)
  <2>1. \A m \in 1 .. Len(ends) : At(first \o ends, m) = At(ends, m)
    BY <1>4, <1>6, ConcatAt
  <2>2. n \in 1 .. Len(ends)
    BY <1>6
  <2> QED BY <2>1, <2>2
<1> QED BY <1>6, <1>7, <1>8 DEF s

LEMMA InstallsWith ==
  /\ system = "linux" => At(InstallService, 2) = "reload" /\ At(InstallService, 1) = "enable"
  /\ system # "linux" => At(InstallService, 2) = "unload" /\ At(InstallService, 1) = "load"
<1>1. CASE system = "linux"
  <2>1. InstallService = <<"unit", "reload", "enable">>
    BY <1>1 DEF InstallService
  <2> QED BY <1>1, <2>1 DEF At
<1>2. CASE system # "linux"
  <2>1. InstallService = <<"unit", "unload", "load">>
    BY <1>2 DEF InstallService
  <2> QED BY <1>2, <2>1 DEF At
<1> QED BY <1>1, <1>2

\* By which manager init has the service loaded and started.
LEMMA InstallPlace ==
  ASSUME IInv, NEW step, AtStep(step), cli.cmd = "init", Forward(cli.with)
  PROVE  /\ ToGo = 2 => step = IF system = "linux" THEN "reload" ELSE "unload"
         /\ ToGo = 1 => step = IF system = "linux" THEN "enable" ELSE "load"
<1>1. ~Idle /\ cli.todo \in Seq(Steps) /\ ToGo \in Nat \ {0} /\ cli.with \in Options
  BY Place DEF IInv
<1>2. step = cli.todo[1]
  <2>1. cli.todo # <<>>
    BY <1>1 DEF ToGo
  <2> QED BY <1>1, <2>1, HeadTailProperties DEF AtStep
<1>3. Program = InitSteps(cli.with) /\ Program \in Seq(Steps) /\ Suffix(cli.todo, Program)
  BY <1>1, ProgramType DEF IInv, InPlace, Program
<1>4. step = At(Program, ToGo)
  <2>1. 1 \in 1 .. Len(cli.todo) /\ Len(Program) \in Nat
    BY <1>1, <1>3 DEF ToGo
  <2>2. cli.todo[1] = Program[Len(Program) - Len(cli.todo) + 1]
    BY <1>3, <2>1 DEF Suffix
  <2> QED BY <1>2, <2>2 DEF At, ToGo
<1>5. ToGo \in 1 .. 3 => step = At(InstallService, ToGo)
  BY <1>1, <1>3, <1>4, InitEnds
<1> QED BY <1>5, InstallsWith

\* A command that goes on or ends well, with no failure noted or allowed, is at
\* a step that works.
LEMMA Works ==
  ASSUME IInv, NEW step, NEW out \in Outcomes, NEW n \in {0, 1}, n = 1 => ToGo > 1, Runs(step, out, n),
         cli'.end \in {"running", "done"}, ~cli'.failed \/ Fatal(step)
  PROVE  /\ out = "works" /\ AtStep(step) /\ ToGo \in Nat \ {0} /\ ToGo' = ToGo - 1 - n
         /\ system' = system /\ version' = version /\ cli'.failed = cli.failed
         /\ cli'.cmd = cli.cmd /\ cli'.with = cli.with /\ cli.end = "running" /\ (Idle' <=> ToGo' = 0)
<1>1. /\ AtStep(step) /\ system' = system /\ version' = version /\ cli' \in Cli /\ cli'.cmd = cli.cmd /\ cli'.with = cli.with
      /\ (cli'.end = "running" <=> cli'.todo # <<>>)
  BY HasRun DEF Ran
<1>2. ~Idle /\ ToGo \in Nat \ {0} /\ cli \in Cli
  BY <1>1, Place, TypeParts DEF IInv, CliOK
<1>3. out # "killed"
  <2>1. CASE out = "killed"
    <3>1. cli' = [cli EXCEPT !.todo = <<>>, !.end = "killed"]
      BY <2>1 DEF Runs, Quits
    <3> QED BY <1>2, <3>1 DEF Cli
  <2> QED BY <2>1
<1>4. out # "fails"
  <2>1. CASE out = "fails" /\ Fatal(step)
    <3>1. cli' = [Quits("fatal") EXCEPT !.failed = TRUE]
      BY <2>1 DEF Runs, Copes
    <3>2. cli' = [[cli EXCEPT !.todo = <<>>, !.end = "fatal"] EXCEPT !.failed = TRUE]
      BY <3>1 DEF Quits
    <3> QED BY <1>2, <3>2 DEF Cli
  <2>2. CASE out = "fails" /\ ~Fatal(step)
    <3>1. cli' = [GoesOn(Skipped(step)) EXCEPT !.failed = TRUE]
      BY <2>2 DEF Runs, Copes
    <3>2. GoesOn(Skipped(step)) \in Cli
      BY <1>1, <1>2, SkippedIs, GoesOnIs DEF IInv
    <3> DEFINE g == GoesOn(Skipped(step))
    <3>3. g \in Cli /\ cli' = [g EXCEPT !.failed = TRUE]
      BY <3>1, <3>2
    <3> HIDE DEF g
    <3>4. cli'.failed
      BY <3>3 DEF Cli
    <3> QED BY <2>2, <3>4
  <2> QED BY <2>1, <2>2
<1>5. out = "works"
  BY <1>3, <1>4 DEF Outcomes
<1>6. cli' = GoesOn(n)
  BY <1>5 DEF Runs
<1>7. cli'.failed = cli.failed
  <2>1. cli' = [cli EXCEPT !.todo = SubSeq(cli.todo, n + 2, Len(cli.todo)),
                           !.end = IF SubSeq(cli.todo, n + 2, Len(cli.todo)) = <<>> THEN "done" ELSE "running"]
    BY <1>6 DEF GoesOn
  <2> QED BY <1>2, <2>1 DEF Cli
<1>8. ToGo' = ToGo - 1 - n
  <2>1. n \in Nat /\ n < ToGo
    BY <1>2
  <2> QED BY <1>2, <1>6, <2>1, GoesOnIs DEF IInv, ToGo
<1>9. Idle' <=> ToGo' = 0
  <2>1. cli'.todo \in Seq(Steps)
    BY <1>1 DEF Cli
  <2> QED BY <1>1, <2>1, EmptySeq DEF Idle, ToGo
<1> QED BY <1>1, <1>2, <1>5, <1>7, <1>8, <1>9 DEF Idle

\* init is at this step and has brought about what comes before it.
LEMMA Onward ==
  ASSUME IInv, EffectInv, NEW step, NEW out \in Outcomes, NEW n \in {0, 1}, n = 1 => ToGo > 1, Runs(step, out, n),
         GoesWell'
  PROVE  /\ out = "works" /\ AtStep(step) /\ ToGo \in Nat \ {0} /\ ToGo' = ToGo - 1 - n
         /\ system' = system /\ version' = version /\ cli'.with = cli.with
         /\ cli.cmd = "init" /\ InitAt(cli.with, step, ToGo) /\ InitHas(cli.with) /\ Effect(cli.with)
<1>1. /\ out = "works" /\ AtStep(step) /\ ToGo \in Nat \ {0} /\ ToGo' = ToGo - 1 - n
      /\ system' = system /\ version' = version /\ cli'.failed = cli.failed
      /\ cli'.cmd = cli.cmd /\ cli'.with = cli.with /\ cli.end = "running"
  BY Works DEF GoesWell
<1>2. GoesWell /\ ~Idle
  BY <1>1 DEF GoesWell, Idle
<1>3. InitAt(cli.with, step, ToGo)
  BY <1>1, <1>2, Place DEF IInv, GoesWell
<1> QED BY <1>1, <1>2, <1>3 DEF EffectInv, GoesWell, IInv, Has

-----------------------------------------------------------------------------
(* The steps of init.                                                      *)

\* What each step of init brings about when it works.
LEMMA Advances ==
  ASSUME IInv, EffectInv, NEW step, NEW out \in Outcomes, NEW n \in {0, 1}, n = 1 => ToGo > 1, Runs(step, out, n),
         n = 1 => step = "crt",
         halved' = halved,
         GoesWell',
         out = "works" =>
           /\ guard' = IF step = "guard" THEN [is |-> "whole", with |-> cli.with] ELSE guard
           /\ opaConfig' = IF step = "opa" THEN "whole" ELSE opaConfig
           /\ step = "crt" => ca'.crt = "whole" /\ (n = 1 => ca'.key = "whole")
           /\ step = "key" => ca'.crt = ca.crt /\ ca'.key = "whole"
           /\ step \notin {"crt", "key"} => ca' = ca
           /\ IF step = "trust" THEN ca.made \in trusted' ELSE trusted' = trusted
           /\ IF step = "inject" THEN env'.block = "whole" ELSE env'.block = env.block
           /\ unit' = IF step = "unit" THEN version ELSE unit
           /\ step = "reload" => loaded' = IF unit = Torn THEN 0 ELSE unit
           /\ step = "enable" => loaded' = loaded /\ running' = IF running = 0 THEN loaded ELSE running
           /\ step = "load" => loaded' = (IF loaded = 0 THEN unit ELSE loaded) /\ running' = loaded'
  PROVE  Effect(cli.with)'
<1> DEFINE o == cli.with
<1>1. /\ out = "works" /\ AtStep(step) /\ ToGo \in Nat \ {0} /\ ToGo' = ToGo - 1 - n
      /\ system' = system /\ version' = version /\ cli'.with = o
      /\ cli.cmd = "init" /\ InitAt(o, step, ToGo) /\ InitHas(o) /\ Effect(o)
  BY Onward
<1>2. o.inspect \in BOOLEAN
  BY <1>1, TypeParts DEF IInv, CliOK, Cli, Options
<1>3. Effect(o)' <=>
      /\ ToGo' <= (IF ~Forward(o) THEN 1 ELSE IF o.inspect THEN 9 ELSE 6) => guard' = [is |-> "whole", with |-> o]
      /\ ToGo' <= (IF ~Forward(o) THEN 0 ELSE IF o.inspect THEN 8 ELSE 5) => opaConfig' = "whole"
      /\ Forward(o) /\ o.inspect =>
           /\ ToGo' <= 7 => ca'.crt = "whole"
           /\ ToGo' <= 6 => halved' \/ ca'.key = "whole"
           /\ ToGo' <= 5 => ca'.made \in trusted'
      /\ Forward(o) =>
           /\ ToGo' <= 3 => env'.block = "whole"
           /\ ToGo' <= 2 => unit' \in 1 .. version
           /\ ToGo' = 0 \/ (ToGo' = 1 /\ system = "linux") => loaded' \in 1 .. version
           /\ ToGo' = 0 => running' \in 1 .. version
  BY <1>1 DEF Effect, Forward
<1>4. ToGo' <= (IF ~Forward(o) THEN 1 ELSE IF o.inspect THEN 9 ELSE 6) => guard' = [is |-> "whole", with |-> o]
  <2>1. CASE step = "guard"
    BY <1>1, <2>1
  <2>2. CASE step # "guard"
    <3>1. guard' = guard
      BY <1>1, <2>2
    <3>2. ToGo # (IF ~Forward(o) THEN 2 ELSE IF o.inspect THEN 10 ELSE 7)
      BY <1>1, <2>2 DEF InitAt, ServiceAt
    <3>3. n = 1 => Forward(o) /\ o.inspect /\ ToGo = 8
      BY <1>1 DEF InitAt, ServiceAt
    <3>4. ToGo' <= (IF ~Forward(o) THEN 1 ELSE IF o.inspect THEN 9 ELSE 6)
          => ToGo <= (IF ~Forward(o) THEN 1 ELSE IF o.inspect THEN 9 ELSE 6)
      BY <1>1, <3>2, <3>3
    <3> QED BY <1>1, <3>1, <3>4 DEF Effect
  <2> QED BY <2>1, <2>2
<1>5. ToGo' <= (IF ~Forward(o) THEN 0 ELSE IF o.inspect THEN 8 ELSE 5) => opaConfig' = "whole"
  <2>1. CASE step = "opa"
    BY <1>1, <2>1
  <2>2. CASE step # "opa"
    <3>1. opaConfig' = opaConfig
      BY <1>1, <2>2
    <3>2. ToGo # (IF ~Forward(o) THEN 1 ELSE IF o.inspect THEN 9 ELSE 6)
      BY <1>1, <2>2 DEF InitAt, ServiceAt
    <3>3. n = 1 => Forward(o) /\ o.inspect /\ ToGo = 8
      BY <1>1 DEF InitAt, ServiceAt
    <3>4. ToGo' <= (IF ~Forward(o) THEN 0 ELSE IF o.inspect THEN 8 ELSE 5)
          => ToGo <= (IF ~Forward(o) THEN 0 ELSE IF o.inspect THEN 8 ELSE 5)
      BY <1>1, <3>2, <3>3
    <3> QED BY <1>1, <3>1, <3>4 DEF Effect
  <2> QED BY <2>1, <2>2
<1>6. ASSUME Forward(o), o.inspect
      PROVE  /\ ToGo' <= 7 => ca'.crt = "whole"
             /\ ToGo' <= 6 => halved' \/ ca'.key = "whole"
             /\ ToGo' <= 5 => ca'.made \in trusted'
  <2>1. /\ ToGo <= 7 => ca.crt = "whole"
        /\ ToGo <= 6 => halved \/ ca.key = "whole"
        /\ ToGo <= 5 => ca.made \in trusted
    BY <1>1, <1>6 DEF Effect
  <2>2. CASE step = "crt"
    <3>1. ToGo = 8
      BY <1>1, <1>6, <2>2 DEF InitAt, ServiceAt
    <3> QED BY <1>1, <2>2, <3>1
  <2>3. CASE step = "key"
    <3>1. ToGo = 7
      BY <1>1, <1>6, <2>3 DEF InitAt, ServiceAt
    <3> QED BY <1>1, <2>1, <2>3, <3>1
  <2>4. CASE step \notin {"crt", "key"}
    <3>1. ca' = ca /\ n = 0 /\ ToGo # 8 /\ ToGo # 7
      BY <1>1, <1>6, <2>4 DEF InitAt, ServiceAt
    <3>2. step = "trust" \/ ToGo # 6
      BY <1>1, <1>6, <2>4 DEF InitAt, ServiceAt
    <3>3. IF step = "trust" THEN ca.made \in trusted' ELSE trusted' = trusted
      BY <1>1
    <3> QED BY <1>1, <2>1, <3>1, <3>2, <3>3
  <2> QED BY <2>2, <2>3, <2>4
<1>7. ASSUME Forward(o)
      PROVE  /\ ToGo' <= 3 => env'.block = "whole"
             /\ ToGo' <= 2 => unit' \in 1 .. version
             /\ ToGo' = 0 \/ (ToGo' = 1 /\ system = "linux") => loaded' \in 1 .. version
             /\ ToGo' = 0 => running' \in 1 .. version
  <2>1. /\ ToGo <= 3 => env.block = "whole"
        /\ ToGo <= 2 => unit = version
        /\ ToGo = 1 /\ system = "linux" => loaded \in 1 .. version
    BY <1>1, <1>7 DEF Effect, InitHas
  <2>2. /\ version \in Nat \ {0} /\ loaded \in 0 .. version /\ running \in 0 .. version /\ version # Torn
    <3>1. version \in 1 .. MaxVersions /\ UnitOK /\ MaxVersions \in Nat
      BY TypeParts, BoundsAssumption DEF IInv, CliOK
    <3> QED BY <3>1 DEF UnitOK, Torn
  <2>3. n = 0 \/ ToGo = 8
    BY <1>1, <1>7 DEF InitAt, ServiceAt
  <2>4. /\ step = "inject" \/ ToGo # 4
        /\ step = "unit" \/ ToGo # 3
        /\ step = "inject" => ToGo = 4
        /\ step = "unit" => ToGo = 3
    <3>1. InitAt(o, step, ToGo) /\ ToGo \in Nat
      BY <1>1
    <3> QED BY <1>7, <3>1 DEF InitAt, ServiceAt
  <2>5. ToGo' <= 3 => env'.block = "whole"
    BY <1>1, <2>1, <2>3, <2>4
  <2>6. ToGo' <= 2 => unit' \in 1 .. version
    BY <1>1, <2>1, <2>2, <2>3, <2>4
  <2>7. /\ ToGo = 2 => step = IF system = "linux" THEN "reload" ELSE "unload"
        /\ ToGo = 1 => step = IF system = "linux" THEN "enable" ELSE "load"
    BY <1>1, <1>7, InstallPlace
  <2>8. CASE ToGo = 2
    BY <1>1, <2>1, <2>2, <2>3, <2>5, <2>6, <2>7, <2>8
  <2>9. CASE ToGo = 1
    <3>1. CASE system = "linux"
      BY <1>1, <2>1, <2>2, <2>5, <2>6, <2>7, <2>9, <3>1
    <3>2. CASE system # "linux"
      <4>1. unit \in 1 .. version /\ loaded' = (IF loaded = 0 THEN unit ELSE loaded) /\ running' = loaded'
        BY <1>1, <2>1, <2>2, <2>7, <2>9, <3>2
      <4>2. loaded' \in 1 .. version
        BY <2>2, <4>1
      <4> QED BY <2>5, <2>6, <4>1, <4>2
    <3> QED BY <3>1, <3>2
  <2>10. CASE ToGo > 2
    <3>1. ToGo' # 0 /\ ToGo' # 1
      BY <1>1, <2>3, <2>10
    <3> QED BY <2>5, <2>6, <3>1
  <2> QED BY <1>1, <2>8, <2>9, <2>10
<1> QED BY <1>3, <1>4, <1>5, <1>6, <1>7

LEMMA NotOfInit ==
  ASSUME IInv, EffectInv, NEW out \in Outcomes, NEW n \in {0, 1}, n = 1 => ToGo > 1,
         NEW step \in {"stop", "rmunit", "distrust", "restore", "rmbackup", "rmca", "rmopa", "rmguard"},
         Runs(step, out, n)
  PROVE  ~GoesWell'
<1>1. ASSUME GoesWell'
      PROVE  InitAt(cli.with, step, ToGo)
  BY <1>1, Onward
<1> QED BY <1>1 DEF InitAt, ServiceAt

LEMMA PairingEffect ==
  ASSUME IInv, EffectInv, NEW out \in Outcomes, Claim(out) \/ SaveGuard(out) \/ RenderConfig(out), GoesWell'
  PROVE  Effect(cli.with)'
<1>1. UNCHANGED <<ca, trusted, halved, env, unit, loaded, running>>
  BY DEF Claim, SaveGuard, RenderConfig, cafiles, store, making, wiring, service
<1>2. CASE Claim(out)
  BY <1>1, <1>2, Advances DEF Claim
<1>3. CASE SaveGuard(out)
  <2>1. out = "works" => guard' = [is |-> "whole", with |-> cli.with]
    BY <1>3 DEF SaveGuard, After
  <2> QED BY <1>1, <1>3, <2>1, Advances DEF SaveGuard
<1>4. CASE RenderConfig(out)
  <2>1. out = "works" => opaConfig' = "whole"
    BY <1>4 DEF RenderConfig, After
  <2> QED BY <1>1, <1>4, <2>1, Advances DEF RenderConfig
<1> QED BY <1>2, <1>3, <1>4

LEMMA CAEffect ==
  ASSUME IInv, EffectInv, NEW out \in Outcomes, WriteCert(out) \/ WriteKey(out) \/ Trust(out), GoesWell'
  PROVE  Effect(cli.with)'
<1>1. UNCHANGED <<halved, guard, opaConfig, env, unit, loaded, running>>
  BY DEF WriteCert, WriteKey, Trust, pairing, making, wiring, service
<1>2. ca \in CAFiles
  BY TypeParts DEF IInv, CAOK
<1>3. CASE WriteCert(out)
  <2>1. trusted' = trusted
    BY <1>3 DEF WriteCert, store
  <2>2. CASE Runs("crt", out, 0) /\ ca' \in After(out, ca, [ca EXCEPT !.crt = "whole", !.made = @ + 1], {[ca EXCEPT !.crt = "part"]})
    <3>1. out = "works" => ca' = [ca EXCEPT !.crt = "whole", !.made = @ + 1]
      BY <2>2 DEF After
    <3>2. out = "works" => ca'.crt = "whole"
      BY <1>2, <3>1 DEF CAFiles
    <3> QED BY <1>1, <2>1, <2>2, <3>2, Advances
  <2>3. CASE CALoads /\ Runs("crt", out, 1) /\ ca' = ca
    <3>1. ToGo > 1
      <4>1. AtStep("crt")
        BY <2>3 DEF Runs
      <4>2. InitAt(cli.with, "crt", ToGo)
        BY <4>1, OnlyInit
      <4> QED BY <4>2 DEF InitAt, ServiceAt
    <3> QED BY <1>1, <2>1, <2>3, <3>1, Advances DEF CALoads
  <2> QED BY <1>3, <2>2, <2>3 DEF WriteCert
<1>4. CASE WriteKey(out)
  <2>1. out = "works" => ca' = [ca EXCEPT !.key = "whole"]
    BY <1>4 DEF WriteKey, After
  <2>2. out = "works" => ca'.crt = ca.crt /\ ca'.key = "whole"
    BY <1>2, <2>1 DEF CAFiles
  <2>3. Runs("key", out, 0) /\ trusted' = trusted
    BY <1>4 DEF WriteKey, store
  <2> QED BY <1>1, <2>2, <2>3, Advances
<1>5. CASE Trust(out)
  <2>1. out = "works" => ca.made \in trusted'
    BY <1>5 DEF Trust, After
  <2>2. Runs("trust", out, 0) /\ ca' = ca
    BY <1>5 DEF Trust
  <2> QED BY <1>1, <2>1, <2>2, Advances
<1> QED BY <1>3, <1>4, <1>5

LEMMA WiringEffect ==
  ASSUME IInv, EffectInv, NEW out \in Outcomes, BackUp(out) \/ Inject(out), GoesWell'
  PROVE  Effect(cli.with)'
<1>1. UNCHANGED <<guard, opaConfig, ca, trusted, halved, unit, loaded, running>>
  BY DEF BackUp, Inject, pairing, cafiles, store, making, service
<1>2. CASE BackUp(out)
  <2>1. Runs("backup", out, 0) /\ env' = env
    BY <1>2 DEF BackUp
  <2> QED BY <1>1, <2>1, Advances
<1>3. CASE Inject(out)
  <2>1. out = "works" => env' = [Strip(env) EXCEPT !.block = "whole"]
    BY <1>3 DEF Inject, After
  <2>2. Strip(env) \in Env
    BY TypeParts, StripIs DEF IInv, WiringOK
  <2>3. out = "works" => env'.block = "whole"
    BY <2>1, <2>2 DEF Env
  <2>4. Runs("inject", out, 0)
    BY <1>3 DEF Inject
  <2> QED BY <1>1, <2>3, <2>4, Advances
<1> QED BY <1>2, <1>3

LEMMA ServiceEffect ==
  ASSUME IInv, EffectInv, NEW out \in Outcomes,
         WriteUnit(out) \/ Reload(out) \/ Enable(out) \/ Load(out) \/ Stop(out), GoesWell'
  PROVE  Effect(cli.with)'
<1>1. UNCHANGED <<guard, opaConfig, ca, trusted, halved, env>>
  BY DEF WriteUnit, Reload, Enable, Load, Stop, pairing, cafiles, store, making, wiring
<1>2. CASE WriteUnit(out)
  <2>1. out = "works" => unit' = version
    BY <1>2 DEF WriteUnit, After
  <2> QED BY <1>1, <1>2, <2>1, Advances DEF WriteUnit
<1>3. CASE Reload(out)
  <2>1. out = "works" => loaded' = IF unit = Torn THEN 0 ELSE unit
    BY <1>3 DEF Reload, After
  <2> QED BY <1>1, <1>3, <2>1, Advances DEF Reload
<1>4. CASE Enable(out)
  <2>1. out = "works" => running' = IF running = 0 THEN loaded ELSE running
    BY <1>4 DEF Enable, After
  <2> QED BY <1>1, <1>4, <2>1, Advances DEF Enable
<1>5. CASE Load(out)
  <2>1. out = "works" => loaded' = IF loaded = 0 THEN unit ELSE loaded
    BY <1>5 DEF Load, After
  <2> QED BY <1>1, <1>5, <2>1, Advances DEF Load
<1>6. CASE Stop(out)
  <2>1. unit' = unit /\ (Runs("unload", out, 0) \/ Runs("stop", out, 0))
    BY <1>6 DEF Stop
  <2>2. ~Runs("stop", out, 0)
    BY NotOfInit
  <2> QED BY <1>1, <2>1, <2>2, Advances
<1> QED BY <1>2, <1>3, <1>4, <1>5, <1>6

LEMMA StepEffect == ASSUME IInv, EffectInv, NEW out \in Outcomes, Step(out) PROVE EffectInv'
<1> SUFFICES ASSUME GoesWell'
             PROVE  Effect(cli.with)'
  BY DEF EffectInv
<1>1. ASSUME NEW step \in {"rmunit", "distrust", "rmbackup", "rmca", "rmopa", "rmguard"}
      PROVE  ~Runs(step, out, 0)
  BY NotOfInit
<1>2. ~Restore(out)
  <2> DEFINE n == IF backup.made THEN 0 ELSE 1
  <2> SUFFICES ASSUME Restore(out)
               PROVE  FALSE
    OBVIOUS
  <2>1. Runs("restore", out, n) /\ n \in {0, 1}
    BY DEF Restore
  <2> HIDE DEF n
  <2>2. ToGo > 1
    <3>1. AtStep("restore")
      BY <2>1 DEF Runs
    <3>2. Skipped("restore") = 1 /\ 1 < ToGo /\ ToGo \in Nat
      BY <3>1, SkippedIs, Place DEF IInv
    <3> QED BY <3>2
  <2> QED BY <2>1, <2>2, NotOfInit
<1>3. ~(RemoveUnit(out) \/ Distrust(out) \/ RemoveBackup(out) \/ RemoveCA(out) \/ RemoveOPAConfig(out) \/ RemoveGuard(out))
  BY <1>1 DEF RemoveUnit, Distrust, RemoveBackup, RemoveCA, RemoveOPAConfig, RemoveGuard
<1> QED BY <1>2, <1>3, PairingEffect, CAEffect, WiringEffect, ServiceEffect DEF Step

-----------------------------------------------------------------------------
(* All other actions.                                                      *)

\* What can happen beside a command, and after it.
LEMMA StaysInEffect ==
  ASSUME IInv, EffectInv,
         cli'.cmd = cli.cmd, cli'.with = cli.with, cli'.todo = cli.todo, cli'.end = cli.end, cli.failed => cli'.failed,
         UNCHANGED <<system, guard, opaConfig, unit, loaded>>, env'.block = env.block,
         version' = version \/ version' = version + 1,
         GoesWell /\ Forward(cli.with) /\ cli.with.inspect /\ ToGo <= 7 =>
           UNCHANGED trusted /\ ca'.crt = ca.crt /\ ca'.made = ca.made
             /\ (halved \/ ca.key = "whole" => halved' \/ ca'.key = "whole"),
         running' \in {running, loaded}
  PROVE  EffectInv'
<1> SUFFICES ASSUME GoesWell'
             PROVE  Effect(cli.with)'
  BY DEF EffectInv
<1>1. GoesWell /\ Effect(cli.with) /\ ToGo' = ToGo
  BY DEF GoesWell, EffectInv, ToGo
<1>2. version \in Nat /\ version' \in Nat /\ 1 .. version \subseteq 1 .. version'
  <2>1. version \in Nat
    BY TypeParts, BoundsAssumption DEF IInv, CliOK
  <2> QED BY <2>1
<1>3. ToGo \in Nat
  BY TypeParts DEF IInv, CliOK, Cli, ToGo
<1>4. ASSUME Forward(cli.with), cli.with.inspect
      PROVE  /\ ToGo <= 7 => ca'.crt = "whole"
             /\ ToGo <= 6 => halved' \/ ca'.key = "whole"
             /\ ToGo <= 5 => ca'.made \in trusted'
  BY <1>1, <1>3, <1>4 DEF Effect
<1>5. ASSUME Forward(cli.with)
      PROVE  /\ ToGo <= 3 => env'.block = "whole"
             /\ ToGo <= 2 => unit' \in 1 .. version'
             /\ ToGo = 0 \/ (ToGo = 1 /\ system' = "linux") => loaded' \in 1 .. version'
             /\ ToGo = 0 => running' \in 1 .. version'
  BY <1>1, <1>2, <1>5 DEF Effect
<1> QED BY <1>1, <1>4, <1>5 DEF Effect, Forward

LEMMA MakeCertEffect == ASSUME IInv, EffectInv, MakeCert PROVE EffectInv'
<1>1. /\ ca.crt = "none" /\ cli \in Cli /\ cli' = [cli EXCEPT !.raced = @ \/ ~Idle]
      /\ UNCHANGED <<system, version, guard, opaConfig, env, unit, loaded, running>>
  BY TypeParts DEF IInv, CliOK, MakeCert, rest, pairing, wiring, service
<1>2. /\ cli'.cmd = cli.cmd /\ cli'.with = cli.with /\ cli'.todo = cli.todo /\ cli'.end = cli.end
      /\ cli'.failed = cli.failed
  BY <1>1 DEF Cli
<1>3. ~(GoesWell /\ Forward(cli.with) /\ cli.with.inspect /\ ToGo <= 7)
  BY <1>1 DEF EffectInv, Effect
<1> QED BY <1>1, <1>2, <1>3, StaysInEffect

LEMMA MakeKeyEffect == ASSUME IInv, EffectInv, MakeKey PROVE EffectInv'
<1>1. /\ ca \in CAFiles
      /\ UNCHANGED <<system, version, cli, guard, opaConfig, trusted, env, unit, loaded, running>>
  BY TypeParts DEF IInv, CAOK, MakeKey, rest, pairing, store, wiring, service
<1>2. \/ ca' = [ca EXCEPT !.key = "whole"] /\ halved' = halved
      \/ (ca' = ca \/ ca' = [ca EXCEPT !.key = "part"]) /\ halved' = (halved \/ ca.key = "whole")
  BY DEF MakeKey
<1>3. ca'.crt = ca.crt /\ ca'.made = ca.made /\ (halved \/ ca.key = "whole" => halved' \/ ca'.key = "whole")
  BY <1>1, <1>2 DEF CAFiles
<1> QED BY <1>1, <1>3, StaysInEffect

LEMMA RunTransparentEffect == ASSUME IInv, EffectInv, RunTransparent PROVE EffectInv'
<1>1. /\ Idle /\ guard.with.mode = "transparent"
      /\ UNCHANGED <<system, version, cli, guard, opaConfig, env, unit, loaded, running>>
  BY DEF RunTransparent, rest, pairing, wiring, service
<1>2. ~(GoesWell /\ Forward(cli.with))
  <2> SUFFICES ASSUME GoesWell, Forward(cli.with)
               PROVE  FALSE
    OBVIOUS
  <2>1. cli.todo = <<>>
    BY <1>1, TypeParts DEF IInv, CliOK, Idle
  <2>2. ToGo = 0
    BY <2>1 DEF ToGo
  <2>3. guard = [is |-> "whole", with |-> cli.with]
    BY <2>2 DEF EffectInv, Effect
  <2> QED BY <1>1, <2>3 DEF Forward
<1> QED BY <1>1, <1>2, StaysInEffect

LEMMA CommandEffect ==
  ASSUME IInv, EffectInv, Command \/ (\E o \in Options : InitCommand(o)) PROVE EffectInv'
<1> SUFFICES ASSUME GoesWell'
             PROVE  Effect(cli.with)'
  BY DEF EffectInv
<1>1. ASSUME NEW cmd, Refuses(cmd)
      PROVE  FALSE
  BY <1>1 DEF Refuses, GoesWell
<1>2. ASSUME NEW cmd, NEW steps, NEW opts, Begins(cmd, opts, steps), cmd # "init"
      PROVE  FALSE
  BY <1>2 DEF Begins, GoesWell
<1>3. ~Command
  BY <1>1, <1>2 DEF Command
<1>4. PICK o \in Options : InitCommand(o)
  BY <1>3
<1>5. Begins("init", o, InitSteps(o))
  BY <1>1, <1>4 DEF InitCommand
<1>6. cli'.with = o /\ ToGo' = Len(InitSteps(o))
  BY <1>5 DEF Begins, ToGo
<1>7. ToGo' = IF ~Forward(o) THEN 3 ELSE IF o.inspect THEN 11 ELSE 8
  BY <1>6, InitStepsIs
<1> QED BY <1>6, <1>7 DEF Effect, Forward

LEMMA EffectStep == IInv /\ EffectInv /\ [Next]_vars => EffectInv'
<1> SUFFICES ASSUME IInv, EffectInv, [Next]_vars
             PROVE  EffectInv'
  OBVIOUS
<1>0. cli \in Cli /\ env \in Env
  BY TypeParts DEF IInv, CliOK, WiringOK
<1>1. CASE CANotLoaded
  <2>1. cli' = [cli EXCEPT !.todo = <<>>, !.end = "fatal"]
    BY <1>1 DEF CANotLoaded, Quits
  <2> QED BY <1>0, <2>1 DEF Cli, EffectInv, GoesWell
<1>2. CASE StopInVain
  <2>1. cli' = [GoesOn(0) EXCEPT !.failed = TRUE] /\ AtStep("stop")
    BY <1>2 DEF StopInVain
  <2>2. ~Idle /\ ToGo \in Nat \ {0}
    BY <2>1, Place DEF IInv
  <2> DEFINE g == GoesOn(0)
  <2>3. g \in Cli
    BY <2>2, GoesOnIs DEF IInv
  <2>4. cli' = [g EXCEPT !.failed = TRUE]
    BY <2>1
  <2> HIDE DEF g
  <2>5. cli'.failed
    BY <2>3, <2>4 DEF Cli
  <2> QED BY <2>5 DEF EffectInv, GoesWell
<1>3. ASSUME NEW l \in Lines, AddLine(l)
      PROVE  EffectInv'
  <2>1. UNCHANGED <<system, version, cli, guard, opaConfig, ca, trusted, halved, unit, loaded, running>>
    BY <1>3 DEF AddLine, rest, pairing, cafiles, store, making, service
  <2>2. \/ env' = [env EXCEPT !.before = env.before \cup {l}]
        \/ env' = [env EXCEPT !.after = env.after \cup {l}]
    BY <1>3 DEF AddLine
  <2>3. env'.block = env.block
    BY <1>0, <2>2 DEF Env
  <2> QED BY <2>1, <2>3, StaysInEffect
<1>4. CASE Respawn
  BY <1>4, StaysInEffect DEF Respawn, rest, pairing, store, wiring
<1>5. CASE Upgrade
  BY <1>5, StaysInEffect DEF Upgrade, pairing, cafiles, store, making, wiring, service
<1>6. CASE UNCHANGED vars
  BY <1>6, StaysInEffect DEF vars, rest, pairing, cafiles, store, making, wiring, service
<1> QED BY <1>1, <1>2, <1>3, <1>4, <1>5, <1>6, StepEffect, CommandEffect, MakeCertEffect, MakeKeyEffect, RunTransparentEffect
        DEF Next

LEMMA EffectInvariant == Spec => []EffectInv
<1>1. Init => EffectInv
  BY DEF Init, EffectInv, GoesWell
<1> QED BY <1>1, InitHolds, NextKeeps, EffectStep, PTL DEF Spec

\* An init that ends well has done all it reports: the configuration is the new
\* one, OpenClaw is wired to a guard that runs, and the CA that guard will load is
\* trusted (main.go:155-204), unless a service is cut short while it writes ca.key
\* over one that was left there.
THEOREM InitIsEffective == Spec => []InitTakesEffect
<1>1. IInv /\ EffectInv => InitTakesEffect
  <2> SUFFICES ASSUME IInv, EffectInv, cli.cmd = "init", cli.end = "done", ~cli.failed
               PROVE  /\ guard = [is |-> "whole", with |-> cli.with] /\ opaConfig = "whole"
                      /\ cli.with.mode = "forward" =>
                           /\ env.block = "whole"
                           /\ cli.with.inspect => (CALoads \/ halved) /\ ca.made \in trusted
                           /\ {unit, loaded, running} \subseteq 1 .. version
    BY DEF InitTakesEffect
  <2>1. Effect(cli.with)
    BY DEF EffectInv, GoesWell
  <2>2. ToGo = 0
    BY TypeParts DEF IInv, CliOK, ToGo
  <2> QED BY <2>1, <2>2 DEF Effect, Forward, CALoads
<1> QED BY <1>1, Invariant, EffectInvariant, PTL

-----------------------------------------------------------------------------
(* repair.                                                                 *)

\* repair is at this step, and the step works if repair does not stop at it.
LEMMA OnRepair ==
  ASSUME IInv, NEW step, NEW out \in Outcomes, NEW n \in {0, 1}, n = 1 => ToGo > 1, Runs(step, out, n),
         cli'.cmd = "repair", cli'.end \in {"running", "done"}
  PROVE  /\ out = "works" /\ cli.cmd = "repair" /\ ~Idle /\ ToGo' = ToGo - 1 - n /\ (Idle' <=> ToGo' = 0)
         /\ (step = "restore" /\ ToGo = 2) \/ (step = "rmbackup" /\ ToGo = 1)
<1>1. AtStep(step) /\ cli.cmd = "repair"
  BY HasRun DEF Ran
<1>2. ~Idle /\ ((step = "restore" /\ ToGo = 2) \/ (step = "rmbackup" /\ ToGo = 1))
  BY <1>1, Place DEF IInv
<1>3. Fatal(step)
  BY <1>1, <1>2 DEF Fatal
<1> QED BY <1>1, <1>2, <1>3, Works

LEMMA RestoreRepairs == ASSUME IInv, RepairInv, NEW out \in Outcomes, Restore(out) PROVE RepairInv'
<1> DEFINE n == IF backup.made THEN 0 ELSE 1
           old == IF backup.made THEN backup.of ELSE Strip(env)
<1>1. /\ Runs("restore", out, n) /\ env' \in After(out, env, old, Parts(old))
      /\ spoiled' = (spoiled \/ (~backup.made /\ env' \notin {env, old}))
      /\ left' = (left \/ (out = "fails" /\ cli.cmd = "uninstall"))
      /\ owed' = owed
  BY DEF Restore
<1>2. ToGo > 1
  <2>1. AtStep("restore")
    BY <1>1 DEF Runs
  <2>2. Skipped("restore") = 1 /\ 1 < ToGo /\ ToGo \in Nat
    BY <2>1, SkippedIs, Place DEF IInv
  <2> QED BY <2>2
<1>3. /\ (n = 0 /\ backup.made /\ old = backup.of) \/ (n = 1 /\ ~backup.made /\ old = Strip(env))
  OBVIOUS
<1> HIDE DEF n, old
<1> SUFFICES ASSUME cli'.cmd = "repair", cli'.end \in {"running", "done"}
             PROVE  RepairInv'
  BY DEF RepairInv, RepairRestores, Idle
<1>4. out = "works" /\ cli.cmd = "repair" /\ ~Idle /\ ToGo = 2 /\ ToGo' = ToGo - 1 - n /\ (Idle' <=> ToGo' = 0)
  BY <1>1, <1>2, <1>3, OnRepair
<1>5. env' = old /\ (left' <=> left) /\ (spoiled' <=> spoiled)
  <2>1. env' = old
    BY <1>1, <1>4 DEF After
  <2> QED BY <1>1, <1>4, <2>1
<1>6. env \in Env /\ Copied
  BY TypeParts DEF IInv, WiringOK
<1>7. left' \/ env'.block = "none"
  BY <1>3, <1>5, <1>6, StripIs DEF Copied
<1>8. n = 1 => left' \/ spoiled' \/ owed' \subseteq UserLines(env')
  <2>1. n = 1 => left \/ spoiled \/ Kept
    BY <1>3, <1>6 DEF Copied
  <2>2. Strip(env).before \subseteq UserLines(Strip(env))
    BY DEF UserLines
  <2> QED BY <1>1, <1>3, <1>5, <2>1, <2>2 DEF Kept
<1>9. n = 0 => cli'.end = "running"
  BY <1>4 DEF Idle
<1> QED BY <1>3, <1>7, <1>8, <1>9 DEF RepairInv, RepairRestores

LEMMA RemoveBackupRepairs == ASSUME IInv, RepairInv, NEW out \in Outcomes, RemoveBackup(out) PROVE RepairInv'
<1>1. Runs("rmbackup", out, 0) /\ UNCHANGED <<env, owed, left>> /\ (spoiled => spoiled')
  BY DEF RemoveBackup, pairing, cafiles, service
<1> SUFFICES ASSUME cli'.cmd = "repair", cli'.end \in {"running", "done"}
             PROVE  RepairInv'
  BY DEF RepairInv, RepairRestores, Idle
<1>2. cli.cmd = "repair" /\ ~Idle /\ ToGo = 1 /\ ToGo' = ToGo - 1 - 0 /\ (Idle' <=> ToGo' = 0)
  BY <1>1, OnRepair
<1>3. left \/ env.block = "none"
  BY <1>2 DEF RepairInv
<1>4. left \/ spoiled \/ owed \subseteq UserLines(env)
  <2>1. spoiled \/ left \/ Kept
    BY <1>2 DEF IInv, Has
  <2>2. Strip(env).before \subseteq UserLines(env)
    BY TypeParts, StripIs DEF IInv, WiringOK
  <2> QED BY <2>1, <2>2 DEF Kept
<1>5. Idle'
  BY <1>2
<1> QED BY <1>1, <1>3, <1>4, <1>5 DEF RepairInv, RepairRestores, UserLines

\* A step of another kind is not repair's.
LEMMA OthersRepair ==
  ASSUME IInv, NEW step, step \notin {"restore", "rmbackup"}, NEW out \in Outcomes, NEW n \in {0, 1}, n = 1 => ToGo > 1,
         Runs(step, out, n)
  PROVE  RepairInv'
<1> SUFFICES ASSUME cli'.cmd = "repair", cli'.end \in {"running", "done"}
             PROVE  FALSE
  BY DEF RepairInv, RepairRestores, Idle
<1> QED BY OnRepair

LEMMA StepRepairs == ASSUME IInv, RepairInv, NEW out \in Outcomes, Step(out) PROVE RepairInv'
<1>1. ASSUME NEW step \in Steps \ {"restore", "rmbackup"}, Runs(step, out, 0)
      PROVE  RepairInv'
  BY <1>1, OthersRepair
<1>2. ASSUME Runs("crt", out, 1)
      PROVE  RepairInv'
  <2>1. AtStep("crt")
    BY <1>2 DEF Runs
  <2>2. InitAt(cli.with, "crt", ToGo)
    BY <2>1, OnlyInit
  <2>3. ToGo > 1
    BY <2>2 DEF InitAt, ServiceAt
  <2> QED BY <1>2, <2>3, OthersRepair
<1>3. \/ Restore(out) \/ RemoveBackup(out) \/ Runs("crt", out, 1)
      \/ \E step \in Steps \ {"restore", "rmbackup"} : Runs(step, out, 0)
  BY DEF Step, Claim, SaveGuard, RenderConfig, WriteCert, WriteKey, Trust, BackUp, Inject, WriteUnit, Reload, Enable,
         Load, Stop, RemoveUnit, Distrust, RemoveCA, RemoveOPAConfig, RemoveGuard, Steps
<1> QED BY <1>1, <1>2, <1>3, RestoreRepairs, RemoveBackupRepairs

\* What can happen beside a repair, and after it.
LEMMA StaysRepaired ==
  ASSUME RepairInv, cli'.cmd = cli.cmd, cli'.todo = cli.todo, cli'.end = cli.end,
         UNCHANGED <<owed, spoiled, left>>, env'.block = env.block, UserLines(env) \subseteq UserLines(env')
  PROVE  RepairInv'
<1>1. Idle' = Idle /\ ToGo' = ToGo
  BY DEF Idle, ToGo
<1>2. UserLines(env)' = UserLines(env')
  BY DEF UserLines
<1> QED BY <1>1, <1>2 DEF RepairInv, RepairRestores

\* A repair that has nothing to do finds nothing to do.
LEMMA CommandRepairs ==
  ASSUME IInv, RepairInv, Command \/ (\E o \in Options : InitCommand(o)) PROVE RepairInv'
<1>1. ASSUME NEW cmd, Refuses(cmd)
      PROVE  RepairInv'
  BY <1>1 DEF Refuses, RepairInv, RepairRestores, Idle
<1>2. ASSUME NEW cmd, NEW steps, NEW opts, Begins(cmd, opts, steps), cmd # "repair"
      PROVE  RepairInv'
  BY <1>2 DEF Begins, RepairInv, RepairRestores
<1>3. CASE Paired /\ Begins("repair", NoOptions, If(guard.with.mode = "forward", RestoreEnv)) /\ Command
  <2>1. UNCHANGED <<env, owed, spoiled, left>>
    BY <1>3 DEF Command, wiring
  <2>2. CASE guard.with.mode = "forward"
    <3>1. cli'.todo = RestoreEnv
      BY <1>3, <2>2 DEF Begins, If
    <3>2. ToGo' = 2 /\ cli'.todo # <<>>
      BY <3>1, RestoreEnvIs DEF ToGo
    <3>3. cli'.end = "running"
      BY <1>3, <3>2 DEF Begins
    <3> QED BY <3>2, <3>3 DEF RepairInv, RepairRestores
  <2>3. CASE guard.with.mode # "forward"
    <3>1. cli'.end = "done"
      BY <1>3, <2>3 DEF Begins, If
    <3>2. left \/ env.block = "none"
      BY <2>3 DEF IInv, WiredIsServable
    <3>3. left \/ spoiled \/ owed \subseteq UserLines(env)
      <4>1. left \/ spoiled \/ Kept
        BY <2>3 DEF IInv, Copied, Forward
      <4>2. Strip(env).before \subseteq UserLines(env)
        BY TypeParts, StripIs DEF IInv, WiringOK
      <4> QED BY <4>1, <4>2 DEF Kept
    <3> QED BY <2>1, <3>1, <3>2, <3>3 DEF RepairInv, RepairRestores, Idle, UserLines
  <2> QED BY <2>2, <2>3
<1> QED BY <1>1, <1>2, <1>3 DEF Command, InitCommand

LEMMA RepairStep == IInv /\ RepairInv /\ [Next]_vars => RepairInv'
<1> SUFFICES ASSUME IInv, RepairInv, [Next]_vars
             PROVE  RepairInv'
  OBVIOUS
<1>0. cli \in Cli /\ env \in Env
  BY TypeParts DEF IInv, CliOK, WiringOK
<1>1. CASE CANotLoaded
  <2>1. AtStep("crt") /\ cli' = [cli EXCEPT !.todo = <<>>, !.end = "fatal"]
    BY <1>1 DEF CANotLoaded, Quits
  <2>2. cli.cmd = "init"
    BY <2>1, OnlyInit
  <2> QED BY <1>0, <2>1, <2>2 DEF Cli, RepairInv, RepairRestores
<1>2. CASE StopInVain
  <2>1. cli' = [GoesOn(0) EXCEPT !.failed = TRUE] /\ AtStep("stop")
    BY <1>2 DEF StopInVain
  <2>2. ~Idle /\ ToGo \in Nat \ {0} /\ cli.cmd # "repair"
    <3>1. \/ cli.cmd \in {"init", "uninstall", "update", "service install", "service uninstall"}
          \/ "stop" = "restore" \/ "stop" = "rmbackup"
      BY <2>1, Place DEF IInv
    <3>2. ~Idle /\ ToGo \in Nat \ {0}
      BY <2>1, Place DEF IInv
    <3> QED BY <3>1, <3>2
  <2> DEFINE g == GoesOn(0)
  <2>3. g \in Cli /\ g.cmd = cli.cmd
    BY <2>2, GoesOnIs DEF IInv
  <2>4. cli' = [g EXCEPT !.failed = TRUE]
    BY <2>1
  <2> HIDE DEF g
  <2>5. cli'.cmd = cli.cmd
    BY <2>3, <2>4 DEF Cli
  <2> QED BY <2>2, <2>5 DEF RepairInv, RepairRestores
<1>3. CASE MakeCert
  <2>1. cli' = [cli EXCEPT !.raced = @ \/ ~Idle]
    BY <1>3 DEF MakeCert
  <2>2. cli'.cmd = cli.cmd /\ cli'.todo = cli.todo /\ cli'.end = cli.end
    BY <1>0, <2>1 DEF Cli
  <2> QED BY <1>3, <2>2, StaysRepaired DEF MakeCert, wiring
<1>4. ASSUME NEW l \in Lines, AddLine(l)
      PROVE  RepairInv'
  <2>1. \/ env' = [env EXCEPT !.before = env.before \cup {l}]
        \/ env' = [env EXCEPT !.after = env.after \cup {l}]
    BY <1>4 DEF AddLine
  <2>2. env'.block = env.block /\ UserLines(env) \subseteq UserLines(env')
    BY <1>0, <2>1 DEF Env, UserLines
  <2> QED BY <1>4, <2>2, StaysRepaired DEF AddLine
<1>5. CASE RunTransparent
  BY <1>5, StaysRepaired DEF RunTransparent, wiring
<1>6. CASE Respawn
  BY <1>6, StaysRepaired DEF Respawn, wiring
<1>7. CASE Upgrade
  BY <1>7, StaysRepaired DEF Upgrade, wiring
<1>8. CASE UNCHANGED vars
  BY <1>8, StaysRepaired DEF vars, wiring, rest
<1>9. CASE MakeKey
  BY <1>9, StaysRepaired DEF MakeKey, wiring
<1> QED BY <1>1, <1>2, <1>3, <1>4, <1>5, <1>6, <1>7, <1>8, <1>9, StepRepairs, CommandRepairs DEF Next

LEMMA RepairInvariant == Spec => []RepairInv
<1>1. Init => RepairInv
  BY DEF Init, RepairInv, RepairRestores
<1> QED BY <1>1, InitHolds, NextKeeps, RepairStep, PTL DEF Spec

\* A repair that ends well has unwired OpenClaw and given the user's lines back
\* (main.go:349-373).
THEOREM RepairIsEffective == Spec => []RepairRestores
<1>1. RepairInv => RepairRestores
  BY DEF RepairInv
<1> QED BY <1>1, RepairInvariant, PTL

-----------------------------------------------------------------------------
(* update.                                                                 *)

UpdatesWell == system # "linux" /\ cli.cmd = "update" /\ ~cli.failed /\ cli.end \in {"running", "done"}

\* launchctl has unloaded the service before it loads the unit that was written.
UpdateInv ==
  UpdatesWell =>
    /\ ToGo = 1 => loaded = 0
    /\ ToGo = 0 => loaded = unit /\ running = unit

LEMMA UpdatePlace ==
  ASSUME IInv, NEW step, AtStep(step), cli.cmd = "update", system # "linux"
  PROVE  /\ ToGo \in Nat \ {0} /\ ServiceAt(step, ToGo)
         /\ ToGo = 2 => step = "unload"
         /\ ToGo = 1 => step = "load"
<1>1. ~Idle /\ cli.todo \in Seq(Steps) /\ ToGo \in Nat \ {0} /\ ServiceAt(step, ToGo)
  BY Place DEF IInv
<1>2. step = cli.todo[1]
  <2>1. cli.todo # <<>>
    BY <1>1 DEF ToGo
  <2> QED BY <1>1, <2>1, HeadTailProperties DEF AtStep
<1>3. Program = InstallService /\ Program \in Seq(Steps) /\ Suffix(cli.todo, Program)
  BY <1>1, ProgramType DEF IInv, InPlace, Program
<1>4. step = At(InstallService, ToGo)
  <2>1. 1 \in 1 .. Len(cli.todo) /\ Len(Program) \in Nat
    BY <1>1, <1>3 DEF ToGo
  <2>2. cli.todo[1] = Program[Len(Program) - Len(cli.todo) + 1]
    BY <1>3, <2>1 DEF Suffix
  <2> QED BY <1>2, <1>3, <2>2 DEF At, ToGo
<1> QED BY <1>1, <1>4, InstallsWith

LEMMA StepUpdates ==
  ASSUME IInv, UpdateInv, NEW step, NEW out \in Outcomes, NEW n \in {0, 1}, n = 1 => ToGo > 1, Runs(step, out, n),
         n = 1 => step \in {"crt", "restore"},
         step = "unload" /\ out = "works" => loaded' = IF system = "darwin" THEN 0 ELSE loaded,
         step = "load" /\ out = "works" =>
           unit' = unit /\ loaded' = (IF loaded = 0 THEN unit ELSE loaded) /\ running' = loaded'
  PROVE  UpdateInv'
<1> SUFFICES ASSUME UpdatesWell'
             PROVE  (ToGo' = 1 => loaded' = 0) /\ (ToGo' = 0 => loaded' = unit' /\ running' = unit')
  BY DEF UpdateInv
<1>1. /\ out = "works" /\ AtStep(step) /\ ToGo \in Nat \ {0} /\ ToGo' = ToGo - 1 - n
      /\ system' = system /\ cli'.failed = cli.failed /\ cli'.cmd = cli.cmd /\ cli.end = "running"
  BY Works DEF UpdatesWell
<1>2. UpdatesWell
  BY <1>1 DEF UpdatesWell
<1>3. ServiceAt(step, ToGo) /\ (ToGo = 2 => step = "unload") /\ (ToGo = 1 => step = "load")
  BY <1>1, <1>2, UpdatePlace DEF UpdatesWell
<1>4. n = 0
  BY <1>3 DEF ServiceAt
<1>5. system = "darwin"
  BY <1>2, TypeParts, SystemsAssumption DEF IInv, CliOK, UpdatesWell
<1>6. ToGo = 1 => loaded = 0
  BY <1>2 DEF UpdateInv
<1>7. CASE ToGo = 1
  BY <1>1, <1>3, <1>4, <1>6, <1>7
<1>8. CASE ToGo = 2
  BY <1>1, <1>3, <1>4, <1>5, <1>8
<1>9. CASE ToGo > 2
  <2>1. ToGo' # 0 /\ ToGo' # 1
    BY <1>1, <1>4, <1>9
  <2> QED BY <2>1
<1> QED BY <1>1, <1>7, <1>8, <1>9

LEMMA AllUpdates == ASSUME IInv, UpdateInv, NEW out \in Outcomes, Step(out) PROVE UpdateInv'
<1>1. ASSUME NEW step \in Steps \ {"unload", "load"}, Runs(step, out, 0)
      PROVE  UpdateInv'
  BY <1>1, StepUpdates
<1>2. CASE Runs("crt", out, 1)
  <2>1. AtStep("crt")
    BY <1>2 DEF Runs
  <2>2. InitAt(cli.with, "crt", ToGo)
    BY <2>1, OnlyInit
  <2>3. ToGo > 1
    BY <2>2 DEF InitAt, ServiceAt
  <2> QED BY <1>2, <2>3, StepUpdates
<1>3. CASE Runs("restore", out, 1)
  <2>1. AtStep("restore")
    BY <1>3 DEF Runs
  <2>2. Skipped("restore") = 1 /\ 1 < ToGo /\ ToGo \in Nat
    BY <2>1, SkippedIs, Place DEF IInv
  <2>3. ToGo > 1
    BY <2>2
  <2> QED BY <1>3, <2>3, StepUpdates
<1>4. CASE Stop(out)
  <2>1. CASE Runs("stop", out, 0)
    BY <1>1, <2>1 DEF Steps
  <2>2. CASE Runs("unload", out, 0)
    <3>1. out = "works" => running' = 0
      BY <1>4 DEF Stop, After
    <3>2. out = "works" => loaded' = IF system = "darwin" THEN 0 ELSE loaded
      BY <1>4, <3>1 DEF Stop
    <3> QED BY <2>2, <3>2, StepUpdates
  <2> QED BY <1>4, <2>1, <2>2 DEF Stop
<1>5. CASE Load(out)
  <2>1. out = "works" => loaded' = (IF loaded = 0 THEN unit ELSE loaded)
    BY <1>5 DEF Load, After
  <2>2. Runs("load", out, 0) /\ running' = loaded' /\ unit' = unit
    BY <1>5 DEF Load
  <2> QED BY <2>1, <2>2, StepUpdates
<1>6. \/ Stop(out) \/ Load(out) \/ Runs("crt", out, 1) \/ Runs("restore", out, 1)
      \/ \E step \in Steps \ {"unload", "load"} : Runs(step, out, 0)
  BY DEF Step, Claim, SaveGuard, RenderConfig, WriteCert, WriteKey, Trust, BackUp, Inject, WriteUnit, Reload, Enable,
         RemoveUnit, Distrust, Restore, RemoveBackup, RemoveCA, RemoveOPAConfig, RemoveGuard, Steps
<1> QED BY <1>1, <1>2, <1>3, <1>4, <1>5, <1>6

LEMMA StaysUpdated ==
  ASSUME UpdateInv, cli'.cmd = cli.cmd, cli'.todo = cli.todo, cli'.end = cli.end, cli.failed => cli'.failed,
         UNCHANGED <<system, unit, loaded>>, running' \in {running, loaded}
  PROVE  UpdateInv'
BY DEF UpdateInv, UpdatesWell, ToGo

LEMMA UpdateStep == IInv /\ UpdateInv /\ [Next]_vars => UpdateInv'
<1> SUFFICES ASSUME IInv, UpdateInv, [Next]_vars
             PROVE  UpdateInv'
  OBVIOUS
<1>0. cli \in Cli
  BY TypeParts DEF IInv, CliOK
<1>1. CASE CANotLoaded
  <2>1. cli' = [cli EXCEPT !.todo = <<>>, !.end = "fatal"]
    BY <1>1 DEF CANotLoaded, Quits
  <2> QED BY <1>0, <2>1 DEF Cli, UpdateInv, UpdatesWell
<1>2. CASE StopInVain
  <2>1. cli' = [GoesOn(0) EXCEPT !.failed = TRUE] /\ AtStep("stop")
    BY <1>2 DEF StopInVain
  <2>2. ~Idle /\ ToGo \in Nat \ {0}
    BY <2>1, Place DEF IInv
  <2> DEFINE g == GoesOn(0)
  <2>3. g \in Cli
    BY <2>2, GoesOnIs DEF IInv
  <2>4. cli' = [g EXCEPT !.failed = TRUE]
    BY <2>1
  <2> HIDE DEF g
  <2>5. cli'.failed
    BY <2>3, <2>4 DEF Cli
  <2> QED BY <2>5 DEF UpdateInv, UpdatesWell
<1>3. CASE MakeCert
  <2>1. cli' = [cli EXCEPT !.raced = @ \/ ~Idle]
    BY <1>3 DEF MakeCert
  <2>2. cli'.cmd = cli.cmd /\ cli'.todo = cli.todo /\ cli'.end = cli.end /\ cli'.failed = cli.failed
    BY <1>0, <2>1 DEF Cli
  <2> QED BY <1>3, <2>2, StaysUpdated DEF MakeCert, rest, service
<1>4. ASSUME NEW o \in Options, InitCommand(o)
      PROVE  UpdateInv'
  BY <1>4 DEF InitCommand, Begins, Refuses, UpdateInv, UpdatesWell
<1>5. CASE Command
  <2>1. ASSUME NEW cmd, Refuses(cmd)
        PROVE  UpdateInv'
    BY <2>1 DEF Refuses, UpdateInv, UpdatesWell
  <2>2. ASSUME NEW cmd, NEW opts, NEW steps, Begins(cmd, opts, steps), cmd # "update"
        PROVE  UpdateInv'
    BY <2>2 DEF Begins, UpdateInv, UpdatesWell
  <2>3. CASE Begins("update", NoOptions, InstallService)
    <3>1. ToGo' = 3
      BY <2>3, InstallServiceIs DEF Begins, ToGo
    <3> QED BY <3>1 DEF UpdateInv
  <2> QED BY <1>5, <2>1, <2>2, <2>3 DEF Command
<1>6. ASSUME NEW l \in Lines, AddLine(l)
      PROVE  UpdateInv'
  BY <1>6, StaysUpdated DEF AddLine, rest, service
<1>7. CASE RunTransparent
  BY <1>7, StaysUpdated DEF RunTransparent, rest, service
<1>8. CASE Respawn
  BY <1>8, StaysUpdated DEF Respawn, rest
<1>9. CASE Upgrade
  BY <1>9, StaysUpdated DEF Upgrade, service
<1>10. CASE UNCHANGED vars
  BY <1>10, StaysUpdated DEF vars, rest, service
<1>11. CASE MakeKey
  BY <1>11, StaysUpdated DEF MakeKey, rest, service
<1> QED BY <1>1, <1>2, <1>3, <1>4, <1>5, <1>6, <1>7, <1>8, <1>9, <1>10, <1>11, AllUpdates DEF Next

\* What main.go:424-425 says of update, that it re-points the service at this
\* binary and restarts it, is true on macOS, unless a step failed.
THEOREM UpdateRestartsOnDarwin == Spec => [](system = "darwin" /\ ~cli.failed => UpdateTakesEffect)
<1>1. Init => UpdateInv
  BY DEF Init, UpdateInv, UpdatesWell
<1>2. IInv /\ UpdateInv => (system = "darwin" /\ ~cli.failed => UpdateTakesEffect)
  <2> SUFFICES ASSUME IInv, UpdateInv, system = "darwin", cli.cmd = "update", cli.end = "done", ~cli.failed
               PROVE  running = unit
    BY DEF UpdateTakesEffect
  <2>1. ToGo = 0
    BY TypeParts DEF IInv, CliOK, ToGo
  <2> QED BY <2>1 DEF UpdateInv, UpdatesWell
<1> QED BY <1>1, <1>2, InitHolds, NextKeeps, UpdateStep, PTL DEF Spec
=============================================================================
