----------------------- MODULE LifecycleCleanProofs -----------------------
(***************************************************************************)
(* Proofs about Lifecycle, continued: an uninstall that ends takes away    *)
(* what it should, and leaves nothing in the way of the next init, until a *)
(* step of an uninstall fails.                                             *)
(***************************************************************************)
EXTENDS LifecycleProofs

\* How many steps of an uninstall follow those of svc.Uninstall, the removal of
\* the trust, and the reload in between.
Base(o) == IF Forward(o) THEN 5 ELSE 3

Services(o) == IF o.inspect THEN Base(o) + 1 ELSE Base(o)

Reloads == IF system = "linux" THEN 1 ELSE 0

\* Between the commands.  Without a readable guard.json there is no certificate
\* and no copy; on macOS, where a certificate is found by ca.crt, only the one
\* that is there is trusted.
Between ==
  /\ ~left
  /\ ~Paired => ca.crt = "none"
  /\ ~Paired \/ ~guard.with.inspect => trusted = {} \/ imposed
  /\ system # "linux" /\ ~imposed => trusted \subseteq {ca.made} /\ (trusted # {} => ca.crt = "whole")
  /\ backup.made => Paired /\ Forward(guard.with)

\* What init finds: no guard.json until it writes one, and no certificate, unless
\* the service has begun to make a CA since.
Finds(o) ==
  /\ ToGo > (IF ~Forward(o) THEN 1 ELSE IF o.inspect THEN 9 ELSE 6) => guard.is = "none"
  /\ Forward(o) /\ o.inspect /\ ToGo >= 8 => cli.raced \/ ca.crt = "none"

\* What uninstall has taken away.
Gone(o) ==
  /\ ToGo <= Services(o) + Reloads + 1 => running = 0 /\ (system # "linux" => loaded = 0)
  /\ ToGo <= Services(o) + Reloads => unit = 0
  /\ ToGo <= Services(o) => loaded = 0
  /\ ToGo <= Base(o) => trusted = {} \/ imposed
  /\ Forward(o) /\ ToGo <= 3 => ~backup.made
  /\ ToGo <= 2 => ca.crt = "none" /\ ca.key = "none"
  /\ ToGo <= 1 => opaConfig = "none"
  /\ ToGo = 0 => guard.is = "none"

CleanInv ==
  ~slipped =>
    /\ Between
    /\ cli.cmd = "init" /\ ~Idle => Finds(cli.with)
    /\ cli.cmd = "uninstall" /\ cli.end \in {"running", "done"} => Gone(guard.with)
    /\ InitUnhindered

-----------------------------------------------------------------------------
(* The program of an uninstall, in more detail than Place gives it.        *)

UninstallOn(o, step, n) ==
  \/ step = "stop" /\ n = Services(o) + Reloads + 2
  \/ step = "rmunit" /\ n = Services(o) + Reloads + 1
  \/ step = "reload" /\ system = "linux" /\ n = Services(o) + 1
  \/ step = "distrust" /\ o.inspect /\ n = Base(o) + 1
  \/ step = "restore" /\ Forward(o) /\ n = 5
  \/ step = "rmbackup" /\ Forward(o) /\ n = 4
  \/ step = "rmca" /\ n = 3
  \/ step = "rmopa" /\ n = 2
  \/ step = "rmguard" /\ n = 1

LEMMA Counts ==
  ASSUME NEW o
  PROVE  /\ Base(o) \in {3, 5} /\ (Forward(o) <=> Base(o) = 5)
         /\ Services(o) \in {Base(o), Base(o) + 1} /\ (o.inspect => Services(o) = Base(o) + 1)
         /\ ~o.inspect => Services(o) = Base(o)
         /\ Reloads \in {0, 1} /\ (system = "linux" <=> Reloads = 1)
BY DEF Base, Services, Reloads

LEMMA ServiceSteps ==
  /\ UninstallService \in Seq(Steps) /\ Len(UninstallService) = Reloads + 2
  /\ At(UninstallService, Reloads + 2) = "stop" /\ At(UninstallService, Reloads + 1) = "rmunit"
  /\ system = "linux" => At(UninstallService, 1) = "reload"
<1>1. CASE system = "linux"
  <2>1. UninstallService = <<"stop", "rmunit">> \o <<"reload">> /\ Reloads = 1
    BY <1>1 DEF UninstallService, If, Reloads
  <2> QED BY <1>1, <2>1 DEF At, Steps
<1>2. CASE system # "linux"
  <2>1. UninstallService = <<"stop", "rmunit">> /\ Reloads = 0
    BY <1>2 DEF UninstallService, If, Reloads
  <2> QED BY <1>2, <2>1 DEF At, Steps
<1> QED BY <1>1, <1>2

LEMMA UninstallStepsOn ==
  ASSUME NEW o \in Options
  PROVE  /\ Len(UninstallSteps(o)) = Services(o) + Reloads + 2
         /\ \A n \in 1 .. Len(UninstallSteps(o)) : UninstallOn(o, At(UninstallSteps(o), n), n)
<1> DEFINE a == UninstallService
           b == If(o.inspect, <<"distrust">>)
           c == If(Forward(o), RestoreEnv)
           d == <<"rmca", "rmopa", "rmguard">>
<1>1. a \in Seq(Steps) /\ Len(a) = Reloads + 2
  BY ServiceSteps
<1>2. /\ b \in Seq(Steps) /\ Len(b) = IF o.inspect THEN 1 ELSE 0
      /\ o.inspect => At(b, 1) = "distrust"
  <2>1. CASE o.inspect
    <3>1. b = <<"distrust">>
      BY <2>1 DEF If
    <3>2. <<"distrust">> \in Seq(Steps) /\ Len(<<"distrust">>) = 1 /\ <<"distrust">>[1] = "distrust"
      BY DEF Steps
    <3> HIDE DEF b
    <3> QED BY <2>1, <3>1, <3>2 DEF At
  <2>2. CASE ~o.inspect
    <3>1. b = <<>>
      BY <2>2 DEF If
    <3> HIDE DEF b
    <3> QED BY <2>2, <3>1
  <2> QED BY <2>1, <2>2
<1>3. /\ c \in Seq(Steps) /\ Len(c) = Base(o) - 3
      /\ Forward(o) => At(c, 1) = "rmbackup" /\ At(c, 2) = "restore"
  <2>1. CASE Forward(o)
    <3>1. c = RestoreEnv
      BY <2>1 DEF If
    <3>2. Base(o) = 5 /\ 5 - 3 = 2
      BY <2>1 DEF Base
    <3> HIDE DEF c
    <3> QED BY <2>1, <3>1, <3>2, RestoreEnvIs
  <2>2. CASE ~Forward(o)
    <3>1. c = <<>>
      BY <2>2 DEF If
    <3>2. Base(o) = 3 /\ 3 - 3 = 0
      BY <2>2 DEF Base
    <3> HIDE DEF c
    <3> QED BY <2>2, <3>1, <3>2
  <2> QED BY <2>1, <2>2
<1>4. /\ d \in Seq(Steps) /\ Len(d) = 3
      /\ At(d, 1) = "rmguard" /\ At(d, 2) = "rmopa" /\ At(d, 3) = "rmca"
  BY DEF At, Steps
<1>5. UninstallSteps(o) = ((a \o b) \o c) \o d
  BY DEF UninstallSteps, Forward
<1>0. Base(o) \in Nat /\ Services(o) \in Nat /\ Reloads \in Nat
  BY Counts
<1>6. /\ At(a, Reloads + 2) = "stop" /\ At(a, Reloads + 1) = "rmunit"
      /\ system = "linux" => At(a, 1) = "reload"
  BY ServiceSteps
<1> HIDE DEF a, b, c, d
<1> DEFINE u == a \o b
           v == u \o c
           w == v \o d
<1>7. /\ u \in Seq(Steps) /\ Len(u) = Len(a) + Len(b)
      /\ \A n \in 1 .. Len(b) : At(u, n) = At(b, n)
      /\ \A n \in Len(b) + 1 .. Len(a) + Len(b) : At(u, n) = At(a, n - Len(b))
  BY <1>1, <1>2, ConcatAt
<1> HIDE DEF u
<1>8. /\ v \in Seq(Steps) /\ Len(v) = Len(u) + Len(c)
      /\ \A n \in 1 .. Len(c) : At(v, n) = At(c, n)
      /\ \A n \in Len(c) + 1 .. Len(u) + Len(c) : At(v, n) = At(u, n - Len(c))
  BY <1>3, <1>7, ConcatAt
<1> HIDE DEF v
<1>9. /\ w \in Seq(Steps) /\ Len(w) = Len(v) + Len(d)
      /\ \A n \in 1 .. Len(d) : At(w, n) = At(d, n)
      /\ \A n \in Len(d) + 1 .. Len(v) + Len(d) : At(w, n) = At(v, n - Len(d))
  BY <1>4, <1>8, ConcatAt
<1>10. UninstallSteps(o) = w
  BY <1>5 DEF u, v, w
<1> HIDE DEF w
<1>11. Len(b) = Services(o) - Base(o)
  BY <1>2 DEF Services, Base
<1>12. Len(w) = Services(o) + Reloads + 2
  <2>2. Len(w) = (((Reloads + 2) + (Services(o) - Base(o))) + (Base(o) - 3)) + 3
    BY <1>1, <1>3, <1>4, <1>7, <1>8, <1>9, <1>11
  <2> QED BY <1>0, <2>2
<1>13. ASSUME NEW n \in 1 .. Len(w)
       PROVE  UninstallOn(o, At(w, n), n)
  <2>1. CASE n \in 1 .. 3
    BY <1>4, <1>9, <2>1 DEF UninstallOn
  <2>2. CASE n \in 4 .. Base(o)
    <3>1. Forward(o) /\ n \in {4, 5} /\ Base(o) = 5 /\ n - 3 \in 1 .. Len(c)
      BY <1>3, <2>2, Counts
    <3>2. Len(u) \in Nat /\ Len(c) \in Nat /\ Len(v) = Len(u) + Len(c) /\ n \in Nat
      BY <1>3, <1>7, <1>8, <3>1
    <3>3. n \in 3 + 1 .. Len(v) + 3
      BY <3>1, <3>2
    <3>4. At(w, n) = At(v, n - 3)
      BY <1>4, <1>9, <3>3
    <3>5. At(v, n - 3) = At(c, n - 3)
      BY <1>8, <3>1
    <3>6. At(w, n) = At(c, n - 3)
      BY <3>4, <3>5
    <3> QED BY <1>3, <3>1, <3>6 DEF UninstallOn
  <2>3. CASE n > Base(o)
    <3>1. n - Base(o) \in 1 .. Len(u) /\ n \in 4 .. Len(v) + 3 /\ n - 3 \in Len(c) + 1 .. Len(u) + Len(c)
      <4>1. Len(u) = (Reloads + 2) + (Services(o) - Base(o)) /\ Len(v) = Len(u) + Len(c) /\ Len(c) = Base(o) - 3
        BY <1>1, <1>3, <1>7, <1>8, <1>11
      <4>2. n \in Nat /\ n <= Services(o) + Reloads + 2
        BY <1>12, <1>0
      <4>3. Base(o) \in {3, 5}
        BY Counts
      <4>4. Len(u) + (Base(o) - 3) = Services(o) + Reloads - 1
        BY <1>0, <4>1
      <4>5. Len(v) = Services(o) + Reloads - 1
        BY <4>1, <4>4
      <4>6. Len(u) = Services(o) + Reloads + 2 - Base(o)
        BY <1>0, <4>1
      <4>7. Len(c) + 1 = Base(o) - 2 /\ Len(u) + Len(c) = Services(o) + Reloads - 1
        <5>1. Len(c) = Base(o) - 3
          BY <4>1
        <5> QED BY <1>0, <4>6, <5>1
      <4>8. n - Base(o) \in 1 .. Services(o) + Reloads + 2 - Base(o)
        BY <1>0, <2>3, <4>2
      <4>9. n \in 4 .. Services(o) + Reloads - 1 + 3 /\ n - 3 \in Base(o) - 2 .. Services(o) + Reloads - 1
        BY <1>0, <2>3, <4>2, <4>3
      <4> QED BY <4>5, <4>6, <4>7, <4>8, <4>9
    <3>2. At(w, n) = At(v, n - 3) /\ At(v, n - 3) = At(u, n - 3 - Len(c))
      <4>1. At(w, n) = At(v, n - 3)
        BY <1>4, <1>9, <3>1
      <4>2. At(v, n - 3) = At(u, n - 3 - Len(c))
        BY <1>8, <3>1
      <4> QED BY <4>1, <4>2
    <3>3. n - 3 - Len(c) = n - Base(o)
      BY <1>3, Counts
    <3>4. At(w, n) = At(u, n - Base(o))
      BY <3>2, <3>3
    <3>5. CASE n = Base(o) + 1 /\ o.inspect
      <4>1. n - Base(o) = 1 /\ 1 \in 1 .. Len(b)
        BY <1>2, <3>5, Counts
      <4> QED BY <1>2, <1>7, <3>4, <3>5, <4>1 DEF UninstallOn
    <3>6. CASE n > Services(o)
      <4>1. /\ n - Base(o) \in Len(b) + 1 .. Len(a) + Len(b)
            /\ n - Base(o) - Len(b) = n - Services(o)
        <5>1. n - Base(o) \in 1 .. Len(a) + Len(b) /\ Len(a) = Reloads + 2 /\ n \in Nat
          BY <1>1, <1>7, <3>1
        <5> QED BY <1>11, <1>0, <3>6, <5>1
      <4>2. At(w, n) = At(a, n - Services(o))
        BY <1>7, <3>4, <4>1
      <4>3. \/ n = Services(o) + Reloads + 2
            \/ n = Services(o) + Reloads + 1
            \/ n = Services(o) + 1 /\ Reloads = 1
        BY <1>12, <3>6, Counts
      <4>4. n - Services(o) = IF n = Services(o) + Reloads + 2 THEN Reloads + 2
                              ELSE IF n = Services(o) + Reloads + 1 THEN Reloads + 1 ELSE 1
        BY <4>3, Counts
      <4> QED BY <1>6, <4>2, <4>3, <4>4, Counts DEF UninstallOn
    <3> QED BY <2>3, <3>5, <3>6, Counts
  <2> QED BY <2>1, <2>2, <2>3, Counts
<1> QED BY <1>10, <1>12, <1>13

LEMMA PlaceOn ==
  ASSUME IInv, NEW step, AtStep(step), cli.cmd = "uninstall"
  PROVE  guard.with \in Options /\ UninstallOn(guard.with, step, ToGo)
<1>1. /\ ~Idle /\ cli.todo \in Seq(Steps) /\ ToGo \in Nat \ {0} /\ guard.with \in Options
      /\ step = cli.todo[1]
  <2>1. ~Idle /\ cli.todo \in Seq(Steps) /\ ToGo \in Nat \ {0} /\ guard.with \in Options
    BY Place DEF IInv
  <2>2. cli.todo # <<>>
    BY <2>1 DEF ToGo
  <2> QED BY <2>1, <2>2, HeadTailProperties DEF AtStep
<1>2. Program = UninstallSteps(guard.with) /\ Program \in Seq(Steps) /\ Suffix(cli.todo, Program)
  BY <1>1, ProgramType DEF IInv, InPlace, Program
<1>3. ToGo \in 1 .. Len(Program) /\ step = At(Program, ToGo)
  <2>1. Len(Program) \in Nat /\ ToGo <= Len(Program)
    BY <1>2 DEF Suffix, ToGo
  <2>2. 1 \in 1 .. Len(cli.todo)
    BY <1>1 DEF ToGo
  <2>3. cli.todo[1] = Program[Len(Program) - Len(cli.todo) + 1]
    BY <1>2, <2>2 DEF Suffix
  <2> QED BY <1>1, <2>1, <2>3 DEF At, ToGo
<1> QED BY <1>1, <1>2, <1>3, UninstallStepsOn

-----------------------------------------------------------------------------
(* What a step does, as long as no step of a removal has failed.           *)

Past(step, out, n) ==
  /\ AtStep(step) /\ ~Idle /\ ToGo \in Nat \ {0} /\ ~slipped
  /\ system' = system /\ cli'.cmd = cli.cmd /\ cli'.with = cli.with
  /\ cli'.end = "fatal" => cli'.failed
  /\ cli'.raced = cli.raced
  /\ cli'.end = "running" => ToGo' \in Nat \ {0} /\ ToGo' < ToGo
  /\ cli'.end = "done" => ToGo' = 0
  /\ cli.cmd = "uninstall" /\ cli'.end \in {"running", "done"} => out = "works" /\ ToGo' = ToGo - 1 - n

LEMMA HasPassed ==
  ASSUME IInv, NEW step, NEW out \in Outcomes, NEW n \in {0, 1}, n = 1 => ToGo > 1, Runs(step, out, n), ~slipped'
  PROVE  Past(step, out, n)
<1>1. /\ AtStep(step) /\ system' = system /\ cli' \in Cli /\ cli'.cmd = cli.cmd /\ cli'.with = cli.with
      /\ (cli'.end = "running" <=> cli'.todo # <<>>) /\ Ran(step, out, n)
  BY HasRun DEF Ran
<1>2. ~Idle /\ ToGo \in Nat \ {0} /\ cli \in Cli
  BY <1>1, Place, TypeParts DEF IInv, CliOK
<1>3. ~slipped /\ (out = "fails" => cli.cmd # "uninstall")
  <2>1. CASE out = "fails"
    <3>1. slipped' = (slipped \/ cli.cmd \in Removals)
      BY <2>1 DEF Runs
    <3> QED BY <3>1 DEF Removals
  <2>2. CASE out # "fails"
    <3>1. slipped' = slipped
      BY <2>2 DEF Runs, chance
    <3> QED BY <2>2, <3>1
  <2> QED BY <2>1, <2>2
<1>4. /\ cli'.raced = cli.raced
      /\ cli'.end = "fatal" => cli'.failed
      /\ out = "killed" => cli'.end = "killed"
      /\ out = "works" => Len(cli'.todo) = ToGo - 1 - n
  <2>1. CASE out = "works"
    <3>1. cli' = GoesOn(n)
      BY <2>1 DEF Runs
    <3>2. cli' = [cli EXCEPT !.todo = SubSeq(cli.todo, n + 2, Len(cli.todo)),
                             !.end = IF SubSeq(cli.todo, n + 2, Len(cli.todo)) = <<>> THEN "done" ELSE "running"]
      BY <3>1 DEF GoesOn
    <3>3. cli'.raced = cli.raced /\ cli'.end \in {"done", "running"}
      BY <1>2, <3>2 DEF Cli
    <3>4. n \in Nat /\ n < ToGo
      BY <1>2
    <3>5. Len(cli'.todo) = ToGo - 1 - n
      BY <1>2, <3>1, <3>4, GoesOnIs DEF IInv
    <3> QED BY <2>1, <3>3, <3>5
  <2>2. CASE out = "fails"
    <3>1. cli' = Copes(step)
      BY <2>2 DEF Runs
    <3>2. cli' = [IF Fatal(step) THEN Quits("fatal") ELSE GoesOn(Skipped(step)) EXCEPT !.failed = TRUE]
      BY <3>1 DEF Copes
    <3>3. Quits("fatal") \in Cli
      BY QuitsIs DEF IInv
    <3>4. GoesOn(Skipped(step)) \in Cli
      BY <1>1, <1>2, SkippedIs, GoesOnIs DEF IInv
    <3> DEFINE g == IF Fatal(step) THEN Quits("fatal") ELSE GoesOn(Skipped(step))
    <3>6. g \in Cli /\ g.raced = cli.raced /\ cli' = [g EXCEPT !.failed = TRUE]
      <4>1. Quits("fatal").raced = cli.raced /\ GoesOn(Skipped(step)).raced = cli.raced
        BY <1>2 DEF Quits, GoesOn, Cli
      <4> QED BY <3>2, <3>3, <3>4, <4>1
    <3> HIDE DEF g
    <3>5. cli'.failed /\ cli'.raced = cli.raced
      BY <3>6 DEF Cli
    <3> QED BY <2>2, <3>5
  <2>3. CASE out = "killed"
    <3>1. cli' = [cli EXCEPT !.todo = <<>>, !.end = "killed"]
      BY <2>3 DEF Runs, Quits
    <3>2. cli'.raced = cli.raced /\ cli'.end = "killed"
      BY <1>2, <3>1 DEF Cli
    <3> QED BY <2>3, <3>2
  <2> QED BY <2>1, <2>2, <2>3 DEF Outcomes
<1>5. cli'.end = "running" => ToGo' \in Nat \ {0} /\ ToGo' < ToGo
  <2> SUFFICES ASSUME cli'.end = "running"
               PROVE  ToGo' \in Nat \ {0} /\ ToGo' < ToGo
    OBVIOUS
  <2>1. ~Idle'
    BY DEF Idle
  <2>2. ToGo' \in Nat \ {0} /\ (ToGo' = ToGo - 1 - n \/ ToGo' = ToGo - 1 \/ ToGo' = ToGo - 2)
    BY <1>1, <2>1, HowFar
  <2> QED BY <1>2, <2>2
<1>6. cli'.end = "done" => ToGo' = 0
  BY <1>1, EmptySeq DEF ToGo
<1>7. cli.cmd = "uninstall" /\ cli'.end \in {"running", "done"} => out = "works" /\ ToGo' = ToGo - 1 - n
  BY <1>3, <1>4 DEF Outcomes, ToGo
<1> QED BY <1>1, <1>2, <1>3, <1>4, <1>5, <1>6, <1>7 DEF Past

\* The part of the invariant that is about init.
LEMMA PastInit ==
  ASSUME IInv, CleanInv, NEW step, NEW out \in Outcomes, NEW n \in {0, 1}, Past(step, out, n),
         guard' = guard \/ step = "guard", ca' = ca \/ step \in {"crt", "key", "rmca"}
  PROVE  /\ cli'.cmd = "init" /\ ~Idle' => Finds(cli.with)'
         /\ InitUnhindered'
<1>1. InitUnhindered'
  BY DEF Past, InitUnhindered
<1>2. ASSUME cli'.cmd = "init", ~Idle'
      PROVE  Finds(cli.with)'
  <2>1. /\ cli.cmd = "init" /\ AtStep(step) /\ cli'.with = cli.with /\ ToGo \in Nat \ {0} /\ ToGo' \in Nat \ {0} /\ ToGo' < ToGo
        /\ cli'.raced = cli.raced
    BY <1>2 DEF Past, Idle
  <2>2. Finds(cli.with)
    BY <2>1 DEF Past, CleanInv
  <2>3. InitAt(cli.with, step, ToGo)
    BY <2>1, Place DEF IInv
  <2>4. step \in {"crt", "key", "rmca"} => ~(Forward(cli.with) /\ cli.with.inspect /\ ToGo > 8)
    BY <2>1, <2>3 DEF InitAt, ServiceAt
  <2>5. step = "guard" => ToGo <= (IF ~Forward(cli.with) THEN 2 ELSE IF cli.with.inspect THEN 10 ELSE 7)
    BY <2>1, <2>3 DEF InitAt, ServiceAt
  <2>6. CASE ~Forward(cli.with)
    BY <2>1, <2>2, <2>5, <2>6 DEF Finds, Forward
  <2>7. CASE Forward(cli.with) /\ ~cli.with.inspect
    BY <2>1, <2>2, <2>5, <2>7 DEF Finds, Forward
  <2>8. CASE Forward(cli.with) /\ cli.with.inspect
    <3>1. ToGo' > 9 => guard'.is = "none"
      BY <2>1, <2>2, <2>5, <2>8 DEF Finds, Forward
    <3>2. ToGo' >= 8 => cli'.raced \/ ca'.crt = "none"
      BY <2>1, <2>2, <2>4, <2>8 DEF Finds, Forward
    <3> QED BY <2>1, <2>8, <3>1, <3>2 DEF Finds, Forward
  <2> QED BY <2>6, <2>7, <2>8
<1> QED BY <1>1, <1>2

LEMMA PastClean ==
  ASSUME IInv, CleanInv, NEW step, NEW out \in Outcomes, NEW n \in {0, 1}, Past(step, out, n),
         guard' = guard \/ step = "guard" \/ cli.cmd = "uninstall", ca' = ca \/ step \in {"crt", "key", "rmca"},
         Between',
         cli.cmd = "uninstall" /\ cli'.end \in {"running", "done"} => Gone(guard.with)'
  PROVE  CleanInv'
<1>1. cli'.cmd = cli.cmd
  BY DEF Past
<1>2. CASE cli.cmd = "uninstall"
  BY <1>1, <1>2 DEF CleanInv, InitUnhindered
<1>3. CASE cli.cmd # "uninstall"
  BY <1>1, <1>3, PastInit DEF CleanInv
<1> QED BY <1>2, <1>3

\* What was so when uninstall was at this step.
LEMMA Before ==
  ASSUME IInv, CleanInv, NEW step, NEW out \in Outcomes, NEW n \in {0, 1}, Past(step, out, n)
  PROVE  /\ Between
         /\ cli.cmd = "uninstall" =>
              Gone(guard.with) /\ guard.with \in Options /\ UninstallOn(guard.with, step, ToGo) /\ Paired
<1>1. ~slipped /\ AtStep(step) /\ cli.end = "running" /\ ~Idle
  BY DEF Past, Idle
<1> QED BY <1>1, PlaceOn DEF CleanInv, IInv, InPlace

-----------------------------------------------------------------------------
(* The steps.                                                              *)

\* Nothing that is known between the commands has changed.
LEMMA SameBetween ==
  ASSUME Between, UNCHANGED <<system, guard, ca, trusted, imposed, backup, left>>
  PROVE  Between'
BY DEF Between, Paired, Forward

LEMMA ServiceClean ==
  ASSUME IInv, CleanInv, ~slipped', NEW out \in Outcomes,
         NEW step \in {"unit", "reload", "enable", "unload", "load", "stop", "rmunit"}, Runs(step, out, 0),
         UNCHANGED <<pairing, ca, store, wiring, left>>,
         step = "stop" /\ out = "works" => running' = 0 /\ (system # "linux" => loaded' = 0),
         step = "rmunit" /\ out = "works" => unit' = 0 /\ UNCHANGED <<loaded, running>>,
         step = "reload" /\ out = "works" => loaded' \in {0, unit} /\ UNCHANGED <<unit, running>>
  PROVE  CleanInv'
<1>1. Past(step, out, 0)
  BY HasPassed
<1>2. UNCHANGED <<system, guard, opaConfig, ca, trusted, imposed, backup, left>>
  BY <1>1 DEF Past, pairing, store, wiring
<1>3. Between /\ (cli.cmd = "uninstall" => Gone(guard.with) /\ UninstallOn(guard.with, step, ToGo))
  BY <1>1, Before
<1>4. Between'
  BY <1>2, <1>3, SameBetween
<1>5. ASSUME cli.cmd = "uninstall", cli'.end \in {"running", "done"}
      PROVE  Gone(guard.with)'
  <2> DEFINE o == guard.with
             b == Base(o)
             s == Services(o)
  <2>1. out = "works" /\ ToGo' = ToGo - 1 /\ ToGo \in Nat \ {0}
    BY <1>1, <1>5 DEF Past
  <2>2. /\ Base(guard'.with) = b /\ Services(guard'.with) = s /\ Reloads' = Reloads
        /\ b \in {3, 5} /\ s \in {b, b + 1} /\ Reloads \in {0, 1} /\ (system = "linux" <=> Reloads = 1)
    BY <1>2, Counts DEF Base, Services, Reloads, Forward
  <2>3. /\ ToGo <= s + Reloads + 1 => running = 0 /\ (system # "linux" => loaded = 0)
        /\ ToGo <= s + Reloads => unit = 0
    BY <1>3, <1>5 DEF Gone
  <2>4. \/ step = "stop" /\ ToGo = s + Reloads + 2
        \/ step = "rmunit" /\ ToGo = s + Reloads + 1
        \/ step = "reload" /\ system = "linux" /\ ToGo = s + 1
    BY <1>3, <1>5 DEF UninstallOn
  <2> HIDE DEF o, b, s
  <2>5. /\ ToGo' <= s + Reloads + 1 => running' = 0 /\ (system # "linux" => loaded' = 0)
        /\ ToGo' <= s + Reloads => unit' = 0
        /\ ToGo' <= s => loaded' = 0
        /\ ToGo' >= b /\ (ToGo' <= b => s = b)
    <3>1. CASE step = "stop"
      BY <2>1, <2>2, <2>4, <3>1
    <3>2. CASE step = "rmunit"
      BY <2>1, <2>2, <2>3, <2>4, <3>2
    <3>3. CASE step = "reload"
      BY <2>1, <2>2, <2>3, <2>4, <3>3
    <3> QED BY <2>4, <3>1, <3>2, <3>3
  <2>6. s = b => trusted = {} \/ imposed
    <3>1. s = b => ~guard.with.inspect
      BY <2>2, Counts DEF o, b, s
    <3> QED BY <1>3, <3>1 DEF Between
  <2>7. /\ ToGo' <= s + Reloads + 1 => running' = 0 /\ (system' # "linux" => loaded' = 0)
        /\ ToGo' <= s + Reloads => unit' = 0
        /\ ToGo' <= s => loaded' = 0
        /\ ToGo' <= b => trusted' = {} \/ imposed'
        /\ ~(ToGo' <= 2) /\ ~(ToGo' <= 1) /\ ToGo' # 0 /\ (Forward(o) => ~(ToGo' <= 3))
    <3>1. Forward(o) => b = 5
      BY Counts DEF b, o
    <3>2. ToGo' \in Nat
      BY <2>1
    <3> QED BY <1>2, <2>2, <2>5, <2>6, <3>1, <3>2
  <2> QED BY <1>2, <2>2, <2>7 DEF Gone, o, Forward
<1> QED BY <1>1, <1>2, <1>4, <1>5, PastClean

LEMMA ServiceStepsClean ==
  ASSUME IInv, CleanInv, ~slipped', NEW out \in Outcomes,
         WriteUnit(out) \/ Reload(out) \/ Enable(out) \/ Load(out) \/ Stop(out) \/ RemoveUnit(out)
  PROVE  CleanInv'
<1>0. cafiles' = cafiles => UNCHANGED <<ca, store>>
  BY DEF cafiles
<1>1. CASE WriteUnit(out)
  BY <1>0, <1>1, ServiceClean DEF WriteUnit
<1>2. CASE Reload(out)
  <2>1. out = "works" => loaded' \in {0, unit}
    BY <1>2 DEF Reload, After
  <2> QED BY <1>0, <1>2, <2>1, ServiceClean DEF Reload
<1>3. CASE Enable(out)
  BY <1>0, <1>3, ServiceClean DEF Enable
<1>4. CASE Load(out)
  BY <1>4, ServiceClean DEF Load
<1>5. CASE Stop(out)
  <2>1. running' \in After(out, running, 0, {}) /\ loaded' = IF system = "darwin" /\ running' = 0 THEN 0 ELSE loaded
    BY <1>5 DEF Stop
  <2>2. out = "works" => running' = 0
    BY <2>1 DEF After
  <2>3. system = "linux" \/ system = "darwin"
    BY TypeParts, SystemsAssumption DEF IInv, CliOK
  <2>4. out = "works" => running' = 0 /\ (system # "linux" => loaded' = 0)
    BY <2>1, <2>2, <2>3
  <2>5. UNCHANGED <<pairing, ca, store, wiring, left>> /\ (Runs("unload", out, 0) \/ Runs("stop", out, 0))
    BY <1>5 DEF Stop
  <2> QED BY <2>4, <2>5, ServiceClean
<1>6. CASE RemoveUnit(out)
  <2>1. out = "works" => unit' = 0
    BY <1>6 DEF RemoveUnit, After
  <2> QED BY <1>0, <1>6, <2>1, ServiceClean DEF RemoveUnit
<1> QED BY <1>1, <1>2, <1>3, <1>4, <1>5, <1>6

\* init alone takes these steps.
LEMMA OnInit ==
  ASSUME IInv, CleanInv, NEW step \in {"claim", "guard", "opa", "crt", "key", "trust", "backup", "inject"},
         NEW out \in Outcomes, NEW n \in {0, 1}, Past(step, out, n)
  PROVE  /\ cli.cmd = "init" /\ cli.with \in Options /\ InitAt(cli.with, step, ToGo) /\ InitHas(cli.with)
         /\ Finds(cli.with) /\ Between
<1>1. AtStep(step) /\ ~slipped /\ ~Idle
  BY DEF Past
<1> QED BY <1>1, OnlyInit DEF CleanInv

LEMMA ClaimClean == ASSUME IInv, CleanInv, ~slipped', NEW out \in Outcomes, Claim(out) PROVE CleanInv'
<1>1. /\ Runs("claim", out, 0)
      /\ UNCHANGED <<guard, ca, trusted, imposed, backup, left>>
  BY DEF Claim, cafiles, store, wiring
<1>2. Past("claim", out, 0)
  BY <1>1, HasPassed
<1>3. cli.cmd = "init" /\ Between /\ system' = system
  BY <1>2, OnInit DEF Past
<1>4. Between'
  BY <1>1, <1>3, SameBetween
<1> QED BY <1>1, <1>2, <1>3, <1>4, PastClean

LEMMA RenderConfigClean == ASSUME IInv, CleanInv, ~slipped', NEW out \in Outcomes, RenderConfig(out) PROVE CleanInv'
<1>1. /\ Runs("opa", out, 0)
      /\ UNCHANGED <<guard, ca, trusted, imposed, backup, left>>
  BY DEF RenderConfig, cafiles, store, wiring
<1>2. Past("opa", out, 0)
  BY <1>1, HasPassed
<1>3. cli.cmd = "init" /\ Between /\ system' = system
  BY <1>2, OnInit DEF Past
<1>4. Between'
  BY <1>1, <1>3, SameBetween
<1> QED BY <1>1, <1>2, <1>3, <1>4, PastClean

LEMMA InjectClean == ASSUME IInv, CleanInv, ~slipped', NEW out \in Outcomes, Inject(out) PROVE CleanInv'
<1>1. /\ Runs("inject", out, 0)
      /\ UNCHANGED <<guard, ca, trusted, imposed, backup, left>>
  BY DEF Inject, pairing, cafiles, store
<1>2. Past("inject", out, 0)
  BY <1>1, HasPassed
<1>3. cli.cmd = "init" /\ Between /\ system' = system
  BY <1>2, OnInit DEF Past
<1>4. Between'
  BY <1>1, <1>3, SameBetween
<1> QED BY <1>1, <1>2, <1>3, <1>4, PastClean

\* Where init writes guard.json there is no certificate, no copy and no trust.
LEMMA SaveGuardClean == ASSUME IInv, CleanInv, ~slipped', NEW out \in Outcomes, SaveGuard(out) PROVE CleanInv'
<1>1. /\ Runs("guard", out, 0)
      /\ UNCHANGED <<ca, trusted, imposed, backup, left>>
  BY DEF SaveGuard, cafiles, store, wiring
<1>2. Past("guard", out, 0)
  BY <1>1, HasPassed
<1>3. /\ cli.cmd = "init" /\ Between /\ system' = system
      /\ InitAt(cli.with, "guard", ToGo) /\ Finds(cli.with)
  BY <1>2, OnInit DEF Past
<1>4. ~Paired
  <2>1. ToGo > (IF ~Forward(cli.with) THEN 1 ELSE IF cli.with.inspect THEN 9 ELSE 6)
    BY <1>3 DEF InitAt, ServiceAt
  <2> QED BY <1>3, <2>1 DEF Finds, Paired
<1>5. Between'
  BY <1>1, <1>3, <1>4 DEF Between
<1> QED BY <1>1, <1>2, <1>3, <1>5, PastClean

\* Where init makes the CA, guard.json is written.
LEMMA CAClean ==
  ASSUME IInv, CleanInv, NEW step \in {"crt", "key"}, NEW out \in Outcomes, NEW n \in {0, 1}, Past(step, out, n),
         UNCHANGED <<guard, trusted, imposed, backup, left>>,
         ca' = ca \/ ca.crt = "none" \/ (ca'.crt = ca.crt /\ ca'.made = ca.made)
  PROVE  CleanInv'
<1>1. /\ cli.cmd = "init" /\ Between /\ system' = system
      /\ InitAt(cli.with, step, ToGo) /\ InitHas(cli.with)
  BY OnInit DEF Past
<1>2. Paired /\ guard.with.inspect /\ Forward(guard.with)
  BY <1>1 DEF InitAt, ServiceAt, InitHas, Paired
<1>3. Between'
  <2>1. system' # "linux" /\ ~imposed' => trusted' \subseteq {ca'.made} /\ (trusted' # {} => ca'.crt = "whole")
    <3>1. CASE ca' = ca \/ (ca'.crt = ca.crt /\ ca'.made = ca.made)
      BY <1>1, <3>1 DEF Between
    <3>2. CASE ca.crt = "none"
      <4>1. system # "linux" /\ ~imposed => trusted = {}
        BY <1>1, <3>2 DEF Between
      <4> QED BY <1>1, <4>1
    <3> QED BY <3>1, <3>2
  <2>2. Paired' /\ guard'.with.inspect /\ Forward(guard'.with) /\ ~left'
    BY <1>1, <1>2 DEF Between, Paired
  <2> QED BY <2>1, <2>2 DEF Between
<1> QED BY <1>1, <1>3, PastClean

LEMMA WriteCertClean == ASSUME IInv, CleanInv, ~slipped', NEW out \in Outcomes, WriteCert(out) PROVE CleanInv'
<1>1. UNCHANGED <<guard, trusted, imposed, backup, left>>
  BY DEF WriteCert, pairing, store, wiring
<1>2. CASE ca.crt = "none" /\ Runs("crt", out, 0)
  <2>1. Past("crt", out, 0)
    BY <1>2, HasPassed
  <2> QED BY <1>1, <1>2, <2>1, CAClean
<1>3. CASE Runs("crt", out, 1) /\ ca' = ca
  <2>1. ToGo > 1
    <3>1. AtStep("crt")
      BY <1>3 DEF Runs
    <3>2. InitAt(cli.with, "crt", ToGo)
      BY <3>1, OnlyInit
    <3> QED BY <3>2 DEF InitAt, ServiceAt
  <2>2. Past("crt", out, 1)
    BY <1>3, <2>1, HasPassed
  <2> QED BY <1>1, <1>3, <2>2, CAClean
<1> QED BY <1>2, <1>3 DEF WriteCert

LEMMA WriteKeyClean == ASSUME IInv, CleanInv, ~slipped', NEW out \in Outcomes, WriteKey(out) PROVE CleanInv'
<1>1. /\ Runs("key", out, 0)
      /\ ca' \in After(out, ca, [ca EXCEPT !.key = "whole"], {[ca EXCEPT !.key = "part"]})
      /\ UNCHANGED <<guard, trusted, imposed, backup, left>>
  BY DEF WriteKey, pairing, store, wiring
<1>2. Past("key", out, 0)
  BY <1>1, HasPassed
<1>3. ca \in CAFiles
  BY TypeParts DEF IInv, CAOK
<1>4. ca' = ca \/ ca' = [ca EXCEPT !.key = "whole"] \/ ca' = [ca EXCEPT !.key = "part"]
  BY <1>1, AfterIs
<1>5. ca' = ca \/ (ca'.crt = ca.crt /\ ca'.made = ca.made)
  BY <1>3, <1>4 DEF CAFiles
<1> QED BY <1>1, <1>2, <1>5, CAClean

LEMMA TrustClean == ASSUME IInv, CleanInv, ~slipped', NEW out \in Outcomes, Trust(out) PROVE CleanInv'
<1> DEFINE new == (IF system = "linux" THEN {} ELSE trusted) \cup {ca.made}
<1>1. /\ Runs("trust", out, 0) /\ trusted' \in After(out, trusted, new, {new})
      /\ UNCHANGED <<guard, ca, imposed, backup, left>>
  BY DEF Trust, pairing, wiring
<1>2. Past("trust", out, 0)
  BY <1>1, HasPassed
<1>3. /\ cli.cmd = "init" /\ Between /\ system' = system
      /\ InitAt(cli.with, "trust", ToGo) /\ InitHas(cli.with)
  BY <1>2, OnInit DEF Past
<1>4. Paired /\ guard.with.inspect /\ Forward(guard.with) /\ ca.crt = "whole"
  BY <1>3 DEF InitAt, ServiceAt, InitHas, Paired
<1>5. system # "linux" => new = trusted \cup {ca.made}
  OBVIOUS
<1> HIDE DEF new
<1>6. trusted' = trusted \/ trusted' = new
  BY <1>1, AfterIs
<1>7. system' # "linux" /\ ~imposed' => trusted' \subseteq {ca'.made} /\ (trusted' # {} => ca'.crt = "whole")
  <2>1. system # "linux" /\ ~imposed => trusted \subseteq {ca.made}
    BY <1>3 DEF Between
  <2> QED BY <1>1, <1>3, <1>4, <1>5, <1>6, <2>1
<1>8. Between'
  BY <1>1, <1>3, <1>4, <1>7 DEF Between, Paired, Forward
<1> QED BY <1>1, <1>2, <1>3, <1>8, PastClean

LEMMA BackUpClean == ASSUME IInv, CleanInv, ~slipped', NEW out \in Outcomes, BackUp(out) PROVE CleanInv'
<1>1. /\ Runs("backup", out, 0)
      /\ UNCHANGED <<guard, ca, trusted, imposed, left>>
  BY DEF BackUp, pairing, cafiles, store
<1>2. Past("backup", out, 0)
  BY <1>1, HasPassed
<1>3. /\ cli.cmd = "init" /\ Between /\ system' = system
      /\ InitAt(cli.with, "backup", ToGo) /\ InitHas(cli.with)
  BY <1>2, OnInit DEF Past
<1>4. Paired /\ Forward(guard.with)
  BY <1>3 DEF InitAt, ServiceAt, InitHas, Paired
<1>5. Between'
  BY <1>1, <1>3, <1>4 DEF Between, Paired, Forward
<1> QED BY <1>1, <1>2, <1>3, <1>5, PastClean

\* The steps of uninstall that follow those of svc.Uninstall, but for the last.
LEMMA LateGone ==
  ASSUME IInv, CleanInv, NEW out \in Outcomes, NEW n \in {0, 1},
         NEW step \in {"distrust", "restore", "rmbackup", "rmca", "rmopa"}, Past(step, out, n),
         cli.cmd = "uninstall", cli'.end \in {"running", "done"},
         UNCHANGED <<guard, unit, loaded, running>>,
         n = 1 => step = "restore" /\ ~backup.made,
         IF step = "distrust" THEN trusted' = {} \/ imposed' ELSE UNCHANGED <<trusted, imposed>>,
         IF step = "rmbackup" THEN ~backup'.made ELSE backup' = backup,
         IF step = "rmca" THEN ca'.crt = "none" /\ ca'.key = "none" ELSE ca' = ca,
         IF step = "rmopa" THEN opaConfig' = "none" ELSE opaConfig' = opaConfig
  PROVE  Gone(guard.with)'
<1> DEFINE o == guard.with
           b == Base(o)
           s == Services(o)
<1>1. /\ out = "works" /\ ToGo' = ToGo - 1 - n /\ ToGo \in Nat \ {0} /\ system' = system
      /\ Gone(o) /\ UninstallOn(o, step, ToGo)
  BY Before DEF Past
<1>2. /\ Base(guard'.with) = b /\ Services(guard'.with) = s /\ Reloads' = Reloads
      /\ b \in {3, 5} /\ s \in {b, b + 1} /\ Reloads \in {0, 1} /\ (Forward(o) <=> b = 5)
      /\ o.inspect => s = b + 1
  BY <1>1, Counts DEF Base, Services, Reloads, Forward
<1>3. /\ ToGo <= s + Reloads + 1 => running = 0 /\ (system # "linux" => loaded = 0)
      /\ ToGo <= s + Reloads => unit = 0
      /\ ToGo <= s => loaded = 0
      /\ ToGo <= b => trusted = {} \/ imposed
      /\ Forward(o) /\ ToGo <= 3 => ~backup.made
      /\ ToGo <= 2 => ca.crt = "none" /\ ca.key = "none"
      /\ ToGo <= 1 => opaConfig = "none"
  BY <1>1 DEF Gone
<1>4. \/ step = "distrust" /\ o.inspect /\ ToGo = b + 1
      \/ step = "restore" /\ Forward(o) /\ ToGo = 5
      \/ step = "rmbackup" /\ Forward(o) /\ ToGo = 4
      \/ step = "rmca" /\ ToGo = 3
      \/ step = "rmopa" /\ ToGo = 2
  BY <1>1 DEF UninstallOn
<1> HIDE DEF o, b, s
<1>5. ToGo <= s /\ ToGo <= s + Reloads /\ ToGo <= s + Reloads + 1 /\ ToGo' < ToGo /\ ToGo' \in Nat \ {0}
  BY <1>1, <1>2, <1>4
<1>6. running' = 0 /\ loaded' = 0 /\ unit' = 0
  BY <1>3, <1>5
<1>7. trusted' = {} \/ imposed'
  <2>1. step # "distrust" => ToGo <= b
    BY <1>2, <1>4
  <2> QED BY <1>3, <2>1
<1>8. Forward(o) /\ ToGo' <= 3 => ~backup'.made
  <2>1. Forward(o) /\ ToGo' <= 3 => step = "rmbackup" \/ ToGo <= 3 \/ n = 1
    BY <1>1, <1>2, <1>4
  <2> QED BY <1>3, <2>1
<1>9. ToGo' <= 2 => ca'.crt = "none" /\ ca'.key = "none"
  <2>1. ToGo' <= 2 => step = "rmca" \/ ToGo <= 2
    BY <1>1, <1>2, <1>4
  <2> QED BY <1>3, <2>1
<1>10. ToGo' <= 1 => opaConfig' = "none"
  <2>1. ToGo' <= 1 => step = "rmopa"
    BY <1>1, <1>2, <1>4
  <2> QED BY <2>1
<1> QED BY <1>5, <1>6, <1>7, <1>8, <1>9, <1>10 DEF Gone, o, Forward

LEMMA DistrustClean == ASSUME IInv, CleanInv, ~slipped', NEW out \in Outcomes, Distrust(out) PROVE CleanInv'
<1> DEFINE new == IF system = "linux" THEN {} ELSE trusted \ {g \in {ca.made} : ca.crt = "whole"}
<1>1. /\ Runs("distrust", out, 0) /\ trusted' \in After(out, trusted, new, {new})
      /\ UNCHANGED <<guard, opaConfig, ca, imposed, backup, unit, loaded, running, left>>
  BY DEF Distrust, pairing, wiring, service
<1>2. Past("distrust", out, 0)
  BY <1>1, HasPassed
<1>3. cli.cmd = "uninstall"
  BY <1>2, OnlyUninstall DEF Past
<1>4. Between /\ system' = system
  BY <1>2, Before DEF Past
<1>5. new \subseteq trusted /\ (new = {} \/ imposed)
  BY <1>4 DEF Between
<1> HIDE DEF new
<1>6. trusted' = trusted \/ trusted' = new
  BY <1>1, AfterIs
<1>7. trusted' \subseteq trusted
  BY <1>5, <1>6
<1>8. Between'
  <2>1. trusted = {} => trusted' = {}
    BY <1>7
  <2> QED BY <1>1, <1>4, <1>7, <2>1 DEF Between, Paired, Forward
<1>9. ASSUME cli'.end \in {"running", "done"}
      PROVE  Gone(guard.with)'
  <2>1. out = "works"
    BY <1>2, <1>3, <1>9 DEF Past
  <2>2. trusted' = new
    BY <1>1, <2>1 DEF After
  <2>3. trusted' = {} \/ imposed'
    BY <1>1, <1>5, <2>2
  <2> QED BY <1>1, <1>2, <1>3, <1>9, <2>3, LateGone
<1> QED BY <1>1, <1>2, <1>8, <1>9, PastClean

LEMMA RemoveCAClean == ASSUME IInv, CleanInv, ~slipped', NEW out \in Outcomes, RemoveCA(out) PROVE CleanInv'
<1>1. /\ Runs("rmca", out, 0)
      /\ ca' \in After(out, ca, [ca EXCEPT !.crt = "none", !.key = "none"],
                       {[ca EXCEPT !.crt = "none"], [ca EXCEPT !.key = "none"]})
      /\ UNCHANGED <<guard, opaConfig, trusted, imposed, backup, unit, loaded, running, left>>
  BY DEF RemoveCA, pairing, store, wiring, service
<1>2. Past("rmca", out, 0)
  BY <1>1, HasPassed
<1>3. cli.cmd = "uninstall" /\ Paired
  BY <1>2, OnlyUninstall DEF Past
<1>4. Between /\ system' = system /\ Gone(guard.with) /\ UninstallOn(guard.with, "rmca", ToGo)
  BY <1>2, <1>3, Before DEF Past
<1>5. trusted = {} \/ imposed
  <2>1. ToGo = 3
    BY <1>4 DEF UninstallOn
  <2>2. 3 <= Base(guard.with)
    BY Counts
  <2> QED BY <1>4, <2>1, <2>2 DEF Gone
<1>6. Between'
  BY <1>1, <1>3, <1>4, <1>5 DEF Between, Paired, Forward
<1>7. ASSUME cli'.end \in {"running", "done"}
      PROVE  Gone(guard.with)'
  <2>1. out = "works"
    BY <1>2, <1>3, <1>7 DEF Past
  <2>2. ca' = [ca EXCEPT !.crt = "none", !.key = "none"]
    BY <1>1, <2>1 DEF After
  <2>3. ca \in CAFiles
    BY TypeParts DEF IInv, CAOK
  <2>4. ca'.crt = "none" /\ ca'.key = "none"
    BY <2>2, <2>3 DEF CAFiles
  <2> QED BY <1>1, <1>2, <1>3, <1>7, <2>4, LateGone
<1> QED BY <1>1, <1>2, <1>6, <1>7, PastClean

LEMMA RemoveOPAConfigClean ==
  ASSUME IInv, CleanInv, ~slipped', NEW out \in Outcomes, RemoveOPAConfig(out) PROVE CleanInv'
<1>1. /\ Runs("rmopa", out, 0) /\ opaConfig' \in After(out, opaConfig, "none", {})
      /\ UNCHANGED <<guard, ca, trusted, imposed, backup, unit, loaded, running, left>>
  BY DEF RemoveOPAConfig, cafiles, store, wiring, service
<1>2. Past("rmopa", out, 0)
  BY <1>1, HasPassed
<1>3. cli.cmd = "uninstall"
  BY <1>2, OnlyUninstall DEF Past
<1>4. Between'
  BY <1>1, <1>2, Before, SameBetween DEF Past
<1>5. ASSUME cli'.end \in {"running", "done"}
      PROVE  Gone(guard.with)'
  <2>1. out = "works"
    BY <1>2, <1>3, <1>5 DEF Past
  <2>2. opaConfig' = "none"
    BY <1>1, <2>1 DEF After
  <2> QED BY <1>1, <1>2, <1>3, <1>5, <2>2, LateGone
<1> QED BY <1>1, <1>2, <1>4, <1>5, PastClean

\* The last step: all else is gone.
LEMMA RemoveGuardClean == ASSUME IInv, CleanInv, ~slipped', NEW out \in Outcomes, RemoveGuard(out) PROVE CleanInv'
<1>1. /\ Runs("rmguard", out, 0) /\ guard' \in After(out, guard, NoGuard, {})
      /\ UNCHANGED <<opaConfig, ca, trusted, imposed, backup, unit, loaded, running, left>>
  BY DEF RemoveGuard, cafiles, store, wiring, service
<1>2. Past("rmguard", out, 0)
  BY <1>1, HasPassed
<1>3. cli.cmd = "uninstall"
  BY <1>2, OnlyUninstall DEF Past
<1>4. Between /\ system' = system /\ Gone(guard.with) /\ UninstallOn(guard.with, "rmguard", ToGo)
  BY <1>2, <1>3, Before DEF Past
<1>5. ToGo = 1
  BY <1>4 DEF UninstallOn
<1>6. /\ running = 0 /\ unit = 0 /\ loaded = 0 /\ (trusted = {} \/ imposed) /\ (Forward(guard.with) => ~backup.made)
      /\ ca.crt = "none" /\ ca.key = "none" /\ opaConfig = "none"
  <2>1. /\ 1 <= Services(guard.with) + Reloads + 1 /\ 1 <= Services(guard.with) + Reloads
        /\ 1 <= Services(guard.with) /\ 1 <= Base(guard.with) /\ 1 <= 3 /\ 1 <= 2 /\ 1 <= 1
    BY Counts
  <2> QED BY <1>4, <1>5, <2>1 DEF Gone
<1>7. guard' = guard \/ guard' = NoGuard
  BY <1>1, AfterIs
<1>8. Between'
  <2>1. ~backup.made
    BY <1>4, <1>6 DEF Between
  <2>2. trusted' = {} \/ imposed'
    BY <1>1, <1>6
  <2> QED BY <1>1, <1>4, <1>6, <2>1, <2>2 DEF Between
<1>9. ASSUME cli'.end \in {"running", "done"}
      PROVE  Gone(guard.with)'
  <2>1. out = "works" /\ ToGo' = 0
    BY <1>2, <1>3, <1>5, <1>9 DEF Past
  <2>2. guard' = NoGuard
    BY <1>1, <2>1 DEF After
  <2>3. guard'.is = "none"
    BY <2>2 DEF NoGuard
  <2>4. ~backup'.made
    BY <1>1, <1>4, <1>6 DEF Between
  <2>5. trusted' = {} \/ imposed'
    BY <1>1, <1>6
  <2> QED BY <1>1, <1>6, <2>3, <2>4, <2>5 DEF Gone
<1> QED BY <1>1, <1>2, <1>3, <1>8, <1>9, PastClean

LEMMA RestoreClean == ASSUME IInv, CleanInv, ~slipped', NEW out \in Outcomes, Restore(out) PROVE CleanInv'
<1> DEFINE n == IF backup.made THEN 0 ELSE 1
<1>1. /\ Runs("restore", out, n) /\ (left' <=> left \/ (out = "fails" /\ cli.cmd = "uninstall"))
      /\ UNCHANGED <<guard, opaConfig, ca, trusted, imposed, backup, unit, loaded, running>>
  BY DEF Restore, pairing, cafiles, store, service
<1>2. n \in {0, 1} /\ (n = 1 => ~backup.made)
  OBVIOUS
<1> HIDE DEF n
<1>3. ToGo > 1
  <2>1. AtStep("restore")
    BY <1>1 DEF Runs
  <2>2. Skipped("restore") = 1 /\ 1 < ToGo /\ ToGo \in Nat
    BY <2>1, SkippedIs, Place DEF IInv
  <2> QED BY <2>2
<1>4. Past("restore", out, n)
  BY <1>1, <1>2, <1>3, HasPassed
<1>5. Between /\ system' = system
  BY <1>2, <1>4, Before DEF Past
<1>6. ~left'
  <2>1. out = "fails" => cli.cmd \notin Removals
    <3>1. out = "fails" => slipped' = (slipped \/ cli.cmd \in Removals)
      BY <1>1 DEF Runs
    <3> QED BY <3>1
  <2>2. ~(out = "fails" /\ cli.cmd = "uninstall")
    BY <2>1 DEF Removals
  <2> QED BY <1>1, <1>5, <2>2 DEF Between
<1>7. Between'
  BY <1>1, <1>5, <1>6 DEF Between, Paired, Forward
<1>8. ASSUME cli.cmd = "uninstall", cli'.end \in {"running", "done"}
      PROVE  Gone(guard.with)'
  BY <1>1, <1>2, <1>4, <1>8, LateGone
<1> QED BY <1>1, <1>2, <1>4, <1>7, <1>8, PastClean

LEMMA RemoveBackupClean ==
  ASSUME IInv, CleanInv, ~slipped', NEW out \in Outcomes, RemoveBackup(out) PROVE CleanInv'
<1>1. /\ Runs("rmbackup", out, 0) /\ backup' \in After(out, backup, NoBackup, {})
      /\ UNCHANGED <<guard, opaConfig, ca, trusted, imposed, unit, loaded, running, left>>
  BY DEF RemoveBackup, pairing, cafiles, store, service
<1>2. Past("rmbackup", out, 0)
  BY <1>1, HasPassed
<1>3. Between /\ system' = system
  BY <1>2, Before DEF Past
<1>4. backup' = backup \/ backup' = NoBackup
  BY <1>1, AfterIs
<1>5. ~NoBackup.made
  BY DEF NoBackup
<1>6. Between'
  BY <1>1, <1>3, <1>4, <1>5 DEF Between, Paired, Forward
<1>7. ASSUME cli.cmd = "uninstall", cli'.end \in {"running", "done"}
      PROVE  Gone(guard.with)'
  <2>1. out = "works"
    BY <1>2, <1>7 DEF Past
  <2>2. backup' = NoBackup
    BY <1>1, <2>1 DEF After
  <2> QED BY <1>1, <1>2, <1>5, <1>7, <2>2, LateGone
<1> QED BY <1>1, <1>2, <1>6, <1>7, PastClean

-----------------------------------------------------------------------------
(* All other actions.                                                      *)

LEMMA CANotLoadedClean == ASSUME IInv, CleanInv, ~slipped', CANotLoaded PROVE CleanInv'
<1>1. /\ AtStep("crt") /\ ca.crt # "none" /\ ~CALoads /\ cli' = Quits("fatal")
      /\ UNCHANGED <<system, guard, ca, trusted, imposed, backup, slipped, left>>
  BY DEF CANotLoaded, rest, pairing, cafiles, store, wiring, chance
<1>2. cli.cmd = "init" /\ InitAt(cli.with, "crt", ToGo) /\ ~Idle
  BY <1>1, OnlyInit
<1>3. Between /\ Finds(cli.with)
  BY <1>1, <1>2 DEF CleanInv
<1>4. cli.raced
  <2>1. Forward(cli.with) /\ cli.with.inspect /\ ToGo = 8
    BY <1>2 DEF InitAt, ServiceAt
  <2> QED BY <1>1, <1>3, <2>1 DEF Finds
<1>5. cli'.cmd = "init" /\ cli'.end = "fatal" /\ cli'.raced
  <2>1. cli \in Cli /\ cli' = [cli EXCEPT !.todo = <<>>, !.end = "fatal"]
    BY <1>1, TypeParts DEF IInv, CliOK, Quits
  <2> QED BY <1>2, <1>4, <2>1 DEF Cli
<1>6. Between'
  BY <1>1, <1>3, SameBetween
<1> QED BY <1>5, <1>6 DEF CleanInv, Idle, InitUnhindered

\* A command that begins does so with nothing done.
LEMMA BeginsClean ==
  ASSUME IInv, CleanInv, ~slipped', NEW cmd, NEW opts, NEW steps \in Seq(Steps), Begins(cmd, opts, steps),
         UNCHANGED <<system, guard, ca, trusted, imposed, backup, slipped, left>>,
         cmd = "init" => guard.is = "none",
         cmd = "uninstall" => Paired /\ steps = UninstallSteps(guard.with)
  PROVE  CleanInv'
<1>1. /\ cli'.cmd = cmd /\ cli'.with = opts /\ cli'.todo = steps /\ cli'.end \in {"running", "done"}
      /\ steps # <<>> => cli'.end = "running"
  BY DEF Begins
<1>2. Between
  BY DEF CleanInv
<1>3. Between'
  BY <1>2, SameBetween
<1>4. cmd = "init" => Finds(cli.with)'
  <2>1. cmd = "init" => guard'.is = "none" /\ ca'.crt = "none"
    BY <1>2 DEF Between, Paired
  <2> QED BY <2>1 DEF Finds
<1>5. cmd = "uninstall" => Gone(guard.with)'
  <2> SUFFICES ASSUME cmd = "uninstall"
               PROVE  Gone(guard.with)'
    OBVIOUS
  <2> DEFINE o == guard.with
             b == Base(o)
             s == Services(o)
  <2>1. o \in Options
    BY TypeParts DEF IInv, PairingOK, Guard
  <2>2. ToGo' = s + Reloads + 2
    BY <1>1, <2>1, UninstallStepsOn DEF ToGo
  <2>3. /\ Base(guard'.with) = b /\ Services(guard'.with) = s /\ Reloads' = Reloads
        /\ b \in {3, 5} /\ s \in {b, b + 1} /\ Reloads \in {0, 1}
    BY Counts DEF Base, Services, Reloads, Forward
  <2> HIDE DEF o, b, s
  <2>4. /\ ~(ToGo' <= s + Reloads + 1) /\ ~(ToGo' <= s + Reloads) /\ ~(ToGo' <= s) /\ ~(ToGo' <= b)
        /\ ~(ToGo' <= 3) /\ ~(ToGo' <= 2) /\ ~(ToGo' <= 1) /\ ToGo' # 0
    BY <2>2, <2>3
  <2> QED BY <2>3, <2>4 DEF Gone
<1>6. InitUnhindered'
  BY <1>1 DEF InitUnhindered
<1> QED BY <1>1, <1>3, <1>4, <1>5, <1>6 DEF CleanInv

LEMMA RefusesClean ==
  ASSUME IInv, CleanInv, ~slipped', NEW cmd, Refuses(cmd),
         UNCHANGED <<system, guard, ca, trusted, imposed, backup, slipped, left>>
  PROVE  CleanInv'
<1>1. cli'.end = "refused"
  BY DEF Refuses
<1>2. Between'
  BY SameBetween DEF CleanInv
<1> QED BY <1>1, <1>2 DEF CleanInv, Idle, InitUnhindered

LEMMA InitCommandClean == ASSUME IInv, CleanInv, ~slipped', NEW o \in Options, InitCommand(o) PROVE CleanInv'
<1>1. UNCHANGED <<system, guard, ca, trusted, imposed, backup, slipped, left>>
  BY DEF InitCommand, rest, pairing, cafiles, store, chance
<1>2. CASE Refuses("init")
  BY <1>1, <1>2, RefusesClean
<1>3. CASE guard.is = "none" /\ Begins("init", o, InitSteps(o))
  BY <1>1, <1>3, InitStepsIs, BeginsClean
<1> QED BY <1>2, <1>3 DEF InitCommand

LEMMA CommandClean == ASSUME IInv, CleanInv, ~slipped', Command PROVE CleanInv'
<1>1. UNCHANGED <<system, guard, ca, trusted, imposed, backup, slipped, left>>
  BY DEF Command, rest, pairing, cafiles, store, wiring, chance
<1>2. guard.with \in Options
  BY TypeParts DEF IInv, PairingOK, Guard
<1>3. ASSUME NEW cmd \in {"uninstall", "repair", "update"}, Refuses(cmd)
      PROVE  CleanInv'
  BY <1>1, <1>3, RefusesClean
<1>4. CASE Paired /\ Begins("uninstall", NoOptions, UninstallSteps(guard.with))
  BY <1>1, <1>2, <1>4, UninstallStepsIs, BeginsClean
<1>5. CASE Begins("repair", NoOptions, If(guard.with.mode = "forward", RestoreEnv))
  <2>1. If(guard.with.mode = "forward", RestoreEnv) \in Seq(Steps)
    BY RestoreEnvIs DEF If
  <2> QED BY <1>1, <1>5, <2>1, BeginsClean
<1>6. CASE Begins("update", NoOptions, InstallService) \/ Begins("service install", NoOptions, InstallService)
  BY <1>1, <1>6, InstallServiceIs, BeginsClean
<1>7. CASE Begins("service uninstall", NoOptions, UninstallService)
  BY <1>1, <1>7, UninstallServiceIs, BeginsClean
<1> QED BY <1>3, <1>4, <1>5, <1>6, <1>7 DEF Command

\* The service makes a CA while it runs, which is not after uninstall has stopped it.
LEMMA GoneStays ==
  ASSUME IInv, CleanInv, ~slipped, running # 0, UNCHANGED <<system, guard>>,
         UNCHANGED <<cli.cmd, cli.todo, cli.end>>,
         cli.cmd = "uninstall", cli.end \in {"running", "done"}
  PROVE  Gone(guard.with)'
<1> DEFINE o == guard.with
           b == Base(o)
           s == Services(o)
<1>1. Gone(o) /\ ToGo' = ToGo /\ ToGo \in Nat
  BY TypeParts DEF CleanInv, IInv, CliOK, Cli, ToGo
<1>2. /\ Base(guard'.with) = b /\ Services(guard'.with) = s /\ Reloads' = Reloads
      /\ b \in {3, 5} /\ s \in {b, b + 1} /\ Reloads \in {0, 1}
  BY Counts DEF Base, Services, Reloads, Forward
<1>3. ~(ToGo <= s + Reloads + 1)
  BY <1>1 DEF Gone
<1> HIDE DEF o, b, s
<1>4. /\ ~(ToGo' <= s + Reloads + 1) /\ ~(ToGo' <= s + Reloads) /\ ~(ToGo' <= s) /\ ~(ToGo' <= b)
      /\ ~(ToGo' <= 3) /\ ~(ToGo' <= 2) /\ ~(ToGo' <= 1) /\ ToGo' # 0
  BY <1>1, <1>2, <1>3
<1> QED BY <1>2, <1>4 DEF Gone

LEMMA MakeCertClean == ASSUME IInv, CleanInv, ~slipped', MakeCert PROVE CleanInv'
<1>1. /\ running # 0 /\ Paired /\ ca.crt = "none" /\ cli \in Cli
      /\ cli' = [cli EXCEPT !.raced = @ \/ ~Idle]
      /\ UNCHANGED <<system, guard, trusted, imposed, backup, slipped, left>>
  BY TypeParts DEF IInv, CliOK, MakeCert, rest, pairing, store, wiring
<1>2. /\ cli'.cmd = cli.cmd /\ cli'.with = cli.with /\ cli'.todo = cli.todo /\ cli'.end = cli.end
      /\ cli'.failed = cli.failed /\ (cli.raced \/ ~Idle => cli'.raced)
  BY <1>1 DEF Cli
<1>3. Between
  BY <1>1 DEF CleanInv
<1>4. Between'
  <2>1. system # "linux" /\ ~imposed => trusted = {}
    BY <1>1, <1>3 DEF Between
  <2> QED BY <1>1, <1>3, <2>1 DEF Between, Paired, Forward
<1>5. cli'.cmd = "init" /\ ~Idle' => Finds(cli.with)'
  <2>1. cli.cmd = "init" /\ ~Idle => Finds(cli.with)
    BY <1>1 DEF CleanInv
  <2>2. ToGo' = ToGo /\ (Idle' <=> Idle)
    BY <1>2 DEF ToGo, Idle
  <2> QED BY <1>1, <1>2, <2>1, <2>2 DEF Finds, Forward
<1>6. cli'.cmd = "uninstall" /\ cli'.end \in {"running", "done"} => Gone(guard.with)'
  BY <1>1, <1>2, GoneStays
<1>7. InitUnhindered'
  BY <1>1, <1>2 DEF CleanInv, InitUnhindered
<1> QED BY <1>4, <1>5, <1>6, <1>7 DEF CleanInv

LEMMA MakeKeyClean == ASSUME IInv, CleanInv, ~slipped', MakeKey PROVE CleanInv'
<1>1. /\ running # 0 /\ ca \in CAFiles
      /\ UNCHANGED <<system, cli, guard, trusted, imposed, backup, slipped, left>>
  BY TypeParts DEF IInv, CAOK, UnitOK, MakeKey, rest, pairing, store, wiring
<1>2. ca'.crt = ca.crt /\ ca'.made = ca.made
  <2>1. ca' = ca \/ ca' = [ca EXCEPT !.key = "whole"] \/ ca' = [ca EXCEPT !.key = "part"]
    BY DEF MakeKey
  <2> QED BY <1>1, <2>1 DEF CAFiles
<1>3. Between'
  BY <1>1, <1>2 DEF CleanInv, Between, Paired, Forward
<1>4. cli'.cmd = "init" /\ ~Idle' => Finds(cli.with)'
  BY <1>1, <1>2 DEF CleanInv, Idle, Finds, Forward, ToGo
<1>5. cli'.cmd = "uninstall" /\ cli'.end \in {"running", "done"} => Gone(guard.with)'
  BY <1>1, GoneStays
<1> QED BY <1>1, <1>3, <1>4, <1>5 DEF CleanInv, InitUnhindered

LEMMA RunTransparentClean == ASSUME IInv, CleanInv, ~slipped', RunTransparent PROVE CleanInv'
<1>1. /\ Idle /\ Paired /\ guard.with.mode = "transparent" /\ cli' = cli
      /\ UNCHANGED <<system, guard, backup, slipped, left>>
  BY DEF RunTransparent, rest, pairing, wiring, chance
<1>2. Between
  BY <1>1 DEF CleanInv
<1>3. CALoads' /\ (ca' = ca \/ ca.crt = "none")
  BY DEF RunTransparent, CALoads
<1>4. \/ trusted' = trusted /\ imposed' = imposed
      \/ trusted' = {ca'.made} /\ (imposed' <=> imposed \/ ~guard.with.inspect)
  BY DEF RunTransparent, store
<1>5. Between'
  <2>1. Paired' /\ ~left'
    BY <1>1, <1>2 DEF Between, Paired
  <2>2. ~guard'.with.inspect => trusted' = {} \/ imposed'
    BY <1>1, <1>2, <1>4 DEF Between
  <2>3. system' # "linux" /\ ~imposed' => trusted' \subseteq {ca'.made} /\ (trusted' # {} => ca'.crt = "whole")
    <3>1. system # "linux" /\ ~imposed /\ ca.crt = "none" => trusted = {}
      BY <1>2 DEF Between
    <3>2. ca'.crt = "whole"
      BY <1>3 DEF CALoads
    <3> QED BY <1>1, <1>2, <1>3, <1>4, <3>1, <3>2 DEF Between
  <2>4. backup'.made => Forward(guard'.with)
    BY <1>1, <1>2 DEF Between
  <2> QED BY <2>1, <2>2, <2>3, <2>4 DEF Between
<1>6. ~(cli'.cmd = "uninstall" /\ cli'.end \in {"running", "done"})
  <2> SUFFICES ASSUME cli.cmd = "uninstall", cli.end \in {"running", "done"}
               PROVE  FALSE
    BY <1>1
  <2>1. cli.todo = <<>>
    BY <1>1, TypeParts DEF IInv, CliOK, Idle
  <2>2. ToGo = 0 /\ Gone(guard.with)
    BY <1>1, <2>1 DEF ToGo, CleanInv
  <2> QED BY <1>1, <2>2 DEF Gone, Paired
<1> QED BY <1>1, <1>5, <1>6 DEF CleanInv, Idle, InitUnhindered

\* What else happens: the user edits the service-env, the service is started
\* again, a newer binary comes, or nothing happens.
LEMMA ElseClean ==
  ASSUME IInv, CleanInv, ~slipped',
         UNCHANGED <<system, cli, guard, opaConfig, ca, trusted, imposed, backup, unit, loaded, slipped, left>>,
         running' = running \/ running # 0
  PROVE  CleanInv'
<1>1. Between'
  BY SameBetween DEF CleanInv
<1>2. cli'.cmd = "init" /\ ~Idle' => Finds(cli.with)'
  BY DEF CleanInv, Idle, Finds, Forward, ToGo, CALoads
<1>3. cli'.cmd = "uninstall" /\ cli'.end \in {"running", "done"} => Gone(guard.with)'
  BY DEF CleanInv, Gone, Base, Services, Reloads, Forward, ToGo
<1> QED BY <1>1, <1>2, <1>3 DEF CleanInv, InitUnhindered

-----------------------------------------------------------------------------
(* Theorems.                                                               *)

LEMMA CleanInit == Init => CleanInv
BY DEF Init, CleanInv, Between, Paired, NoGuard, NoBackup, NoOptions, InitUnhindered, Idle

LEMMA CleanStep == IInv /\ CleanInv /\ [Next]_vars => CleanInv'
<1> SUFFICES ASSUME IInv, CleanInv, [Next]_vars, ~slipped'
             PROVE  CleanInv'
  BY DEF CleanInv
<1>1. ASSUME NEW o \in Options, InitCommand(o)
      PROVE  CleanInv'
  BY <1>1, InitCommandClean
<1>2. ASSUME NEW out \in Outcomes, Step(out)
      PROVE  CleanInv'
  BY <1>2, ClaimClean, SaveGuardClean, RenderConfigClean, WriteCertClean, WriteKeyClean, TrustClean, BackUpClean,
     InjectClean, ServiceStepsClean, DistrustClean, RestoreClean, RemoveBackupClean, RemoveCAClean,
     RemoveOPAConfigClean, RemoveGuardClean DEF Step
<1>3. ASSUME NEW l \in Lines, AddLine(l)
      PROVE  CleanInv'
  BY <1>3, ElseClean DEF AddLine, rest, pairing, cafiles, store, service, chance
<1>4. CASE Respawn
  BY <1>4, ElseClean DEF Respawn, rest, pairing, store, wiring, chance
<1>5. CASE Upgrade
  BY <1>5, ElseClean DEF Upgrade, pairing, cafiles, store, wiring, service, chance
<1>6. CASE StopInVain
  BY <1>6 DEF StopInVain
<1>7. CASE UNCHANGED vars
  BY <1>7, ElseClean DEF vars, rest, pairing, cafiles, store, wiring, service, chance
<1> QED BY <1>1, <1>2, <1>3, <1>4, <1>5, <1>6, <1>7, CommandClean, CANotLoadedClean, MakeCertClean, MakeKeyClean,
           RunTransparentClean
        DEF Next

LEMMA CleanInvariant == Spec => []CleanInv
BY InitHolds, NextKeeps, CleanInit, CleanStep, PTL DEF Spec

\* After an uninstall the configuration, the CA, the wiring and the service are
\* gone, but a CA that nobody asked for stays trusted (main.go:396-419), unless a
\* step of an uninstall failed.
THEOREM UninstallCleans == Spec => []CleanUninstall
<1>1. IInv /\ CleanInv => CleanUninstall
  <2> SUFFICES ASSUME IInv, CleanInv, cli.cmd = "uninstall", cli.end = "done", ~slipped
               PROVE  /\ guard.is = "none" /\ opaConfig = "none" /\ ca.crt = "none" /\ ca.key = "none"
                      /\ trusted = {} \/ imposed
                      /\ env.block = "none" /\ ~backup.made
                      /\ unit = 0 /\ loaded = 0 /\ running = 0
    BY DEF CleanUninstall
  <2>1. Between /\ Gone(guard.with)
    BY DEF CleanInv
  <2>2. ToGo = 0
    BY TypeParts DEF IInv, CliOK, ToGo
  <2>3. /\ 0 <= Services(guard.with) + Reloads + 1 /\ 0 <= Services(guard.with) + Reloads
        /\ 0 <= Services(guard.with) /\ 0 <= Base(guard.with) /\ 0 <= 3 /\ 0 <= 2 /\ 0 <= 1
    BY Counts
  <2>4. /\ guard.is = "none" /\ opaConfig = "none" /\ ca.crt = "none" /\ ca.key = "none"
        /\ trusted = {} \/ imposed
        /\ unit = 0 /\ loaded = 0 /\ running = 0
    BY <2>1, <2>2, <2>3 DEF Gone
  <2>5. ~Paired
    BY <2>4 DEF Paired
  <2>6. env.block = "none" /\ ~backup.made
    BY <2>1, <2>5 DEF IInv, WiredIsServable, Between
  <2> QED BY <2>4, <2>6
<1> QED BY <1>1, Invariant, CleanInvariant, PTL

\* An init that is not refused fails only if a step of its own does (main.go:119-198),
\* or if a service that runs already begins to make a CA meanwhile (main.go:249),
\* unless a step of an uninstall failed.
THEOREM InitGoesThrough == Spec => []InitUnhindered
<1>1. CleanInv => InitUnhindered
  BY DEF CleanInv, InitUnhindered
<1> QED BY <1>1, CleanInvariant, PTL
====
