-------------------------- MODULE LifecycleProofs --------------------------
(***************************************************************************)
(* Proofs about Lifecycle, for any lines, any number of pairings, versions, *)
(* failures and kills.                                                     *)
(*                                                                         *)
(* The command at work has a suffix of its program to go; how long it is   *)
(* says what the command has done, for as long as the lines of the user    *)
(* are not spoiled and nothing was left.                                   *)
(***************************************************************************)
EXTENDS Lifecycle, SequenceTheorems, TLAPS

Forward(o) == o.mode = "forward"

Suffix(s, t) == Len(s) <= Len(t) /\ \A i \in 1 .. Len(s) : s[i] = t[Len(t) - Len(s) + i]

Program ==
  CASE cli.cmd = "init" -> InitSteps(cli.with)
    [] cli.cmd = "uninstall" -> UninstallSteps(guard.with)
    [] cli.cmd = "repair" -> RestoreEnv
    [] cli.cmd \in {"update", "service install"} -> InstallService
    [] cli.cmd = "service uninstall" -> UninstallService
    [] OTHER -> <<>>

ToGo == Len(cli.todo)

InPlace ==
  ~Idle => /\ Suffix(cli.todo, Program)
           /\ cli.cmd \in {"uninstall", "repair"} => Paired

\* The lines of the user would survive the removal of the block.
Kept == owed \subseteq Strip(env).before

\* What init has done.
InitHas(o) ==
  /\ ToGo > (IF ~Forward(o) THEN 2 ELSE IF o.inspect THEN 10 ELSE 7) => pairings < MaxPairings
  /\ ToGo <= (IF ~Forward(o) THEN 1 ELSE IF o.inspect THEN 9 ELSE 6) => guard = [is |-> "whole", with |-> o]
  /\ Forward(o) /\ o.inspect /\ ToGo <= 7 => ca.crt = "whole"
  /\ Forward(o) /\ o.inspect /\ ToGo <= 6 => halved \/ ca.key = "whole"
  /\ ~Forward(o) \/ ToGo >= 5 => spoiled \/ left \/ ~backup.made
  /\ ~Forward(o) \/ ToGo >= 4 => left \/ env.block = "none"
  /\ Forward(o) /\ ToGo = 4 => spoiled \/ left \/ backup.made \/ env = NoEnv
  /\ Forward(o) /\ ToGo <= 2 => unit = version

UninstallHas ==
  Forward(guard.with) =>
    /\ ToGo <= 4 => left \/ env.block = "none"
    /\ ToGo = 4 => spoiled \/ left \/ Kept
    /\ ToGo <= 3 => spoiled \/ left \/ ~backup.made

Has ==
  ~Idle =>
    /\ cli.cmd = "init" => InitHas(cli.with)
    /\ cli.cmd = "uninstall" => UninstallHas
    /\ cli.cmd = "repair" /\ ToGo = 1 => spoiled \/ left \/ Kept
    /\ cli.cmd \in {"update", "service install"} /\ ToGo <= 2 => unit = version

\* The copy has the lines, or else the file has them.
Copied ==
  /\ ~spoiled /\ ~left =>
       IF backup.made THEN Paired /\ Forward(guard.with) /\ owed \subseteq UserLines(backup.of) ELSE Kept
  /\ ~left /\ backup.made => backup.of.block = "none"

Made == ca.crt = "whole" => ca.made > 0

Cli == [cmd : Commands, with : Options, todo : Seq(Steps), end : Endings, failed : BOOLEAN, raced : BOOLEAN]

CliOK ==
  /\ system \in Systems /\ version \in 1 .. MaxVersions /\ faults \in 0 .. MaxFaults /\ slipped \in BOOLEAN
  /\ cli \in Cli /\ (cli.end = "running" <=> cli.todo # <<>>)

PairingOK == guard \in Guard /\ opaConfig \in File /\ pairings \in 0 .. MaxPairings

CAOK ==
  /\ ca \in CAFiles /\ trusted \subseteq 1 .. ca.made
  /\ imposed \in BOOLEAN /\ minting \in BOOLEAN /\ halved \in BOOLEAN

WiringOK == env \in Env /\ backup \in Backup /\ owed \subseteq Lines /\ spoiled \in BOOLEAN /\ left \in BOOLEAN

UnitOK ==
  /\ {unit, loaded, running} \subseteq (0 .. version) \cup {Torn}
  /\ loaded # Torn /\ running # Torn
  /\ minting => running # 0

IInv == TypeOK /\ InPlace /\ Has /\ Copied /\ Made /\ WiredIsServable

-----------------------------------------------------------------------------
(* The programs.                                                           *)

\* The step of a program when n steps are to go, that one included.
At(t, n) == t[Len(t) - n + 1]

ServiceAt(step, n) ==
  \/ step = "unit" /\ n = 3
  \/ step \in {"reload", "unload"} /\ n = 2
  \/ step \in {"enable", "load"} /\ n = 1

InitAt(o, step, n) ==
  IF ~Forward(o)
  THEN \/ step = "claim" /\ n = 3
       \/ step = "guard" /\ n = 2
       \/ step = "opa" /\ n = 1
  ELSE \/ ServiceAt(step, n)
       \/ step = "inject" /\ n = 4
       \/ step = "backup" /\ n = 5
       \/ /\ o.inspect
          /\ \/ step = "trust" /\ n = 6
             \/ step = "key" /\ n = 7
             \/ step = "crt" /\ n = 8
             \/ step = "opa" /\ n = 9
             \/ step = "guard" /\ n = 10
             \/ step = "claim" /\ n = 11
       \/ /\ ~o.inspect
          /\ \/ step = "opa" /\ n = 6
             \/ step = "guard" /\ n = 7
             \/ step = "claim" /\ n = 8

UninstallAt(o, step, n) ==
  \/ step = "rmguard" /\ n = 1
  \/ step = "rmopa" /\ n = 2
  \/ step = "rmca" /\ n = 3
  \/ Forward(o) /\ step = "rmbackup" /\ n = 4
  \/ Forward(o) /\ step = "restore" /\ n = 5
  \/ step \in {"stop", "rmunit", "reload", "distrust"} /\ n > (IF Forward(o) THEN 5 ELSE 3)

LEMMA InstallServiceIs ==
  /\ InstallService \in Seq(Steps) /\ Len(InstallService) = 3
  /\ \A n \in 1 .. 3 : ServiceAt(At(InstallService, n), n)
<1>1. CASE system = "linux"
  <2>1. InstallService = <<"unit", "reload", "enable">>
    BY <1>1 DEF InstallService
  <2> QED BY <2>1 DEF ServiceAt, At, Steps
<1>2. CASE system # "linux"
  <2>1. InstallService = <<"unit", "unload", "load">>
    BY <1>2 DEF InstallService
  <2> QED BY <2>1 DEF ServiceAt, At, Steps
<1> QED BY <1>1, <1>2

LEMMA UninstallServiceIs ==
  /\ UninstallService \in Seq(Steps) /\ Len(UninstallService) \in {2, 3}
  /\ \A n \in 1 .. Len(UninstallService) : At(UninstallService, n) \in {"stop", "rmunit", "reload"}
<1>1. CASE system = "linux"
  <2>1. UninstallService = <<"stop", "rmunit">> \o <<"reload">>
    BY <1>1 DEF UninstallService, If
  <2> QED BY <2>1 DEF At, Steps
<1>2. CASE system # "linux"
  <2>1. UninstallService = <<"stop", "rmunit">>
    BY <1>2 DEF UninstallService, If
  <2> QED BY <2>1 DEF At, Steps
<1> QED BY <1>1, <1>2

LEMMA RestoreEnvIs ==
  /\ RestoreEnv \in Seq(Steps) /\ Len(RestoreEnv) = 2
  /\ At(RestoreEnv, 1) = "rmbackup" /\ At(RestoreEnv, 2) = "restore"
BY DEF RestoreEnv, At, Steps

\* The steps of the second of two sequences come last.
LEMMA ConcatAt ==
  ASSUME NEW s \in Seq(Steps), NEW t \in Seq(Steps)
  PROVE  /\ s \o t \in Seq(Steps) /\ Len(s \o t) = Len(s) + Len(t)
         /\ \A n \in 1 .. Len(t) : At(s \o t, n) = At(t, n)
         /\ \A n \in Len(t) + 1 .. Len(s) + Len(t) : At(s \o t, n) = At(s, n - Len(t))
<1>1. Len(s) \in Nat /\ Len(t) \in Nat
  OBVIOUS
<1>2. /\ s \o t \in Seq(Steps) /\ Len(s \o t) = Len(s) + Len(t)
      /\ \A i \in 1 .. Len(s) + Len(t) : (s \o t)[i] = IF i <= Len(s) THEN s[i] ELSE t[i - Len(s)]
  BY ConcatProperties
<1>3. ASSUME NEW n \in 1 .. Len(t)
      PROVE  At(s \o t, n) = At(t, n)
  <2> DEFINE i == Len(s) + Len(t) - n + 1
  <2>1. i \in 1 .. Len(s) + Len(t) /\ ~(i <= Len(s)) /\ i - Len(s) = Len(t) - n + 1
    BY <1>1
  <2>2. (s \o t)[i] = t[i - Len(s)]
    BY <1>2, <2>1
  <2> QED BY <1>2, <2>1, <2>2 DEF At
<1>4. ASSUME NEW n \in Len(t) + 1 .. Len(s) + Len(t)
      PROVE  At(s \o t, n) = At(s, n - Len(t))
  <2> DEFINE i == Len(s) + Len(t) - n + 1
  <2>1. i \in 1 .. Len(s) + Len(t) /\ i <= Len(s) /\ i = Len(s) - (n - Len(t)) + 1
    BY <1>1
  <2>2. (s \o t)[i] = s[i]
    BY <1>2, <2>1
  <2> QED BY <1>2, <2>1, <2>2 DEF At
<1> QED BY <1>2, <1>3, <1>4

LEMMA InitStepsIs ==
  ASSUME NEW o \in Options
  PROVE  /\ InitSteps(o) \in Seq(Steps)
         /\ Len(InitSteps(o)) = IF ~Forward(o) THEN 3 ELSE IF o.inspect THEN 11 ELSE 8
         /\ \A n \in 1 .. Len(InitSteps(o)) : InitAt(o, At(InitSteps(o), n), n)
<1> DEFINE first == <<"claim", "guard", "opa">>
           ends == InjectProxy \o InstallService
           cert == <<"crt", "key", "trust">>
<1>1. /\ first \in Seq(Steps) /\ Len(first) = 3
      /\ At(first, 1) = "opa" /\ At(first, 2) = "guard" /\ At(first, 3) = "claim"
  BY DEF At, Steps
<1>2. /\ InjectProxy \in Seq(Steps) /\ Len(InjectProxy) = 2
      /\ At(InjectProxy, 1) = "inject" /\ At(InjectProxy, 2) = "backup"
  BY DEF At, Steps, InjectProxy
<1>3. /\ cert \in Seq(Steps) /\ Len(cert) = 3
      /\ At(cert, 1) = "trust" /\ At(cert, 2) = "key" /\ At(cert, 3) = "crt"
  BY DEF At, Steps
<1>4. /\ ends \in Seq(Steps) /\ Len(ends) = 5
      /\ \A n \in 1 .. 3 : ServiceAt(At(ends, n), n)
      /\ At(ends, 4) = "inject" /\ At(ends, 5) = "backup"
  <2>1. /\ InjectProxy \o InstallService \in Seq(Steps) /\ Len(InjectProxy \o InstallService) = Len(InjectProxy) + Len(InstallService)
        /\ \A n \in 1 .. Len(InstallService) : At(InjectProxy \o InstallService, n) = At(InstallService, n)
        /\ \A n \in Len(InstallService) + 1 .. Len(InjectProxy) + Len(InstallService) : At(InjectProxy \o InstallService, n) = At(InjectProxy, n - Len(InstallService))
    BY <1>2, InstallServiceIs, ConcatAt
  <2>2. Len(InjectProxy) = 2 /\ Len(InstallService) = 3 /\ 3 + 1 = 4 /\ 2 + 3 = 5
    BY <1>2, InstallServiceIs
  <2>3. /\ At(ends, 4) = At(InjectProxy, 1) /\ At(ends, 5) = At(InjectProxy, 2)
    BY <2>1, <2>2
  <2> QED BY <1>2, <2>1, <2>2, <2>3, InstallServiceIs
<1>5. <<>> \in Seq(Steps) /\ Len(<<>>) = 0
  OBVIOUS
<1> HIDE DEF first, ends, cert
<1>6. CASE ~Forward(o)
  <2>1. InitSteps(o) = first \o <<>>
    BY <1>6 DEF InitSteps, If, Forward, first
  <2>2. first \o <<>> = first
    BY <1>1, EmptySeq, ConcatEmptySeq
  <2>3. ASSUME NEW n \in 1 .. 3
        PROVE  InitAt(o, At(first, n), n)
    <3>1. n \in {1, 2, 3}
      OBVIOUS
    <3> QED BY <1>1, <1>6, <3>1 DEF InitAt
  <2>4. InitSteps(o) = first
    BY <2>1, <2>2
  <2> QED BY <1>1, <1>6, <2>3, <2>4
<1>7. CASE Forward(o) /\ o.inspect
  <2>1. InitSteps(o) = first \o ((cert \o InjectProxy) \o InstallService)
    BY <1>7 DEF InitSteps, If, Forward, first, cert
  <2>2. (cert \o InjectProxy) \o InstallService = cert \o ends
    BY <1>2, <1>3, InstallServiceIs, ConcatAssociative DEF ends
  <2>3. /\ cert \o ends \in Seq(Steps) /\ Len(cert \o ends) = 8
        /\ \A n \in 1 .. 5 : At(cert \o ends, n) = At(ends, n)
        /\ \A n \in 6 .. 8 : At(cert \o ends, n) = At(cert, n - 5)
    <3>1. /\ cert \o ends \in Seq(Steps) /\ Len(cert \o ends) = Len(cert) + Len(ends)
          /\ \A n \in 1 .. Len(ends) : At(cert \o ends, n) = At(ends, n)
          /\ \A n \in Len(ends) + 1 .. Len(cert) + Len(ends) : At(cert \o ends, n) = At(cert, n - Len(ends))
      BY <1>3, <1>4, ConcatAt
    <3>2. Len(cert) = 3 /\ Len(ends) = 5 /\ 3 + 5 = 8 /\ 5 + 1 = 6
      BY <1>3, <1>4
    <3> QED BY <3>1, <3>2
  <2>4. /\ InitSteps(o) \in Seq(Steps) /\ Len(InitSteps(o)) = 11
        /\ \A n \in 1 .. 8 : At(InitSteps(o), n) = At(cert \o ends, n)
        /\ \A n \in 9 .. 11 : At(InitSteps(o), n) = At(first, n - 8)
    <3> DEFINE u == cert \o ends
    <3>1. InitSteps(o) = first \o u /\ u \in Seq(Steps) /\ Len(u) = 8
      BY <2>1, <2>2, <2>3
    <3> HIDE DEF u
    <3>2. /\ first \o u \in Seq(Steps) /\ Len(first \o u) = Len(first) + Len(u)
          /\ \A n \in 1 .. Len(u) : At(first \o u, n) = At(u, n)
          /\ \A n \in Len(u) + 1 .. Len(first) + Len(u) : At(first \o u, n) = At(first, n - Len(u))
      BY <1>1, <3>1, ConcatAt
    <3>3. Len(first) = 3 /\ Len(u) = 8 /\ 3 + 8 = 11 /\ 8 + 1 = 9
      BY <1>1, <3>1
    <3>4. \A n \in 1 .. 8 : At(u, n) = At(cert \o ends, n)
      BY DEF u
    <3> QED BY <3>1, <3>2, <3>3, <3>4
  <2>5. ASSUME NEW n \in 1 .. 11
        PROVE  InitAt(o, At(InitSteps(o), n), n)
    <3>1. n \in 1 .. 3 \/ n \in {4, 5, 6, 7, 8, 9, 10, 11}
      OBVIOUS
    <3> QED BY <1>1, <1>3, <1>4, <1>7, <2>3, <2>4, <3>1 DEF InitAt
  <2> QED BY <1>7, <2>4, <2>5
<1>8. CASE Forward(o) /\ ~o.inspect
  <2>1. InitSteps(o) = first \o ((<<>> \o InjectProxy) \o InstallService)
    BY <1>8 DEF InitSteps, If, Forward, first
  <2>2. <<>> \o InjectProxy = InjectProxy
    BY <1>2, ConcatEmptySeq
  <2>3. InitSteps(o) = first \o ends
    BY <2>1, <2>2 DEF ends
  <2>4. /\ InitSteps(o) \in Seq(Steps) /\ Len(InitSteps(o)) = 8
        /\ \A n \in 1 .. 5 : At(InitSteps(o), n) = At(ends, n)
        /\ \A n \in 6 .. 8 : At(InitSteps(o), n) = At(first, n - 5)
    <3>1. /\ first \o ends \in Seq(Steps) /\ Len(first \o ends) = Len(first) + Len(ends)
          /\ \A n \in 1 .. Len(ends) : At(first \o ends, n) = At(ends, n)
          /\ \A n \in Len(ends) + 1 .. Len(first) + Len(ends) : At(first \o ends, n) = At(first, n - Len(ends))
      BY <1>1, <1>4, ConcatAt
    <3>2. Len(first) = 3 /\ Len(ends) = 5 /\ 3 + 5 = 8 /\ 5 + 1 = 6
      BY <1>1, <1>4
    <3> QED BY <2>3, <3>1, <3>2
  <2>5. ASSUME NEW n \in 1 .. 8
        PROVE  InitAt(o, At(InitSteps(o), n), n)
    <3>1. n \in 1 .. 3 \/ n \in {4, 5, 6, 7, 8}
      OBVIOUS
    <3> QED BY <1>1, <1>4, <1>8, <2>4, <3>1 DEF InitAt
  <2> QED BY <1>8, <2>4, <2>5
<1> QED BY <1>6, <1>7, <1>8

LEMMA UninstallStepsIs ==
  ASSUME NEW o \in Options
  PROVE  /\ UninstallSteps(o) \in Seq(Steps) /\ Len(UninstallSteps(o)) > (IF Forward(o) THEN 5 ELSE 3)
         /\ \A n \in 1 .. Len(UninstallSteps(o)) : UninstallAt(o, At(UninstallSteps(o), n), n)
<1> DEFINE a == UninstallService
           b == If(o.inspect, <<"distrust">>)
           c == If(Forward(o), RestoreEnv)
           d == <<"rmca", "rmopa", "rmguard">>
<1>1. a \in Seq(Steps) /\ Len(a) \in {2, 3} /\ \A n \in 1 .. Len(a) : At(a, n) \in {"stop", "rmunit", "reload"}
  BY UninstallServiceIs
<1>2. b \in Seq(Steps) /\ Len(b) \in {0, 1} /\ \A n \in 1 .. Len(b) : At(b, n) = "distrust"
  <2>1. b = <<"distrust">> \/ b = <<>>
    BY DEF If
  <2> HIDE DEF b
  <2>2. CASE b = <<"distrust">>
    <3>1. b \in Seq(Steps) /\ Len(b) = 1 /\ b[1] = "distrust"
      BY <2>2 DEF Steps
    <3> QED BY <3>1 DEF At
  <2>3. CASE b = <<>>
    <3>1. b \in Seq(Steps) /\ Len(b) = 0
      BY <2>3
    <3> QED BY <3>1
  <2> QED BY <2>1, <2>2, <2>3
<1>3. /\ c \in Seq(Steps) /\ Len(c) = IF Forward(o) THEN 2 ELSE 0
      /\ Forward(o) => At(c, 1) = "rmbackup" /\ At(c, 2) = "restore"
  <2>1. CASE Forward(o)
    <3>1. c = RestoreEnv
      BY <2>1 DEF If
    <3> QED BY <2>1, <3>1, RestoreEnvIs
  <2>2. CASE ~Forward(o)
    <3>1. c = <<>>
      BY <2>2 DEF If
    <3> QED BY <2>2, <3>1
  <2> QED BY <2>1, <2>2
<1>4. /\ d \in Seq(Steps) /\ Len(d) = 3
      /\ At(d, 1) = "rmguard" /\ At(d, 2) = "rmopa" /\ At(d, 3) = "rmca"
  BY DEF At, Steps
<1>5. UninstallSteps(o) = ((a \o b) \o c) \o d
  BY DEF UninstallSteps, Forward
<1> HIDE DEF a, b, c, d
<1>6. /\ a \o b \in Seq(Steps) /\ Len(a \o b) = Len(a) + Len(b)
      /\ \A n \in 1 .. Len(a \o b) : At(a \o b, n) \in {"stop", "rmunit", "reload", "distrust"}
  <2>1. /\ a \o b \in Seq(Steps) /\ Len(a \o b) = Len(a) + Len(b)
        /\ \A n \in 1 .. Len(b) : At(a \o b, n) = At(b, n)
        /\ \A n \in Len(b) + 1 .. Len(a) + Len(b) : At(a \o b, n) = At(a, n - Len(b))
    BY <1>1, <1>2, ConcatAt
  <2>2. ASSUME NEW n \in 1 .. Len(a \o b)
        PROVE  n \in 1 .. Len(b) \/ (n \in Len(b) + 1 .. Len(a) + Len(b) /\ n - Len(b) \in 1 .. Len(a))
    BY <1>1, <1>2, <2>1
  <2> QED BY <1>1, <1>2, <2>1, <2>2
<1>7. /\ (a \o b) \o c \in Seq(Steps) /\ Len((a \o b) \o c) = Len(a \o b) + Len(c)
      /\ \A n \in 1 .. Len(c) : At((a \o b) \o c, n) = At(c, n)
      /\ \A n \in Len(c) + 1 .. Len(a \o b) + Len(c) : At((a \o b) \o c, n) = At(a \o b, n - Len(c))
  BY <1>3, <1>6, ConcatAt
<1>8. /\ UninstallSteps(o) \in Seq(Steps) /\ Len(UninstallSteps(o)) = Len((a \o b) \o c) + 3
      /\ \A n \in 1 .. 3 : At(UninstallSteps(o), n) = At(d, n)
      /\ \A n \in 4 .. Len((a \o b) \o c) + 3 : At(UninstallSteps(o), n) = At((a \o b) \o c, n - 3)
  <2> DEFINE u == (a \o b) \o c
  <2>1. u \in Seq(Steps) /\ Len(u) \in Nat /\ UninstallSteps(o) = u \o d
    BY <1>5, <1>7
  <2>2. \A n \in 1 .. Len(u) : At(u, n) = At((a \o b) \o c, n)
    OBVIOUS
  <2>3. Len(u) = Len((a \o b) \o c)
    OBVIOUS
  <2> HIDE DEF u
  <2>4. /\ u \o d \in Seq(Steps) /\ Len(u \o d) = Len(u) + Len(d)
        /\ \A n \in 1 .. Len(d) : At(u \o d, n) = At(d, n)
        /\ \A n \in Len(d) + 1 .. Len(u) + Len(d) : At(u \o d, n) = At(u, n - Len(d))
    BY <1>4, <2>1, ConcatAt
  <2>5. \A n \in 4 .. Len(u) + 3 : n - 3 \in 1 .. Len(u)
    BY <2>1
  <2>6. Len(d) = 3 /\ 3 + 1 = 4
    BY <1>4
  <2> QED BY <2>1, <2>2, <2>3, <2>4, <2>5, <2>6
<1>9. ASSUME NEW n \in 1 .. Len(UninstallSteps(o))
      PROVE  UninstallAt(o, At(UninstallSteps(o), n), n)
  <2>1. CASE n \in 1 .. 3
    BY <1>4, <1>8, <2>1 DEF UninstallAt
  <2>2. CASE n > 3
    <3>1. n \in 4 .. Len((a \o b) \o c) + 3 /\ n - 3 \in 1 .. Len((a \o b) \o c)
      BY <1>1, <1>2, <1>3, <1>6, <1>7, <1>8, <2>2
    <3>2. At(UninstallSteps(o), n) = At((a \o b) \o c, n - 3)
      BY <1>8, <3>1
    <3>3. CASE n - 3 \in 1 .. Len(c)
      <4>1. Forward(o) /\ n - 3 \in {1, 2} /\ n \in {4, 5}
        BY <1>3, <3>3
      <4>2. At(UninstallSteps(o), n) = At(c, n - 3)
        BY <1>7, <3>2, <3>3
      <4> QED BY <1>3, <4>1, <4>2 DEF UninstallAt
    <3>4. CASE n - 3 \in Len(c) + 1 .. Len(a \o b) + Len(c)
      <4>1. n - 3 - Len(c) \in 1 .. Len(a \o b) /\ n > IF Forward(o) THEN 5 ELSE 3
        BY <1>1, <1>2, <1>3, <1>6, <3>4
      <4>2. At(UninstallSteps(o), n) = At(a \o b, n - 3 - Len(c))
        BY <1>7, <3>2, <3>4
      <4> QED BY <1>6, <4>1, <4>2 DEF UninstallAt
    <3> QED BY <1>1, <1>2, <1>3, <1>6, <1>7, <3>1, <3>3, <3>4
  <2> QED BY <2>1, <2>2
<1> QED BY <1>1, <1>2, <1>3, <1>6, <1>7, <1>8, <1>9

-----------------------------------------------------------------------------
(* The command at work.                                                    *)

LEMMA SuffixDrop ==
  ASSUME NEW s \in Seq(Steps), NEW t \in Seq(Steps), Suffix(s, t), NEW n \in Nat, n < Len(s)
  PROVE  /\ SubSeq(s, n + 2, Len(s)) \in Seq(Steps)
         /\ Len(SubSeq(s, n + 2, Len(s))) = Len(s) - 1 - n
         /\ Suffix(SubSeq(s, n + 2, Len(s)), t)
<1> DEFINE u == SubSeq(s, n + 2, Len(s))
<1>1. Len(s) \in Nat /\ Len(t) \in Nat /\ DOMAIN s = 1 .. Len(s)
  OBVIOUS
<1>2. \A i \in n + 2 .. Len(s) : i \in 1 .. Len(s)
  BY <1>1
<1>3. /\ u \in Seq(Steps)
      /\ Len(u) = IF n + 2 <= Len(s) THEN Len(s) - (n + 2) + 1 ELSE 0
      /\ \A i \in 1 .. Len(s) - (n + 2) + 1 : u[i] = s[n + 2 + i - 1]
  BY <1>1, <1>2, SubSeqProperties
<1> HIDE DEF u
<1>4. Len(u) = Len(s) - 1 - n
  <2>1. CASE n + 2 <= Len(s)
    <3>1. Len(s) - (n + 2) + 1 = Len(s) - 1 - n
      BY <1>1
    <3> QED BY <1>3, <2>1, <3>1
  <2>2. CASE ~(n + 2 <= Len(s))
    <3>1. \A l \in Nat : n < l /\ ~(n + 2 <= l) => l - 1 - n = 0
      OBVIOUS
    <3>2. Len(s) - 1 - n = 0
      BY <1>1, <2>2, <3>1
    <3> QED BY <1>3, <2>2, <3>2
  <2> QED BY <2>1, <2>2
<1>5. ASSUME NEW i \in 1 .. Len(u)
      PROVE  u[i] = t[Len(t) - Len(u) + i]
  <2>1. i \in 1 .. Len(s) - (n + 2) + 1 /\ n + 2 + i - 1 \in 1 .. Len(s)
    BY <1>1, <1>4
  <2>2. u[i] = s[n + 2 + i - 1]
    BY <1>3, <2>1
  <2>3. s[n + 2 + i - 1] = t[Len(t) - Len(s) + (n + 2 + i - 1)]
    BY <2>1 DEF Suffix
  <2>4. Len(t) - Len(s) + (n + 2 + i - 1) = Len(t) - Len(u) + i
    BY <1>1, <1>4
  <2> QED BY <2>2, <2>3, <2>4
<1>6. Suffix(u, t)
  BY <1>1, <1>4, <1>5 DEF Suffix
<1> QED BY <1>3, <1>4, <1>6 DEF u

LEMMA ProgramType == ASSUME TypeOK PROVE Program \in Seq(Steps)
<1>1. cli.with \in Options /\ guard.with \in Options /\ <<>> \in Seq(Steps)
  BY DEF TypeOK, Guard
<1> QED BY <1>1, InitStepsIs, UninstallStepsIs, RestoreEnvIs, InstallServiceIs, UninstallServiceIs DEF Program

\* A whole program is a suffix of itself.
LEMMA SuffixWhole == \A t \in Seq(Steps) : Suffix(t, t)
BY DEF Suffix

\* Which command is at which step, and how many are to go.
LEMMA Place ==
  ASSUME TypeOK, InPlace, NEW step, AtStep(step)
  PROVE  /\ ~Idle /\ cli.todo \in Seq(Steps) /\ ToGo \in Nat \ {0}
         /\ cli.with \in Options /\ guard.with \in Options
         /\ \/ cli.cmd = "init" /\ InitAt(cli.with, step, ToGo)
            \/ cli.cmd = "uninstall" /\ UninstallAt(guard.with, step, ToGo) /\ Paired
            \/ /\ cli.cmd = "repair" /\ Paired
               /\ (step = "restore" /\ ToGo = 2) \/ (step = "rmbackup" /\ ToGo = 1)
            \/ cli.cmd \in {"update", "service install"} /\ ServiceAt(step, ToGo)
            \/ cli.cmd = "service uninstall" /\ step \in {"stop", "rmunit", "reload"}
<1>1. ~Idle /\ step = Head(cli.todo)
  BY DEF AtStep
<1>2. cli.todo \in Seq(Steps) /\ cli.todo # <<>> /\ cli.with \in Options /\ guard.with \in Options
  BY <1>1 DEF TypeOK, Guard, Idle
<1>3. ToGo \in Nat \ {0} /\ step = cli.todo[1]
  <2>1. Len(cli.todo) \in Nat \ {0} /\ Head(cli.todo) = cli.todo[1]
    BY <1>2, EmptySeq, HeadTailProperties
  <2> QED BY <1>1, <2>1 DEF ToGo
<1>4. Program \in Seq(Steps) /\ Suffix(cli.todo, Program)
  BY <1>1, ProgramType DEF InPlace
<1>5. ToGo \in 1 .. Len(Program) /\ step = At(Program, ToGo)
  <2>1. Len(Program) \in Nat /\ ToGo <= Len(Program)
    BY <1>4 DEF Suffix, ToGo
  <2>2. cli.todo[1] = Program[Len(Program) - Len(cli.todo) + 1]
    <3>1. 1 \in 1 .. Len(cli.todo)
      BY <1>3 DEF ToGo
    <3> QED BY <1>4, <3>1 DEF Suffix
  <2> QED BY <1>3, <2>1, <2>2 DEF At, ToGo
<1>6. CASE cli.cmd = "init"
  <2>1. Program = InitSteps(cli.with)
    BY <1>6 DEF Program
  <2> QED BY <1>1, <1>2, <1>3, <1>5, <1>6, <2>1, InitStepsIs
<1>7. CASE cli.cmd = "uninstall"
  <2>1. Program = UninstallSteps(guard.with) /\ Paired
    BY <1>1, <1>7 DEF Program, InPlace
  <2> QED BY <1>1, <1>2, <1>3, <1>5, <1>7, <2>1, UninstallStepsIs
<1>8. CASE cli.cmd = "repair"
  <2>1. Program = RestoreEnv /\ Paired
    BY <1>1, <1>8 DEF Program, InPlace
  <2>2. ToGo \in {1, 2}
    BY <1>3, <1>5, <2>1, RestoreEnvIs
  <2> QED BY <1>1, <1>2, <1>3, <1>5, <1>8, <2>1, <2>2, RestoreEnvIs
<1>9. CASE cli.cmd \in {"update", "service install"}
  <2>1. Program = InstallService
    BY <1>9 DEF Program
  <2> QED BY <1>1, <1>2, <1>3, <1>5, <1>9, <2>1, InstallServiceIs
<1>10. CASE cli.cmd = "service uninstall"
  <2>1. Program = UninstallService
    BY <1>10 DEF Program
  <2> QED BY <1>1, <1>2, <1>3, <1>5, <1>10, <2>1, UninstallServiceIs
<1>11. cli.cmd # "none"
  <2>1. CASE cli.cmd = "none"
    <3>1. Program = <<>>
      BY <2>1 DEF Program
    <3> QED BY <1>3, <1>5, <3>1
  <2> QED BY <2>1
<1>12. cli.cmd \in Commands
  BY DEF TypeOK
<1> QED BY <1>6, <1>7, <1>8, <1>9, <1>10, <1>11, <1>12 DEF Commands

LEMMA GoesOnIs ==
  ASSUME TypeOK, InPlace, ~Idle, NEW n \in Nat, n < ToGo
  PROVE  /\ GoesOn(n) \in Cli /\ GoesOn(n).cmd = cli.cmd /\ GoesOn(n).with = cli.with
         /\ GoesOn(n).end = "running" <=> GoesOn(n).todo # <<>>
         /\ Len(GoesOn(n).todo) = ToGo - 1 - n /\ Suffix(GoesOn(n).todo, Program)
<1> DEFINE todo == SubSeq(cli.todo, n + 2, Len(cli.todo))
           end == IF todo = <<>> THEN "done" ELSE "running"
<1>1. cli \in Cli /\ cli.todo \in Seq(Steps)
  BY DEF TypeOK, Cli
<1>2. Program \in Seq(Steps) /\ Suffix(cli.todo, Program)
  BY ProgramType DEF InPlace
<1>3. todo \in Seq(Steps) /\ Len(todo) = ToGo - 1 - n /\ Suffix(todo, Program)
  BY <1>1, <1>2, SuffixDrop DEF ToGo
<1>4. GoesOn(n) = [cli EXCEPT !.todo = todo, !.end = end]
  BY DEF GoesOn
<1>5. end \in Endings /\ (end = "running" <=> todo # <<>>)
  BY DEF Endings
<1> HIDE DEF todo, end
<1> QED BY <1>1, <1>3, <1>4, <1>5 DEF Cli

LEMMA QuitsIs ==
  ASSUME TypeOK, NEW how \in {"fatal", "killed"}
  PROVE  /\ Quits(how) \in Cli /\ Quits(how).cmd = cli.cmd /\ Quits(how).with = cli.with
         /\ Quits(how).end # "running" /\ Quits(how).todo = <<>>
<1>1. cli \in Cli /\ <<>> \in Seq(Steps) /\ how \in Endings /\ how # "running"
  BY DEF TypeOK, Cli, Endings
<1>2. Quits(how) = [cli EXCEPT !.todo = <<>>, !.end = how]
  BY DEF Quits
<1> QED BY <1>1, <1>2 DEF Cli

LEMMA SkippedIs ==
  ASSUME TypeOK, InPlace, NEW step, AtStep(step)
  PROVE  /\ Skipped(step) \in Nat /\ Skipped(step) < ToGo
         /\ step # "restore" => Skipped(step) \in {0, ToGo - 1}
         /\ step = "restore" => Skipped(step) = 1
<1>1. ToGo \in Nat \ {0}
  BY Place
<1>2. step = "restore" => ToGo >= 2
  <2>1. CASE step = "restore"
    <3>1. ~InitAt(cli.with, step, ToGo) /\ ~ServiceAt(step, ToGo)
      BY <2>1 DEF InitAt, ServiceAt
    <3>2. UninstallAt(guard.with, step, ToGo) => ToGo = 5
      BY <2>1 DEF UninstallAt
    <3>3. step \notin {"stop", "rmunit", "reload", "rmbackup"}
      BY <2>1
    <3>4. \/ UninstallAt(guard.with, step, ToGo)
          \/ ToGo = 2
      BY <3>1, <3>3, Place
    <3> QED BY <3>2, <3>4
  <2> QED BY <2>1
<1>3. Skipped(step) = IF step \in {"unit", "reload"} /\ cli.cmd = "init" THEN ToGo - 1
                      ELSE IF step = "restore" THEN 1 ELSE 0
  BY DEF Skipped, ToGo
<1> QED BY <1>1, <1>2, <1>3

\* What a step does to the command, whatever its outcome.
LEMMA RunsIs ==
  ASSUME TypeOK, InPlace, NEW step, NEW out \in Outcomes, NEW n \in Nat, n < ToGo, Runs(step, out, n)
  PROVE  /\ AtStep(step) /\ system' = system /\ version' = version
         /\ cli' \in Cli /\ cli'.cmd = cli.cmd /\ cli'.with = cli.with
         /\ cli'.end = "running" <=> cli'.todo # <<>>
         /\ faults' \in 0 .. MaxFaults /\ slipped' \in BOOLEAN
         /\ cli'.end = "running" =>
              /\ Suffix(cli'.todo, Program)
              /\ \/ out = "works" /\ Len(cli'.todo) = ToGo - 1 - n
                 \/ out = "fails" /\ ~Fatal(step) /\ Len(cli'.todo) = ToGo - 1 - Skipped(step)
<1>1. AtStep(step) /\ ~Idle /\ system' = system /\ version' = version
  BY DEF Runs, rest, AtStep
<1>2. faults \in 0 .. MaxFaults /\ slipped \in BOOLEAN /\ MaxFaults \in Nat
  BY BoundsAssumption DEF TypeOK
<1>3. CASE out = "works"
  <2>1. cli' = GoesOn(n) /\ faults' = faults /\ slipped' = slipped
    BY <1>3 DEF Runs, chance
  <2> QED BY <1>1, <1>2, <1>3, <2>1, GoesOnIs
<1>4. CASE out = "fails"
  <2>1. cli' = Copes(step) /\ faults < MaxFaults /\ faults' = faults + 1
    BY <1>4 DEF Runs
  <2>2. slipped' \in BOOLEAN
    <3>1. slipped' = (slipped \/ cli.cmd \in Removals)
      BY <1>4 DEF Runs
    <3> QED BY <3>1
  <2>3. faults' \in 0 .. MaxFaults
    BY <1>2, <2>1
  <2>4. CASE Fatal(step)
    <3>1. cli' = [Quits("fatal") EXCEPT !.failed = TRUE]
      BY <2>1, <2>4 DEF Copes
    <3>2. /\ Quits("fatal") \in Cli /\ Quits("fatal").cmd = cli.cmd /\ Quits("fatal").with = cli.with
          /\ Quits("fatal").end # "running" /\ Quits("fatal").todo = <<>>
      BY QuitsIs
    <3>3. /\ cli' \in Cli /\ cli'.cmd = cli.cmd /\ cli'.with = cli.with
          /\ cli'.end # "running" /\ cli'.todo = <<>>
      BY <3>1, <3>2 DEF Cli
    <3> QED BY <1>1, <2>2, <2>3, <3>3
  <2>5. CASE ~Fatal(step)
    <3>1. cli' = [GoesOn(Skipped(step)) EXCEPT !.failed = TRUE]
      BY <2>1, <2>5 DEF Copes
    <3>2. Skipped(step) \in Nat /\ Skipped(step) < ToGo
      BY <1>1, SkippedIs
    <3> DEFINE g == GoesOn(Skipped(step))
    <3>3. /\ g \in Cli /\ g.cmd = cli.cmd /\ g.with = cli.with /\ (g.end = "running" <=> g.todo # <<>>)
          /\ Len(g.todo) = ToGo - 1 - Skipped(step) /\ Suffix(g.todo, Program)
      BY <1>1, <3>2, GoesOnIs
    <3> HIDE DEF g
    <3>4. /\ cli' \in Cli /\ cli'.cmd = cli.cmd /\ cli'.with = cli.with
          /\ cli'.end = g.end /\ cli'.todo = g.todo
      <4>1. cli' = [g EXCEPT !.failed = TRUE]
        BY <3>1 DEF g
      <4> QED BY <3>3, <4>1 DEF Cli
    <3> QED BY <1>1, <1>4, <2>2, <2>3, <2>5, <3>3, <3>4
  <2> QED BY <2>4, <2>5
<1>5. CASE out = "killed"
  <2>1. cli' = Quits("killed") /\ faults < MaxFaults /\ faults' = faults + 1 /\ slipped' = slipped
    BY <1>5 DEF Runs
  <2>2. faults' \in 0 .. MaxFaults
    BY <1>2, <2>1
  <2> QED BY <1>1, <1>2, <2>1, <2>2, QuitsIs
<1> QED BY <1>3, <1>4, <1>5 DEF Outcomes

-----------------------------------------------------------------------------
(* Parts of the invariant.                                                 *)

LEMMA TypeParts ==
  /\ TypeOK <=> CliOK /\ PairingOK /\ CAOK /\ WiringOK /\ UnitOK
  /\ TypeOK' <=> CliOK' /\ PairingOK' /\ CAOK' /\ WiringOK' /\ UnitOK'
BY DEF TypeOK, CliOK, Cli, PairingOK, CAOK, WiringOK, UnitOK

LEMMA AfterIs ==
  ASSUME NEW out \in Outcomes, NEW old, NEW new, NEW parts, NEW x \in After(out, old, new, parts)
  PROVE  /\ x = old \/ x = new \/ x \in parts
         /\ out = "works" => x = new
         /\ out = "fails" => x = old \/ x \in parts
BY DEF After, Outcomes

LEMMA StripIs ==
  ASSUME NEW e \in Env
  PROVE  /\ Strip(e) \in Env /\ Strip(e).block = "none" /\ Strip(e).after = {}
         /\ Strip(e).before \subseteq UserLines(e)
         /\ e.block # "part" => Strip(e).before = UserLines(e)
         /\ Strip(Strip(e)).before = Strip(e).before
         /\ UserLines(e) \subseteq Lines
<1> DEFINE b == IF e.block = "part" THEN e.before ELSE UserLines(e)
<1>1. UserLines(e) \subseteq Lines /\ e.before \subseteq UserLines(e)
  BY DEF Env, UserLines
<1>2. b \subseteq UserLines(e) /\ b \subseteq Lines /\ (e.block # "part" => b = UserLines(e))
  BY <1>1
<1>3. Strip(e) = [before |-> b, block |-> "none", after |-> {}]
  BY DEF Strip, NoEnv
<1> HIDE DEF b
<1>4. Strip(e) \in Env /\ Strip(e).block = "none" /\ Strip(e).after = {} /\ Strip(e).before = b
  BY <1>2, <1>3 DEF Env, File
<1>5. UserLines(Strip(e)) = b
  BY <1>4 DEF UserLines
<1>6. Strip(Strip(e)) = [before |-> b, block |-> "none", after |-> {}]
  BY <1>4, <1>5 DEF Strip, NoEnv
<1> QED BY <1>1, <1>2, <1>4, <1>6

LEMMA PartsIs ==
  ASSUME NEW e \in Env, NEW p \in Parts(e)
  PROVE  p \in Env /\ (e.block = "none" => p.block = "none")
<1>1. UserLines(e) \subseteq Lines
  BY StripIs
<1>2. \/ \E s \in SUBSET UserLines(e) : p = [before |-> s, block |-> "none", after |-> {}]
      \/ e.block # "none" /\ p = [e EXCEPT !.block = "part", !.after = {}]
      \/ e.block # "none" /\ \E s \in SUBSET e.after : p = [e EXCEPT !.after = s]
  BY DEF Parts, NoEnv
<1>3. CASE \E s \in SUBSET UserLines(e) : p = [before |-> s, block |-> "none", after |-> {}]
  BY <1>1, <1>3 DEF Env, File
<1>4. CASE e.block # "none" /\ p = [e EXCEPT !.block = "part", !.after = {}]
  BY <1>4 DEF Env, File
<1>5. CASE e.block # "none" /\ \E s \in SUBSET e.after : p = [e EXCEPT !.after = s]
  BY <1>5 DEF Env
<1> QED BY <1>2, <1>3, <1>4, <1>5

\* A step has run: what is known of the command, whatever the outcome was.
Ran(step, out, n) ==
  /\ AtStep(step) /\ system' = system /\ version' = version
  /\ cli' \in Cli /\ cli'.cmd = cli.cmd /\ cli'.with = cli.with
  /\ cli'.end = "running" <=> cli'.todo # <<>>
  /\ faults' \in 0 .. MaxFaults /\ slipped' \in BOOLEAN
  /\ cli'.end = "running" =>
       /\ Suffix(cli'.todo, Program)
       /\ \/ out = "works" /\ Len(cli'.todo) = ToGo - 1 - n
          \/ out = "fails" /\ ~Fatal(step) /\ Len(cli'.todo) = ToGo - 1 - Skipped(step)

LEMMA HasRun ==
  ASSUME IInv, NEW step, NEW out \in Outcomes, NEW n \in {0, 1}, n = 1 => ToGo > 1, Runs(step, out, n)
  PROVE  Ran(step, out, n) /\ CliOK'
<1>1. AtStep(step)
  BY DEF Runs
<1>2. ToGo \in Nat \ {0}
  BY <1>1, Place DEF IInv
<1>3. n \in Nat /\ n < ToGo
  BY <1>2
<1>4. Ran(step, out, n)
  BY <1>3, RunsIs DEF Ran, IInv
<1>5. CliOK
  BY TypeParts DEF IInv
<1> QED BY <1>4, <1>5 DEF Ran, CliOK

\* How many steps are to go when the command goes on.
LEMMA HowFar ==
  ASSUME IInv, NEW step, NEW out \in Outcomes, NEW n \in {0, 1}, Ran(step, out, n), ~Idle'
  PROVE  /\ ~Idle /\ ToGo \in Nat /\ ToGo' \in Nat \ {0}
         /\ Suffix(cli'.todo, Program)
         /\ \/ out = "works" /\ ToGo' = ToGo - 1 - n
            \/ out = "fails" /\ ~Fatal(step) /\ step # "restore" /\ ToGo' = ToGo - 1
            \/ out = "fails" /\ ~Fatal(step) /\ step = "restore" /\ ToGo' = ToGo - 2
         /\ cli.cmd = "init" /\ step = "unit" => out = "works"
<1>1. AtStep(step) /\ cli'.end = "running" /\ cli' \in Cli /\ cli'.todo # <<>> /\ ToGo' = Len(cli'.todo)
  BY DEF Ran, Idle, ToGo
<1>2. ~Idle /\ ToGo \in Nat
  BY <1>1, Place DEF IInv
<1>3. Len(cli'.todo) \in Nat \ {0}
  <2>1. cli'.todo \in Seq(Steps)
    BY <1>1 DEF Cli
  <2> QED BY <1>1, <2>1, EmptySeq
<1>4. \/ out = "works" /\ Len(cli'.todo) = ToGo - 1 - n
      \/ out = "fails" /\ ~Fatal(step) /\ Len(cli'.todo) = ToGo - 1 - Skipped(step)
  BY <1>1 DEF Ran
<1>5. /\ step # "restore" => Skipped(step) \in {0, ToGo - 1}
      /\ step = "restore" => Skipped(step) = 1
  BY <1>1, SkippedIs DEF IInv
<1>6. cli.cmd = "init" /\ step = "unit" => Skipped(step) = ToGo - 1
  BY DEF Skipped, ToGo
<1>7. Suffix(cli'.todo, Program)
  BY <1>1 DEF Ran
<1> QED BY <1>1, <1>2, <1>3, <1>4, <1>5, <1>6, <1>7

\* The program stays as long as the command does.
LEMMA StaysInPlace ==
  ASSUME IInv, NEW step, NEW out \in Outcomes, NEW n \in {0, 1}, Ran(step, out, n),
         cli.cmd \in {"uninstall", "repair"} /\ ~Idle' => guard' = guard
  PROVE  InPlace'
<1> SUFFICES ASSUME ~Idle'
             PROVE  Suffix(cli'.todo, Program') /\ (cli'.cmd \in {"uninstall", "repair"} => Paired')
  BY DEF InPlace
<1>1. /\ ~Idle /\ cli'.cmd = cli.cmd /\ cli'.with = cli.with /\ system' = system
      /\ Suffix(cli'.todo, Program)
  BY HowFar DEF Ran
<1>2. cli.cmd \in {"uninstall", "repair"} => Paired /\ guard' = guard
  BY <1>1 DEF IInv, InPlace
<1>3. Program' = Program
  BY <1>1, <1>2 DEF Program, InitSteps, UninstallSteps, InstallService, UninstallService, RestoreEnv, InjectProxy, If
<1> QED BY <1>1, <1>2, <1>3 DEF Paired

\* The steps after which nothing new is known.
Plain == Steps \ {"guard", "crt", "key", "backup", "inject", "restore", "rmbackup"}

LEMMA HasStays ==
  ASSUME IInv, NEW step \in Plain, NEW out \in Outcomes, Ran(step, out, 0),
         UNCHANGED <<guard, halved, env, backup, owed, spoiled, left>>,
         ca' = ca \/ step = "rmca", pairings' = pairings \/ step = "claim",
         step \notin {"unit", "rmunit"} => unit' = unit, step = "unit" /\ out = "works" => unit' = version
  PROVE  Has'
<1> SUFFICES ASSUME ~Idle'
             PROVE  /\ cli'.cmd = "init" => InitHas(cli.with)'
                    /\ cli'.cmd = "uninstall" => UninstallHas'
                    /\ cli'.cmd = "repair" /\ ToGo' = 1 => spoiled' \/ left' \/ Kept'
                    /\ cli'.cmd \in {"update", "service install"} /\ ToGo' <= 2 => unit' = version'
  BY DEF Has
<1>1. /\ AtStep(step) /\ cli'.cmd = cli.cmd /\ cli'.with = cli.with /\ version' = version
      /\ ~Idle /\ ToGo \in Nat /\ ToGo' \in Nat \ {0} /\ ToGo' = ToGo - 1
      /\ out = "works" \/ ~Fatal(step)
      /\ cli.cmd = "init" /\ step = "unit" => out = "works"
  <2>1. step # "restore"
    BY DEF Plain
  <2> QED BY <2>1, HowFar DEF Ran
<1>2. step \notin {"guard", "crt", "key", "backup", "inject", "restore", "rmbackup"}
  BY DEF Plain
<1>3. CASE cli.cmd = "init"
  <2>1. InitAt(cli.with, step, ToGo) /\ cli.with \in Options
    BY <1>1, <1>3, Place DEF IInv
  <2>2. InitHas(cli.with)
    BY <1>1, <1>3 DEF IInv, Has
  <2>3. CASE ~Forward(cli.with)
    BY <1>1, <1>2, <1>3, <2>1, <2>2, <2>3 DEF InitHas, InitAt, Forward
  <2>4. CASE Forward(cli.with)
    <3>1. step = "unit" => unit' = version
      BY <1>1, <1>3
    <3> QED BY <1>1, <1>2, <1>3, <2>1, <2>2, <2>4, <3>1 DEF InitHas, InitAt, ServiceAt, Forward
  <2> QED BY <2>3, <2>4
<1>4. CASE cli.cmd = "uninstall"
  <2>1. UninstallAt(guard.with, step, ToGo)
    BY <1>1, <1>4, Place DEF IInv
  <2>2. UninstallHas
    BY <1>1, <1>4 DEF IInv, Has
  <2>3. Kept' = Kept
    BY DEF Kept, Strip, UserLines
  <2> QED BY <1>1, <1>2, <1>4, <2>1, <2>2, <2>3 DEF UninstallHas, UninstallAt, Forward
<1>5. CASE cli.cmd = "repair"
  BY <1>1, <1>2, <1>5, Place DEF IInv
<1>6. CASE cli.cmd \in {"update", "service install"}
  <2>1. ServiceAt(step, ToGo)
    BY <1>1, <1>6, Place DEF IInv
  <2>2. ToGo <= 2 => unit = version
    BY <1>1, <1>6 DEF IInv, Has
  <2>3. step = "unit" => out = "works"
    BY <1>1, <1>6 DEF Fatal
  <2>4. CASE step = "unit"
    <3>1. unit' = version
      BY <2>3, <2>4
    <3> QED BY <1>1, <1>6, <3>1
  <2>5. CASE step # "unit"
    <3>1. step # "rmunit" /\ ToGo <= 2
      BY <2>1, <2>5 DEF ServiceAt
    <3>2. unit' = unit
      BY <2>5, <3>1
    <3> QED BY <1>1, <1>6, <2>2, <3>1, <3>2
  <2> QED BY <2>4, <2>5
<1> QED BY <1>1, <1>3, <1>4, <1>5, <1>6

LEMMA RestStays ==
  ASSUME IInv, UNCHANGED <<guard, env, backup, owed, spoiled, left, ca, halved>>
  PROVE  Copied' /\ Made' /\ WiredIsServable'
BY DEF IInv, Copied, Made, WiredIsServable, Paired, Forward, Kept, Strip, UserLines, CALoads

-----------------------------------------------------------------------------
(* The steps that leave the wiring, the guard's file and the CA alone.     *)

LEMMA OnlyInit ==
  ASSUME IInv, NEW step \in {"claim", "guard", "opa", "crt", "key", "trust", "backup", "inject"}, AtStep(step)
  PROVE  /\ ~Idle /\ ToGo \in Nat /\ cli.cmd = "init" /\ cli.with \in Options
         /\ InitAt(cli.with, step, ToGo) /\ InitHas(cli.with)
<1>1. /\ ~UninstallAt(guard.with, step, ToGo) /\ ~ServiceAt(step, ToGo)
      /\ step \notin {"restore", "rmbackup", "stop", "rmunit", "reload"}
  BY DEF UninstallAt, ServiceAt
<1>2. ~Idle /\ ToGo \in Nat /\ cli.cmd = "init" /\ cli.with \in Options /\ InitAt(cli.with, step, ToGo)
  BY <1>1, Place DEF IInv
<1> QED BY <1>2 DEF IInv, Has

LEMMA OnlyUninstall ==
  ASSUME IInv, NEW step \in {"distrust", "rmca", "rmopa", "rmguard"}, AtStep(step)
  PROVE  ~Idle /\ ToGo \in Nat /\ cli.cmd = "uninstall" /\ UninstallAt(guard.with, step, ToGo) /\ UninstallHas /\ Paired
<1>1. step \notin {"restore", "rmbackup", "stop", "rmunit", "reload"}
  OBVIOUS
<1>2. ~InitAt(cli.with, step, ToGo) /\ ~ServiceAt(step, ToGo)
  BY DEF InitAt, ServiceAt
<1>3. ~Idle /\ ToGo \in Nat /\ cli.cmd = "uninstall" /\ UninstallAt(guard.with, step, ToGo) /\ Paired
  BY <1>1, <1>2, Place DEF IInv
<1> QED BY <1>3 DEF IInv, Has

\* A unit is loaded by the command that has written it.
LEMMA LoadedIsWritten ==
  ASSUME IInv, NEW step \in {"load"}, AtStep(step)
  PROVE  unit = version
<1>1. ~UninstallAt(guard.with, step, ToGo) /\ step \notin {"restore", "rmbackup", "stop", "rmunit", "reload"}
  BY DEF UninstallAt
<1>2. /\ ~Idle
      /\ \/ cli.cmd = "init" /\ InitAt(cli.with, step, ToGo)
         \/ cli.cmd \in {"update", "service install"} /\ ServiceAt(step, ToGo)
  BY <1>1, Place DEF IInv
<1>3. CASE cli.cmd = "init" /\ InitAt(cli.with, step, ToGo)
  <2>1. InitHas(cli.with)
    BY <1>2, <1>3 DEF IInv, Has
  <2> QED BY <1>3, <2>1 DEF InitHas, InitAt, ServiceAt
<1>4. CASE cli.cmd \in {"update", "service install"} /\ ServiceAt(step, ToGo)
  <2>1. ToGo <= 2
    <3>1. ToGo = 1
      BY <1>4 DEF ServiceAt
    <3>2. 1 <= 2
      OBVIOUS
    <3> QED BY <3>1, <3>2
  <2>2. Has /\ ~Idle
    BY <1>2 DEF IInv
  <2> QED BY <1>4, <2>1, <2>2 DEF Has
<1> QED BY <1>2, <1>3, <1>4

LEMMA PlainlyRan ==
  ASSUME IInv, NEW step \in Plain, NEW out \in Outcomes, Ran(step, out, 0), CliOK',
         UNCHANGED <<guard, ca, halved, env, backup, owed, spoiled, left>>,
         pairings' = pairings \/ step = "claim",
         step \notin {"unit", "rmunit"} => unit' = unit, step = "unit" /\ out = "works" => unit' = version,
         PairingOK', CAOK', UnitOK'
  PROVE  IInv'
<1>1. InPlace'
  BY StaysInPlace
<1>2. Has'
  BY HasStays
<1>3. WiringOK'
  BY TypeParts DEF IInv, WiringOK
<1>4. TypeOK'
  BY <1>3, TypeParts
<1> QED BY <1>1, <1>2, <1>4, RestStays DEF IInv

LEMMA Plainly ==
  ASSUME IInv, NEW step \in Plain, NEW out \in Outcomes, Runs(step, out, 0),
         UNCHANGED <<guard, ca, halved, env, backup, owed, spoiled, left>>,
         pairings' = pairings \/ step = "claim",
         step \notin {"unit", "rmunit"} => unit' = unit, step = "unit" /\ out = "works" => unit' = version,
         PairingOK', CAOK', UnitOK'
  PROVE  IInv'
<1>1. Ran(step, out, 0) /\ CliOK'
  BY HasRun
<1> QED BY <1>1, PlainlyRan

LEMMA ClaimKeeps == ASSUME IInv, NEW out \in Outcomes, Claim(out) PROVE IInv'
<1>1. /\ Runs("claim", out, 0) /\ pairings' \in After(out, pairings, pairings + 1, {pairings + 1})
      /\ UNCHANGED <<guard, opaConfig, ca, trusted, imposed, minting, halved, env, backup, owed, spoiled, unit, loaded, running, left>>
  BY DEF Claim, cafiles, store, making, wiring, service
<1>2. pairings < MaxPairings
  <2>1. AtStep("claim")
    BY <1>1 DEF Runs
  <2>2. InitAt(cli.with, "claim", ToGo) /\ InitHas(cli.with)
    BY <2>1, OnlyInit
  <2> QED BY <2>2 DEF InitHas, InitAt, ServiceAt
<1>3. PairingOK /\ CAOK /\ UnitOK /\ CliOK
  BY TypeParts DEF IInv
<1>4. pairings' \in 0 .. MaxPairings
  <2>1. pairings' = pairings \/ pairings' = pairings + 1
    BY <1>1, AfterIs
  <2> QED BY <1>2, <1>3, <2>1, BoundsAssumption DEF PairingOK
<1>5. version' = version
  BY <1>1 DEF Runs, rest
<1>6. PairingOK' /\ CAOK' /\ UnitOK'
  BY <1>1, <1>3, <1>4, <1>5 DEF PairingOK, CAOK, UnitOK
<1> QED BY <1>1, <1>6, Plainly DEF Plain, Steps

LEMMA RenderConfigKeeps == ASSUME IInv, NEW out \in Outcomes, RenderConfig(out) PROVE IInv'
<1>1. /\ Runs("opa", out, 0) /\ opaConfig' \in After(out, opaConfig, "whole", {"part"})
      /\ UNCHANGED <<guard, pairings, ca, trusted, imposed, minting, halved, env, backup, owed, spoiled, unit, loaded, running, left>>
  BY DEF RenderConfig, cafiles, store, making, wiring, service
<1>2. PairingOK /\ CAOK /\ UnitOK
  BY TypeParts DEF IInv
<1>3. version' = version
  BY <1>1 DEF Runs, rest
<1>4. opaConfig' = opaConfig \/ opaConfig' = "whole" \/ opaConfig' = "part"
  BY <1>1, AfterIs
<1>5. PairingOK' /\ CAOK' /\ UnitOK'
  BY <1>1, <1>2, <1>3, <1>4 DEF PairingOK, CAOK, UnitOK, File
<1> QED BY <1>1, <1>5, Plainly DEF Plain, Steps

LEMMA RemoveOPAConfigKeeps == ASSUME IInv, NEW out \in Outcomes, RemoveOPAConfig(out) PROVE IInv'
<1>1. /\ Runs("rmopa", out, 0) /\ opaConfig' \in After(out, opaConfig, "none", {})
      /\ UNCHANGED <<guard, pairings, ca, trusted, imposed, minting, halved, env, backup, owed, spoiled, unit, loaded, running, left>>
  BY DEF RemoveOPAConfig, cafiles, store, making, wiring, service
<1>2. PairingOK /\ CAOK /\ UnitOK
  BY TypeParts DEF IInv
<1>3. version' = version
  BY <1>1 DEF Runs, rest
<1>4. opaConfig' = opaConfig \/ opaConfig' = "none"
  BY <1>1, AfterIs
<1>5. PairingOK' /\ CAOK' /\ UnitOK'
  BY <1>1, <1>2, <1>3, <1>4 DEF PairingOK, CAOK, UnitOK, File
<1> QED BY <1>1, <1>5, Plainly DEF Plain, Steps

\* The CA that is trusted is the last that was made.
LEMMA TrustKeeps == ASSUME IInv, NEW out \in Outcomes, Trust(out) PROVE IInv'
<1> DEFINE new == (IF system = "linux" THEN {} ELSE trusted) \cup {ca.made}
<1>1. /\ Runs("trust", out, 0) /\ trusted' \in After(out, trusted, new, {new})
      /\ UNCHANGED <<guard, opaConfig, pairings, ca, imposed, minting, halved, env, backup, owed, spoiled, unit, loaded, running, left>>
  BY DEF Trust, pairing, making, wiring, service
<1>2. PairingOK /\ CAOK /\ UnitOK
  BY TypeParts DEF IInv
<1>3. ca.made > 0
  <2>1. AtStep("trust")
    BY <1>1 DEF Runs
  <2>2. InitAt(cli.with, "trust", ToGo) /\ InitHas(cli.with)
    BY <2>1, OnlyInit
  <2>3. ca.crt = "whole"
    BY <2>2 DEF InitHas, InitAt, ServiceAt
  <2> QED BY <2>3 DEF IInv, Made
<1>4. version' = version
  BY <1>1 DEF Runs, rest
<1>5. new \subseteq 1 .. ca.made
  <2>1. ca.made \in Nat
    BY <1>2 DEF CAOK, CAFiles
  <2>2. ca.made \in 1 .. ca.made
    BY <1>3, <2>1
  <2> QED BY <1>2, <2>2 DEF CAOK
<1> HIDE DEF new
<1>6. trusted' = trusted \/ trusted' = new
  BY <1>1, AfterIs
<1>7. PairingOK' /\ CAOK' /\ UnitOK'
  BY <1>1, <1>2, <1>4, <1>5, <1>6 DEF PairingOK, CAOK, UnitOK
<1> QED BY <1>1, <1>7, Plainly DEF Plain, Steps

LEMMA DistrustKeeps == ASSUME IInv, NEW out \in Outcomes, Distrust(out) PROVE IInv'
<1> DEFINE new == IF system = "linux" THEN {} ELSE trusted \ {g \in {ca.made} : ca.crt = "whole"}
<1>1. /\ Runs("distrust", out, 0) /\ trusted' \in After(out, trusted, new, {new})
      /\ UNCHANGED <<guard, opaConfig, pairings, ca, imposed, minting, halved, env, backup, owed, spoiled, unit, loaded, running, left>>
  BY DEF Distrust, pairing, making, wiring, service
<1>2. PairingOK /\ CAOK /\ UnitOK
  BY TypeParts DEF IInv
<1>3. version' = version
  BY <1>1 DEF Runs, rest
<1>4. new \subseteq trusted
  OBVIOUS
<1> HIDE DEF new
<1>5. trusted' = trusted \/ trusted' = new
  BY <1>1, AfterIs
<1>6. PairingOK' /\ CAOK' /\ UnitOK'
  BY <1>1, <1>2, <1>3, <1>4, <1>5 DEF PairingOK, CAOK, UnitOK
<1> QED BY <1>1, <1>6, Plainly DEF Plain, Steps

\* Of the boot service only the types matter; a torn unit is not loaded, for the
\* command that loads it has just written it.
LEMMA UnitStep ==
  ASSUME IInv, NEW step \in Plain \ {"claim"}, NEW out \in Outcomes, Runs(step, out, 0),
         UNCHANGED <<pairing, ca, store, halved, wiring, left>>,
         minting' \in BOOLEAN, minting' => minting /\ running' = running,
         step \notin {"unit", "rmunit"} => unit' = unit, step = "unit" /\ out = "works" => unit' = version,
         unit' \in {unit, version, 0, Torn}, loaded' \in {0, unit, loaded} \ {Torn},
         running' \in {0, running, loaded, loaded'}
  PROVE  IInv'
<1>1. PairingOK /\ CAOK /\ UnitOK /\ CliOK
  BY TypeParts DEF IInv
<1>2. /\ UNCHANGED <<guard, opaConfig, pairings, ca, trusted, imposed, halved, env, backup, owed, spoiled, left>>
      /\ version' = version
  BY DEF pairing, store, wiring, Runs, rest
<1>3. version \in 0 .. version
  BY <1>1 DEF CliOK
<1>4. UnitOK'
  <2>1. unit \in (0 .. version) \cup {Torn} /\ loaded \in (0 .. version) \cup {Torn} /\ running \in (0 .. version) \cup {Torn}
        /\ loaded # Torn /\ running # Torn /\ 0 \in 0 .. version /\ 0 # Torn
    BY <1>1, <1>3, BoundsAssumption DEF UnitOK, CliOK, Torn
  <2>2. unit' \in (0 .. version) \cup {Torn}
    BY <1>3, <2>1
  <2>3. loaded' \in (0 .. version) \cup {Torn} /\ loaded' # Torn
    BY <2>1
  <2>4. running' \in (0 .. version) \cup {Torn} /\ running' # Torn
    BY <2>1, <2>3
  <2>5. Torn' = Torn
    BY DEF Torn
  <2>6. minting' => running' # 0
    BY <1>1 DEF UnitOK
  <2> QED BY <1>2, <2>2, <2>3, <2>4, <2>5, <2>6 DEF UnitOK
<1>5. PairingOK' /\ CAOK'
  BY <1>1, <1>2 DEF PairingOK, CAOK
<1> QED BY <1>2, <1>4, <1>5, Plainly

LEMMA TornIs == ASSUME IInv PROVE 0 # Torn /\ version # Torn /\ loaded # Torn /\ running # Torn
<1>1. CliOK /\ UnitOK
  BY TypeParts DEF IInv
<1> QED BY <1>1, BoundsAssumption DEF CliOK, UnitOK, Torn

LEMMA ServiceKeeps ==
  ASSUME IInv, NEW out \in Outcomes,
         WriteUnit(out) \/ Reload(out) \/ Enable(out) \/ Load(out) \/ Stop(out) \/ RemoveUnit(out)
  PROVE  IInv'
<1> DEFINE SameCA == UNCHANGED <<ca, store, halved>> /\ minting' = minting
<1>a. cafiles' = cafiles => SameCA
  BY DEF cafiles, making
<1>b. minting \in BOOLEAN /\ (minting => running # 0)
  BY TypeParts DEF IInv, CAOK, UnitOK
<1>c. Interrupts => minting' \in BOOLEAN /\ (minting' => minting /\ running' = running)
  BY <1>b DEF Interrupts
<1> HIDE DEF SameCA
<1>d. SameCA => /\ UNCHANGED <<ca, store, halved>> /\ minting' \in BOOLEAN
                /\ running' = running \/ running = 0 => (minting' => minting /\ running' = running)
  BY <1>b DEF SameCA
<1>1. CASE WriteUnit(out)
  <2>1. /\ Runs("unit", out, 0) /\ unit' \in After(out, unit, version, {Torn})
        /\ UNCHANGED <<pairing, wiring, left>> /\ SameCA /\ loaded' = loaded /\ running' = running
    BY <1>1, <1>a DEF WriteUnit
  <2>2. unit' \in {unit, version, 0, Torn} /\ (out = "works" => unit' = version)
    BY <2>1, AfterIs
  <2>3. loaded' \in {0, unit, loaded} \ {Torn}
    BY <2>1, TornIs
  <2> QED BY <1>d, <2>1, <2>2, <2>3, UnitStep DEF Plain, Steps
<1>2. CASE Reload(out)
  <2> DEFINE new == IF unit = Torn THEN 0 ELSE unit
  <2>1. /\ Runs("reload", out, 0) /\ loaded' \in After(out, loaded, new, {})
        /\ UNCHANGED <<pairing, wiring, left>> /\ SameCA /\ unit' = unit /\ running' = running
    BY <1>2, <1>a DEF Reload
  <2>2. new \in {0, unit} \ {Torn}
    BY TornIs
  <2> HIDE DEF new
  <2>3. loaded' = loaded \/ loaded' = new
    BY <2>1, AfterIs
  <2>4. loaded' \in {0, unit, loaded} \ {Torn}
    BY <2>2, <2>3, TornIs
  <2> QED BY <1>d, <2>1, <2>4, UnitStep DEF Plain, Steps
<1>3. CASE Enable(out)
  <2> DEFINE new == IF running = 0 THEN loaded ELSE running
  <2>1. /\ Runs("enable", out, 0) /\ running' \in After(out, running, new, {})
        /\ UNCHANGED <<pairing, wiring, left>> /\ SameCA /\ unit' = unit /\ loaded' = loaded
    BY <1>3, <1>a DEF Enable
  <2>2. new \in {running, loaded} /\ (running # 0 => new = running)
    OBVIOUS
  <2> HIDE DEF new
  <2>3. running' = running \/ running' = new
    BY <2>1, AfterIs
  <2>4. loaded' \in {0, unit, loaded} \ {Torn} /\ running' \in {0, running, loaded, loaded'}
    BY <2>1, <2>2, <2>3, TornIs
  <2>5. running' = running \/ running = 0
    BY <2>2, <2>3
  <2> QED BY <1>d, <2>1, <2>4, <2>5, UnitStep DEF Plain, Steps
<1>4. CASE Load(out)
  <2> DEFINE new == IF loaded = 0 THEN unit ELSE loaded
  <2>1. /\ Runs("load", out, 0) /\ loaded' \in After(out, loaded, new, {})
        /\ UNCHANGED <<pairing, ca, store, halved, wiring, left>> /\ Interrupts /\ unit' = unit /\ running' = loaded'
    BY <1>4 DEF Load
  <2>2. unit = version
    <3>1. AtStep("load")
      BY <2>1 DEF Runs
    <3> QED BY <3>1, LoadedIsWritten
  <2>3. new \in {unit, loaded} \ {Torn}
    BY <2>2, TornIs
  <2> HIDE DEF new
  <2>4. loaded' = loaded \/ loaded' = new
    BY <2>1, AfterIs
  <2>5. loaded' \in {0, unit, loaded} \ {Torn}
    BY <2>3, <2>4, TornIs
  <2> QED BY <1>c, <2>1, <2>5, UnitStep DEF Plain, Steps
<1>5. CASE Stop(out)
  <2>1. /\ Runs("unload", out, 0) \/ Runs("stop", out, 0)
        /\ running' \in After(out, running, 0, {}) /\ loaded' \in {0, loaded}
        /\ UNCHANGED <<pairing, ca, store, halved, wiring, left>> /\ Interrupts /\ unit' = unit
    BY <1>5 DEF Stop
  <2>2. running' = running \/ running' = 0
    BY <2>1, AfterIs
  <2>3. loaded' \in {0, unit, loaded} \ {Torn}
    BY <2>1, TornIs
  <2>4. PICK step \in {"unload", "stop"} : Runs(step, out, 0)
    BY <2>1
  <2>5. step \in Plain \ {"claim"} /\ step \notin {"unit", "rmunit"}
    BY DEF Plain, Steps
  <2> QED BY <1>c, <2>1, <2>2, <2>3, <2>4, <2>5, UnitStep
<1>6. CASE RemoveUnit(out)
  <2>1. /\ Runs("rmunit", out, 0) /\ unit' \in After(out, unit, 0, {})
        /\ UNCHANGED <<pairing, wiring, left>> /\ SameCA /\ loaded' = loaded /\ running' = running
    BY <1>6, <1>a DEF RemoveUnit
  <2>2. unit' = unit \/ unit' = 0
    BY <2>1, AfterIs
  <2>3. loaded' \in {0, unit, loaded} \ {Torn}
    BY <2>1, TornIs
  <2> QED BY <1>d, <2>1, <2>2, <2>3, UnitStep DEF Plain, Steps
<1> QED BY <1>1, <1>2, <1>3, <1>4, <1>5, <1>6

LEMMA StopInVainKeeps == ASSUME IInv, StopInVain PROVE IInv'
<1>1. /\ AtStep("stop") /\ cli' = [GoesOn(0) EXCEPT !.failed = TRUE] /\ slipped' = TRUE
      /\ UNCHANGED <<system, version, guard, opaConfig, pairings, ca, trusted, imposed, minting, halved, env, backup, owed, spoiled,
                     unit, loaded, running, faults, left>>
  BY DEF StopInVain, rest, pairing, cafiles, store, making, wiring, service
<1>2. ~Idle /\ ToGo \in Nat /\ 0 < ToGo
  <2>1. ~Idle /\ ToGo \in Nat \ {0}
    BY <1>1, Place DEF IInv
  <2> QED BY <2>1
<1> DEFINE g == GoesOn(0)
<1>3. /\ g \in Cli /\ g.cmd = cli.cmd /\ g.with = cli.with /\ (g.end = "running" <=> g.todo # <<>>)
      /\ Len(g.todo) = ToGo - 1 - 0 /\ Suffix(g.todo, Program)
  BY <1>2, GoesOnIs DEF IInv
<1>4. cli' = [g EXCEPT !.failed = TRUE]
  BY <1>1
<1> HIDE DEF g
<1>5. cli' \in Cli /\ cli'.cmd = cli.cmd /\ cli'.with = cli.with /\ cli'.end = g.end /\ cli'.todo = g.todo
  BY <1>3, <1>4 DEF Cli
<1>6. CliOK /\ PairingOK /\ CAOK /\ UnitOK
  BY TypeParts DEF IInv
<1>7. Ran("stop", "works", 0) /\ CliOK'
  BY <1>1, <1>3, <1>5, <1>6 DEF Ran, CliOK
<1>8. PairingOK' /\ CAOK' /\ UnitOK'
  BY <1>1, <1>6 DEF PairingOK, CAOK, UnitOK, Torn
<1> QED BY <1>1, <1>7, <1>8, PlainlyRan DEF Plain, Steps, Outcomes

-----------------------------------------------------------------------------
(* The files of the guard.                                                 *)

\* While init is not past its copy of the file, OpenClaw is not wired, and
\* there is no copy that counts.
LEMMA NotWiredYet ==
  ASSUME IInv, NEW step \in {"guard", "crt", "key"}, AtStep(step)
  PROVE  (left \/ env.block = "none") /\ (spoiled \/ left \/ ~backup.made)
<1>1. InitAt(cli.with, step, ToGo) /\ InitHas(cli.with) /\ ToGo \in Nat
  BY OnlyInit
<1>2. CASE ~Forward(cli.with)
  BY <1>1, <1>2 DEF InitHas
<1>3. CASE Forward(cli.with)
  <2>1. ToGo >= 5
    BY <1>1, <1>3 DEF InitAt, ServiceAt
  <2> QED BY <1>1, <2>1 DEF InitHas
<1> QED BY <1>2, <1>3

LEMMA SaveGuardKeeps == ASSUME IInv, NEW out \in Outcomes, SaveGuard(out) PROVE IInv'
<1> DEFINE new == [is |-> "whole", with |-> cli.with]
           part == [NoGuard EXCEPT !.is = "part"]
<1>1. /\ Runs("guard", out, 0) /\ guard' \in After(out, guard, new, {part})
      /\ UNCHANGED <<opaConfig, pairings, ca, trusted, imposed, minting, halved, env, backup, owed, spoiled, unit, loaded, running, left>>
  BY DEF SaveGuard, cafiles, store, making, wiring, service
<1>2. /\ AtStep("guard") /\ ~Idle /\ ToGo \in Nat /\ cli.cmd = "init" /\ cli.with \in Options
      /\ InitAt(cli.with, "guard", ToGo) /\ InitHas(cli.with)
  BY <1>1, OnlyInit DEF Runs
<1>3. Ran("guard", out, 0) /\ CliOK' /\ version' = version /\ cli'.cmd = "init" /\ cli'.with = cli.with
  BY <1>1, <1>2, HasRun DEF Ran
<1>4. (left \/ env.block = "none") /\ (spoiled \/ left \/ ~backup.made)
  BY <1>2, NotWiredYet
<1>5. PairingOK /\ CAOK /\ WiringOK /\ UnitOK
  BY TypeParts DEF IInv
<1>6. new \in Guard /\ part \in Guard
  BY <1>2 DEF Guard, NoGuard, NoOptions, Options, File
<1>7. (guard' = guard \/ guard' = new \/ guard' = part) /\ (out = "works" => guard' = new)
  BY <1>1, AfterIs
<1> HIDE DEF part
<1>8. PairingOK' /\ CAOK' /\ WiringOK' /\ UnitOK'
  BY <1>1, <1>3, <1>5, <1>6, <1>7 DEF PairingOK, CAOK, WiringOK, UnitOK, Torn
<1>9. InPlace'
  BY <1>2, <1>3, StaysInPlace
<1>10. Has'
  <2> SUFFICES ASSUME ~Idle'
               PROVE  InitHas(cli.with)'
    BY <1>3 DEF Has
  <2>1. Fatal("guard")
    BY DEF Fatal
  <2>2. out = "works" /\ ToGo' = ToGo - 1
    BY <1>3, <2>1, HowFar
  <2>3. guard' = [is |-> "whole", with |-> cli'.with]
    BY <1>3, <1>7, <2>2
  <2>4. CASE ~Forward(cli.with)
    <3>1. ToGo = 2
      BY <1>2, <2>4 DEF InitAt
    <3> QED BY <1>1, <1>2, <1>3, <2>2, <2>3, <2>4, <3>1 DEF InitHas, Forward
  <2>5. CASE Forward(cli.with)
    <3>1. ToGo = IF cli.with.inspect THEN 10 ELSE 7
      BY <1>2, <2>5 DEF InitAt, ServiceAt
    <3> QED BY <1>1, <1>2, <1>3, <2>2, <2>3, <2>5, <3>1 DEF InitHas, Forward
  <2> QED BY <2>4, <2>5
<1>11. Copied'
  BY <1>1, <1>4 DEF IInv, Copied, Kept, Strip, UserLines
<1>12. Made' /\ WiredIsServable'
  BY <1>1, <1>4 DEF IInv, Made, WiredIsServable
<1> QED BY <1>3, <1>8, <1>9, <1>10, <1>11, <1>12, TypeParts DEF IInv

\* A step of EnsureCA.
LEMMA CAKeeps ==
  ASSUME IInv, NEW step \in {"crt", "key"}, NEW out \in Outcomes, NEW n \in {0, 1}, Runs(step, out, n),
         n = 1 => ToGo > 1,
         UNCHANGED <<pairing, store, making, wiring, service, left>>,
         ca' \in CAFiles, ca'.made >= ca.made, ca'.crt = "whole" => ca'.made > 0,
         out = "works" => ca'.crt = "whole", out = "works" /\ (step = "key" \/ n = 1) => ca'.key = "whole"
  PROVE  IInv'
<1>1. UNCHANGED <<guard, opaConfig, pairings, trusted, imposed, minting, halved, env, backup, owed, spoiled, unit, loaded, running, left>>
  BY DEF pairing, store, making, wiring, service
<1>2. /\ AtStep(step) /\ ~Idle /\ ToGo \in Nat /\ cli.cmd = "init" /\ cli.with \in Options
      /\ InitAt(cli.with, step, ToGo) /\ InitHas(cli.with)
  BY OnlyInit DEF Runs
<1>3. Ran(step, out, n) /\ CliOK' /\ version' = version /\ cli'.cmd = "init" /\ cli'.with = cli.with
  BY <1>2, HasRun DEF Ran
<1>4. left \/ env.block = "none"
  BY <1>2, NotWiredYet
<1>5. PairingOK /\ CAOK /\ WiringOK /\ UnitOK
  BY TypeParts DEF IInv
<1>6. CAOK'
  <2>1. ca.made \in Nat /\ ca'.made \in Nat
    BY <1>5 DEF CAOK, CAFiles
  <2>2. 1 .. ca.made \subseteq 1 .. ca'.made
    BY <2>1
  <2> QED BY <1>1, <1>5, <2>2 DEF CAOK
<1>7. PairingOK' /\ WiringOK' /\ UnitOK'
  BY <1>1, <1>3, <1>5 DEF PairingOK, WiringOK, UnitOK, Torn
<1>8. InPlace'
  BY <1>1, <1>3, StaysInPlace
<1>9. Has'
  <2> SUFFICES ASSUME ~Idle'
               PROVE  InitHas(cli.with)'
    BY <1>3 DEF Has
  <2>1. Fatal(step) /\ step # "restore"
    BY DEF Fatal
  <2>2. out = "works" /\ ToGo' = ToGo - 1 - n
    BY <1>3, <2>1, HowFar
  <2>3. Forward(cli.with) /\ cli.with.inspect /\ ToGo = IF step = "crt" THEN 8 ELSE 7
    BY <1>2 DEF InitAt, ServiceAt
  <2>4. ToGo' \in {5, 6, 7} /\ (ToGo' <= 6 => ca'.key = "whole") /\ ca'.crt = "whole"
    BY <2>2, <2>3
  <2>5. guard = [is |-> "whole", with |-> cli.with] /\ (spoiled \/ left \/ ~backup.made)
    BY <1>2, <2>3, NotWiredYet DEF InitHas
  <2> QED BY <1>1, <1>3, <1>4, <2>3, <2>4, <2>5 DEF InitHas, Forward
<1>10. Copied'
  BY <1>1 DEF IInv, Copied, Paired, Forward, Kept, Strip, UserLines
<1>11. Made' /\ WiredIsServable'
  BY <1>1, <1>4 DEF Made, WiredIsServable
<1> QED BY <1>3, <1>6, <1>7, <1>8, <1>9, <1>10, <1>11, TypeParts DEF IInv

LEMMA CATypes ==
  ASSUME IInv
  PROVE  /\ ca \in CAFiles /\ ca.made \in Nat /\ [ca EXCEPT !.crt = "part"] \in CAFiles
         /\ [ca EXCEPT !.crt = "whole", !.made = ca.made + 1] \in CAFiles
         /\ [ca EXCEPT !.key = "whole"] \in CAFiles /\ [ca EXCEPT !.key = "part"] \in CAFiles
         /\ [ca EXCEPT !.crt = "whole", !.key = "part", !.made = ca.made + 1] \in CAFiles
         /\ [crt |-> "whole", key |-> "whole", made |-> ca.made + 1] \in CAFiles
<1>1. ca \in CAFiles
  BY TypeParts DEF IInv, CAOK
<1>2. ca.made \in Nat /\ ca.made + 1 \in Nat /\ ca.crt \in File /\ ca.key \in File
  BY <1>1 DEF CAFiles
<1>3. ASSUME NEW c \in File, NEW k \in File, NEW m \in Nat
      PROVE  [crt |-> c, key |-> k, made |-> m] \in CAFiles
  BY DEF CAFiles
<1>4. PICK c \in File, k \in File, m \in Nat : ca = [crt |-> c, key |-> k, made |-> m]
  BY <1>1 DEF CAFiles
<1>5. "part" \in File /\ "whole" \in File
  BY DEF File
<1>6. /\ [ca EXCEPT !.crt = "part"] = [crt |-> "part", key |-> k, made |-> m]
      /\ [ca EXCEPT !.key = "whole"] = [crt |-> c, key |-> "whole", made |-> m]
      /\ [ca EXCEPT !.key = "part"] = [crt |-> c, key |-> "part", made |-> m]
  BY <1>4
<1>7. ASSUME NEW x \in Nat, NEW w \in File, NEW p \in File
      PROVE  [ca EXCEPT !.crt = w, !.made = x] \in CAFiles /\ [ca EXCEPT !.crt = w, !.key = p, !.made = x] \in CAFiles
  BY <1>1 DEF CAFiles
<1>8. /\ [ca EXCEPT !.crt = "whole", !.made = ca.made + 1] \in CAFiles
      /\ [ca EXCEPT !.crt = "whole", !.key = "part", !.made = ca.made + 1] \in CAFiles
  BY <1>2, <1>5, <1>7
<1>9. /\ [ca EXCEPT !.crt = "part"] \in CAFiles /\ [ca EXCEPT !.key = "whole"] \in CAFiles
      /\ [ca EXCEPT !.key = "part"] \in CAFiles
  BY <1>3, <1>5, <1>6
<1> QED BY <1>1, <1>2, <1>3, <1>5, <1>8, <1>9

LEMMA WriteCertKeeps == ASSUME IInv, NEW out \in Outcomes, WriteCert(out) PROVE IInv'
<1>1. UNCHANGED <<pairing, store, making, wiring, service, left>>
  BY DEF WriteCert
<1>2. CASE ca.crt = "none" /\ Runs("crt", out, 0)
           /\ ca' \in After(out, ca, [ca EXCEPT !.crt = "whole", !.made = @ + 1], {[ca EXCEPT !.crt = "part"]})
  <2> DEFINE new == [ca EXCEPT !.crt = "whole", !.made = ca.made + 1]
             part == [ca EXCEPT !.crt = "part"]
  <2>1. (ca' = ca \/ ca' = new \/ ca' = part) /\ (out = "works" => ca' = new)
    BY <1>2, AfterIs
  <2>2. /\ new \in CAFiles /\ new.crt = "whole" /\ new.made = ca.made + 1 /\ ca.made \in Nat
        /\ part \in CAFiles /\ part.crt = "part" /\ part.made = ca.made /\ ca \in CAFiles
    BY CATypes DEF CAFiles
  <2> HIDE DEF new, part
  <2>3. /\ ca' \in CAFiles /\ ca'.made >= ca.made /\ (ca'.crt = "whole" => ca'.made > 0)
        /\ out = "works" => ca'.crt = "whole"
    BY <1>2, <2>1, <2>2
  <2> QED BY <1>1, <1>2, <2>3, CAKeeps
<1>3. CASE CALoads /\ out = "works" /\ Runs("crt", out, 1) /\ ca' = ca
  <2>1. ca' \in CAFiles /\ ca'.made >= ca.made /\ ca'.crt = "whole" /\ ca'.made > 0 /\ ca'.key = "whole"
    BY <1>3, CATypes DEF CALoads, IInv, Made
  <2>2. ToGo > 1
    <3>1. InitAt(cli.with, "crt", ToGo) /\ ToGo \in Nat
      BY <1>3, OnlyInit DEF Runs
    <3>2. ToGo = 8
      BY <3>1 DEF InitAt, ServiceAt
    <3> QED BY <3>2
  <2> QED BY <1>1, <1>3, <2>1, <2>2, CAKeeps
<1> QED BY <1>2, <1>3 DEF WriteCert

LEMMA WriteKeyKeeps == ASSUME IInv, NEW out \in Outcomes, WriteKey(out) PROVE IInv'
<1> DEFINE new == [ca EXCEPT !.key = "whole"]
           part == [ca EXCEPT !.key = "part"]
<1>1. /\ Runs("key", out, 0) /\ ca' \in After(out, ca, new, {part})
      /\ UNCHANGED <<pairing, store, making, wiring, service, left>>
  BY DEF WriteKey
<1>2. (ca' = ca \/ ca' = new \/ ca' = part) /\ (out = "works" => ca' = new)
  BY <1>1, AfterIs
<1>3. ca.crt = "whole" /\ ca.made > 0
  <2>1. InitAt(cli.with, "key", ToGo) /\ InitHas(cli.with)
    BY <1>1, OnlyInit DEF Runs
  <2>2. ca.crt = "whole"
    BY <2>1 DEF InitHas, InitAt, ServiceAt
  <2> QED BY <2>2 DEF IInv, Made
<1>4. /\ new \in CAFiles /\ new.crt = "whole" /\ new.key = "whole" /\ new.made = ca.made /\ ca.made \in Nat
      /\ part \in CAFiles /\ part.crt = "whole" /\ part.made = ca.made /\ ca \in CAFiles
  BY <1>3, CATypes DEF CAFiles
<1> HIDE DEF new, part
<1>5. /\ ca' \in CAFiles /\ ca'.made >= ca.made /\ ca'.made > 0 /\ ca'.crt = "whole"
      /\ out = "works" => ca'.key = "whole"
  BY <1>2, <1>3, <1>4
<1> QED BY <1>1, <1>5, CAKeeps

LEMMA CANotLoadedKeeps == ASSUME IInv, CANotLoaded PROVE IInv'
<1>1. /\ cli' = Quits("fatal")
      /\ UNCHANGED <<system, version, guard, opaConfig, pairings, ca, trusted, imposed, minting, halved, env, backup, owed, spoiled,
                     unit, loaded, running, faults, slipped, left>>
  BY DEF CANotLoaded, rest, pairing, cafiles, store, making, wiring, service, chance
<1>2. cli' \in Cli /\ cli'.end # "running" /\ cli'.todo = <<>>
  BY <1>1, QuitsIs DEF IInv
<1>3. CliOK /\ PairingOK /\ CAOK /\ WiringOK /\ UnitOK
  BY TypeParts DEF IInv
<1>4. CliOK' /\ PairingOK' /\ CAOK' /\ WiringOK' /\ UnitOK'
  BY <1>1, <1>2, <1>3 DEF CliOK, PairingOK, CAOK, WiringOK, UnitOK, Torn
<1>5. InPlace' /\ Has'
  BY <1>2 DEF InPlace, Has, Idle
<1> QED BY <1>1, <1>4, <1>5, RestStays, TypeParts DEF IInv

\* Where uninstall removes the CA and guard.json, OpenClaw is not wired any more.
LEMMA NotWiredNow ==
  ASSUME IInv, NEW step \in {"rmca", "rmguard"}, AtStep(step)
  PROVE  (left \/ env.block = "none") /\ (spoiled \/ left \/ ~backup.made)
<1>1. UninstallAt(guard.with, step, ToGo) /\ UninstallHas /\ ToGo \in Nat
  BY OnlyUninstall
<1>2. CASE Forward(guard.with)
  <2>1. ToGo <= 3
    <3>1. ToGo \in {1, 3}
      BY <1>1 DEF UninstallAt
    <3> QED BY <3>1
  <2> QED BY <1>1, <1>2, <2>1 DEF UninstallHas
<1>3. CASE ~Forward(guard.with)
  BY <1>3 DEF IInv, WiredIsServable, Copied, Forward
<1> QED BY <1>2, <1>3

LEMMA RemoveCAKeeps == ASSUME IInv, NEW out \in Outcomes, RemoveCA(out) PROVE IInv'
<1> DEFINE gone == [ca EXCEPT !.crt = "none", !.key = "none"]
           some == {[ca EXCEPT !.crt = "none"], [ca EXCEPT !.key = "none"]}
<1>1. /\ Runs("rmca", out, 0) /\ ca' \in After(out, ca, gone, some)
      /\ UNCHANGED <<guard, opaConfig, pairings, trusted, imposed, minting, halved, env, backup, owed, spoiled, unit, loaded, running, left>>
  BY DEF RemoveCA, pairing, store, making, wiring, service
<1>2. Ran("rmca", out, 0) /\ CliOK' /\ version' = version /\ AtStep("rmca")
  BY <1>1, HasRun DEF Ran
<1>3. PairingOK /\ CAOK /\ WiringOK /\ UnitOK /\ ca \in CAFiles
  BY TypeParts DEF IInv, CAOK
<1>4. \A c \in some \cup {gone, ca} : c \in CAFiles /\ c.made = ca.made /\ (c.crt = "whole" => ca.crt = "whole")
  BY <1>3 DEF CAFiles, File
<1>5. ca' = ca \/ ca' = gone \/ ca' \in some
  BY <1>1, AfterIs
<1> HIDE DEF gone, some
<1>6. ca' \in CAFiles /\ ca'.made = ca.made /\ (ca'.crt = "whole" => ca.crt = "whole")
  BY <1>4, <1>5
<1>7. PairingOK' /\ CAOK' /\ WiringOK' /\ UnitOK'
  BY <1>1, <1>2, <1>3, <1>6 DEF PairingOK, CAOK, WiringOK, UnitOK, Torn
<1>8. InPlace' /\ Has'
  BY <1>1, <1>2, StaysInPlace, HasStays DEF Plain, Steps
<1>9. Copied'
  BY <1>1 DEF IInv, Copied, Paired, Forward, Kept, Strip, UserLines
<1>10. Made' /\ WiredIsServable'
  BY <1>1, <1>2, <1>6, NotWiredNow DEF IInv, Made, WiredIsServable
<1> QED BY <1>2, <1>7, <1>8, <1>9, <1>10, TypeParts DEF IInv

LEMMA RemoveGuardKeeps == ASSUME IInv, NEW out \in Outcomes, RemoveGuard(out) PROVE IInv'
<1>1. /\ Runs("rmguard", out, 0) /\ guard' \in After(out, guard, NoGuard, {})
      /\ UNCHANGED <<opaConfig, pairings, ca, trusted, imposed, minting, halved, env, backup, owed, spoiled, unit, loaded, running, left>>
  BY DEF RemoveGuard, cafiles, store, making, wiring, service
<1>2. Ran("rmguard", out, 0) /\ CliOK' /\ version' = version /\ AtStep("rmguard")
  BY <1>1, HasRun DEF Ran
<1>3. (left \/ env.block = "none") /\ (spoiled \/ left \/ ~backup.made)
  BY <1>2, NotWiredNow
<1>4. PairingOK /\ CAOK /\ WiringOK /\ UnitOK
  BY TypeParts DEF IInv
<1>5. guard' = guard \/ guard' = NoGuard
  BY <1>1, AfterIs
<1>6. NoGuard \in Guard
  BY DEF Guard, NoGuard, NoOptions, Options, File
<1>7. PairingOK' /\ CAOK' /\ WiringOK' /\ UnitOK'
  BY <1>1, <1>2, <1>4, <1>5, <1>6 DEF PairingOK, CAOK, WiringOK, UnitOK, Torn
<1>8. Idle'
  <2> SUFFICES ASSUME ~Idle'
               PROVE  FALSE
    OBVIOUS
  <2>1. UninstallAt(guard.with, "rmguard", ToGo)
    BY <1>2, OnlyUninstall
  <2>2. ToGo = 1
    BY <2>1 DEF UninstallAt
  <2>3. ToGo' \in Nat \ {0} /\ ToGo' = ToGo - 1
    BY <1>2, HowFar
  <2> QED BY <2>2, <2>3
<1>9. InPlace' /\ Has'
  BY <1>8 DEF InPlace, Has
<1>10. Copied'
  BY <1>1, <1>3 DEF IInv, Copied, Kept, Strip, UserLines
<1>11. Made' /\ WiredIsServable'
  BY <1>1, <1>3 DEF IInv, Made, WiredIsServable
<1> QED BY <1>2, <1>7, <1>9, <1>10, <1>11, TypeParts DEF IInv

-----------------------------------------------------------------------------
(* wiring.                                                                 *)

LEMMA BackUpKeeps == ASSUME IInv, NEW out \in Outcomes, BackUp(out) PROVE IInv'
<1> DEFINE new == [made |-> TRUE, of |-> env]
           copies == {[made |-> TRUE, of |-> e] : e \in Parts(env)}
<1>1. /\ Runs("backup", out, 0)
      /\ UNCHANGED <<guard, opaConfig, pairings, ca, trusted, imposed, minting, halved, env, owed, unit, loaded, running, left>>
  BY DEF BackUp, pairing, cafiles, store, making, service
<1>2. IF env = NoEnv \/ backup.made THEN backup' = backup ELSE backup' \in After(out, backup, new, copies)
  BY DEF BackUp
<1>3. spoiled' = (spoiled \/ (backup' # backup /\ backup'.of # env))
  BY DEF BackUp
<1>4. spoiled' \in BOOLEAN
  BY <1>3
<1>5. CliOK /\ PairingOK /\ CAOK /\ WiringOK /\ UnitOK /\ env \in Env /\ backup \in Backup
  BY TypeParts DEF IInv, WiringOK
<1>6. /\ AtStep("backup") /\ ~Idle /\ ToGo \in Nat /\ cli.cmd = "init" /\ cli.with \in Options
      /\ InitAt(cli.with, "backup", ToGo) /\ InitHas(cli.with)
  BY <1>1, OnlyInit DEF Runs
<1>7. Ran("backup", out, 0) /\ CliOK' /\ version' = version /\ cli'.cmd = "init" /\ cli'.with = cli.with
  BY <1>1, <1>6, HasRun DEF Ran
<1>8. Forward(cli.with) /\ ToGo = 5
  BY <1>6 DEF InitAt, ServiceAt
<1>9. /\ guard = [is |-> "whole", with |-> cli.with] /\ (cli.with.inspect => ca.crt = "whole" /\ (CALoads \/ halved))
      /\ spoiled \/ left \/ ~backup.made
      /\ left \/ env.block = "none"
  BY <1>6, <1>8 DEF InitHas, CALoads
<1>10. backup' = backup \/ (backup'.made /\ backup' \in Backup /\ (env.block = "none" => backup'.of.block = "none"))
  <2>1. new \in Backup /\ new.made /\ new.of = env
    BY <1>5 DEF Backup
  <2>2. \A b \in copies : b.made /\ b \in Backup /\ (env.block = "none" => b.of.block = "none")
    <3>1. ASSUME NEW e \in Parts(env)
          PROVE  [made |-> TRUE, of |-> e] \in Backup /\ (env.block = "none" => e.block = "none")
      BY <1>5, PartsIs DEF Backup
    <3>2. \A b \in copies : \E e \in Parts(env) : b = [made |-> TRUE, of |-> e]
      OBVIOUS
    <3> HIDE DEF copies
    <3> QED BY <3>1, <3>2
  <2> HIDE DEF new, copies
  <2>3. backup' = backup \/ backup' = new \/ backup' \in copies
    BY <1>2, AfterIs
  <2> QED BY <2>1, <2>2, <2>3
<1>11. out = "works" => backup'.made \/ env = NoEnv
  BY <1>2, AfterIs
<1>12. PairingOK' /\ CAOK' /\ WiringOK' /\ UnitOK'
  BY <1>1, <1>4, <1>5, <1>7, <1>10 DEF PairingOK, CAOK, WiringOK, UnitOK, Torn
<1>13. InPlace'
  BY <1>1, <1>7, StaysInPlace
<1>14. Has'
  <2> SUFFICES ASSUME ~Idle'
               PROVE  InitHas(cli.with)'
    BY <1>7 DEF Has
  <2>1. Fatal("backup")
    BY DEF Fatal
  <2>2. out = "works" /\ ToGo' = 4
    BY <1>7, <1>8, <2>1, HowFar
  <2> QED BY <1>1, <1>7, <1>8, <1>9, <1>11, <2>2 DEF InitHas, Forward, CALoads
<1>15. Copied'
  <2> SUFFICES ASSUME ~left
               PROVE  /\ ~spoiled' => IF backup'.made THEN Paired' /\ Forward(guard'.with) /\ owed' \subseteq UserLines(backup'.of)
                                      ELSE Kept'
                      /\ backup'.made => backup'.of.block = "none"
    BY <1>1 DEF Copied, Forward, UserLines
  <2>1. env.block = "none"
    BY <1>9
  <2>2. CASE backup' = backup
    <3>1. /\ ~spoiled' => ~spoiled
          /\ Kept' = Kept /\ Paired' = Paired /\ guard' = guard /\ owed' = owed
      BY <1>1, <1>3 DEF Kept, Strip, UserLines, Paired
    <3> QED BY <2>2, <3>1 DEF IInv, Copied
  <2>3. CASE backup' # backup
    <3>1. backup'.made /\ backup'.of.block = "none"
      BY <1>10, <2>1, <2>3
    <3>2. ASSUME ~spoiled'
          PROVE  backup'.of = env /\ ~spoiled
      BY <1>3, <2>3, <3>2
    <3>3. ~spoiled => owed \subseteq UserLines(env)
      <4>1. ~spoiled => Kept
        BY <1>9 DEF IInv, Copied
      <4>2. Strip(env).before \subseteq UserLines(env)
        BY <1>5, StripIs
      <4> QED BY <4>1, <4>2 DEF Kept
    <3>4. Paired' /\ Forward(guard'.with) /\ owed' = owed
      BY <1>1, <1>8, <1>9 DEF Paired
    <3> QED BY <3>1, <3>2, <3>3, <3>4
  <2> QED BY <2>2, <2>3
<1>16. Made' /\ WiredIsServable'
  BY <1>1 DEF IInv, Made, WiredIsServable, Paired, CALoads
<1> QED BY <1>7, <1>12, <1>13, <1>14, <1>15, <1>16, TypeParts DEF IInv

LEMMA InjectKeeps == ASSUME IInv, NEW out \in Outcomes, Inject(out) PROVE IInv'
<1> DEFINE wired == [Strip(env) EXCEPT !.block = "whole"]
<1>1. /\ Runs("inject", out, 0) /\ env' \in After(out, env, wired, Parts(wired))
      /\ UNCHANGED <<guard, opaConfig, pairings, ca, trusted, imposed, minting, halved, backup, owed, spoiled, unit, loaded, running, left>>
  BY DEF Inject, pairing, cafiles, store, making, service
<1>2. CliOK /\ PairingOK /\ CAOK /\ WiringOK /\ UnitOK /\ env \in Env
  BY TypeParts DEF IInv, WiringOK
<1>3. /\ AtStep("inject") /\ ~Idle /\ ToGo \in Nat /\ cli.cmd = "init" /\ cli.with \in Options
      /\ InitAt(cli.with, "inject", ToGo) /\ InitHas(cli.with)
  BY <1>1, OnlyInit DEF Runs
<1>4. Ran("inject", out, 0) /\ CliOK' /\ version' = version /\ cli'.cmd = "init" /\ cli'.with = cli.with
  BY <1>1, <1>3, HasRun DEF Ran
<1>5. Forward(cli.with) /\ ToGo = 4
  BY <1>3 DEF InitAt, ServiceAt
<1>6. /\ guard = [is |-> "whole", with |-> cli.with] /\ (cli.with.inspect => ca.crt = "whole" /\ (CALoads \/ halved))
      /\ spoiled \/ left \/ backup.made \/ env = NoEnv
  BY <1>3, <1>5 DEF InitHas, CALoads
<1>7. env' \in Env
  <2>1. Strip(env) \in Env
    BY <1>2, StripIs
  <2>2. wired \in Env
    BY <2>1 DEF Env, File
  <2> HIDE DEF wired
  <2>3. env' = env \/ env' = wired \/ env' \in Parts(wired)
    BY <1>1, AfterIs
  <2> QED BY <1>2, <2>2, <2>3, PartsIs
<1>8. PairingOK' /\ CAOK' /\ WiringOK' /\ UnitOK'
  BY <1>1, <1>2, <1>4, <1>7 DEF PairingOK, CAOK, WiringOK, UnitOK, Torn
<1>9. InPlace'
  BY <1>1, <1>4, StaysInPlace
<1>10. Has'
  <2> SUFFICES ASSUME ~Idle'
               PROVE  InitHas(cli.with)'
    BY <1>4 DEF Has
  <2>1. Fatal("inject")
    BY DEF Fatal
  <2>2. out = "works" /\ ToGo' = 3
    BY <1>4, <1>5, <2>1, HowFar
  <2> QED BY <1>1, <1>4, <1>5, <1>6, <2>2 DEF InitHas, Forward, CALoads
<1>11. Copied'
  <2>1. ~spoiled /\ ~left /\ ~backup.made => owed = {}
    <3> SUFFICES ASSUME ~spoiled, ~left, ~backup.made
                 PROVE  owed = {}
      OBVIOUS
    <3>1. owed \subseteq Strip(NoEnv).before
      BY <1>6 DEF IInv, Copied, Kept
    <3>2. Strip(NoEnv).before = {}
      BY DEF Strip, NoEnv, UserLines
    <3> QED BY <3>1, <3>2
  <2>2. ~spoiled /\ ~left /\ ~backup.made => Kept'
    BY <1>1, <2>1 DEF Kept
  <2>3. ~spoiled /\ ~left /\ backup.made => Paired' /\ Forward(guard'.with) /\ owed' \subseteq UserLines(backup'.of)
    BY <1>1 DEF IInv, Copied, Paired
  <2>4. ~left /\ backup.made => backup'.of.block = "none"
    BY <1>1 DEF IInv, Copied
  <2> QED BY <1>1, <2>2, <2>3, <2>4 DEF Copied, Forward, UserLines
<1>12. Made' /\ WiredIsServable'
  BY <1>1, <1>5, <1>6 DEF IInv, Made, WiredIsServable, Paired, CALoads, Forward
<1> QED BY <1>4, <1>8, <1>9, <1>10, <1>11, <1>12, TypeParts DEF IInv

\* Where the steps of Restore are taken.
LEMMA OnlyRestore ==
  ASSUME IInv, NEW step \in {"restore", "rmbackup"}, AtStep(step)
  PROVE  /\ ~Idle /\ ToGo \in Nat /\ Paired
         /\ \/ cli.cmd = "uninstall" /\ UninstallHas /\ Forward(guard.with) /\ ToGo = (IF step = "restore" THEN 5 ELSE 4)
            \/ /\ cli.cmd = "repair" /\ ToGo = (IF step = "restore" THEN 2 ELSE 1)
               /\ ToGo = 1 => spoiled \/ left \/ Kept
<1>1. ~InitAt(cli.with, step, ToGo) /\ ~ServiceAt(step, ToGo) /\ step \notin {"stop", "rmunit", "reload"}
  BY DEF InitAt, ServiceAt
<1>2. /\ ~Idle /\ ToGo \in Nat /\ Paired
      /\ \/ cli.cmd = "uninstall" /\ UninstallAt(guard.with, step, ToGo)
         \/ cli.cmd = "repair" /\ ((step = "restore" /\ ToGo = 2) \/ (step = "rmbackup" /\ ToGo = 1))
  BY <1>1, Place DEF IInv
<1>3. /\ cli.cmd = "uninstall" => UninstallHas
      /\ cli.cmd = "repair" /\ ToGo = 1 => spoiled \/ left \/ Kept
  BY <1>2 DEF IInv, Has
<1>4. CASE cli.cmd = "uninstall"
  <2>1. UninstallAt(guard.with, step, ToGo)
    BY <1>2, <1>4
  <2>2. Forward(guard.with) /\ ToGo = (IF step = "restore" THEN 5 ELSE 4)
    BY <2>1 DEF UninstallAt
  <2> QED BY <1>2, <1>3, <1>4, <2>2
<1>5. CASE cli.cmd = "repair"
  BY <1>2, <1>3, <1>5
<1> QED BY <1>2, <1>4, <1>5

LEMMA RestoreKeeps == ASSUME IInv, NEW out \in Outcomes, Restore(out) PROVE IInv'
<1> DEFINE old == IF backup.made THEN backup.of ELSE Strip(env)
           n == IF backup.made THEN 0 ELSE 1
<1>1. /\ Runs("restore", out, n) /\ env' \in After(out, env, old, Parts(old))
      /\ UNCHANGED <<guard, opaConfig, pairings, ca, trusted, imposed, minting, halved, backup, owed, unit, loaded, running>>
  BY DEF Restore, pairing, cafiles, store, making, service
<1>2. spoiled' = (spoiled \/ (~backup.made /\ env' \notin {env, old})) /\ left' = (left \/ (out = "fails" /\ cli.cmd = "uninstall"))
  BY DEF Restore
<1>3. spoiled' \in BOOLEAN /\ left' \in BOOLEAN
  <2>1. spoiled' \in BOOLEAN
    BY <1>2
  <2>2. left' \in BOOLEAN
    BY <1>2
  <2> QED BY <2>1, <2>2
<1>4. CliOK /\ PairingOK /\ CAOK /\ WiringOK /\ UnitOK /\ env \in Env /\ backup \in Backup /\ backup.of \in Env
  BY TypeParts DEF IInv, WiringOK, Backup
<1>5. /\ old \in Env /\ (left \/ old.block = "none")
      /\ backup.made => old = backup.of
      /\ ~backup.made => old = Strip(env) /\ Strip(old).before = Strip(env).before
  BY <1>4, StripIs DEF IInv, Copied
<1>6. n \in {0, 1} /\ (backup.made => n = 0) /\ (~backup.made => n = 1)
  OBVIOUS
<1> HIDE DEF old, n
<1>7. AtStep("restore")
  BY <1>1 DEF Runs
<1>8. /\ ~Idle /\ ToGo \in Nat /\ Paired
      /\ \/ cli.cmd = "uninstall" /\ Forward(guard.with) /\ ToGo = 5
         \/ cli.cmd = "repair" /\ ToGo = 2
  BY <1>7, OnlyRestore
<1>9. Ran("restore", out, n) /\ CliOK' /\ version' = version /\ cli'.cmd = cli.cmd /\ cli'.with = cli.with
  <2>1. n = 1 => ToGo > 1
    BY <1>8
  <2> QED BY <1>1, <1>6, <2>1, HasRun DEF Ran
<1>10. /\ env' \in Env
       /\ left \/ env' = env \/ env'.block = "none"
       /\ out = "works" => env' = old
  <2>1. (env' = env \/ env' = old \/ env' \in Parts(old)) /\ (out = "works" => env' = old)
    BY <1>1, AfterIs
  <2> QED BY <1>4, <1>5, <2>1, PartsIs
<1>11. PairingOK' /\ CAOK' /\ WiringOK' /\ UnitOK'
  BY <1>1, <1>3, <1>4, <1>9, <1>10 DEF PairingOK, CAOK, WiringOK, UnitOK, Torn
<1>12. InPlace'
  BY <1>1, <1>6, <1>9, StaysInPlace
<1>13. ~left /\ ~spoiled /\ backup.made /\ env' = old => Kept'
  <2> SUFFICES ASSUME ~left, ~spoiled, backup.made, env' = old
               PROVE  Kept'
    OBVIOUS
  <2>1. owed \subseteq UserLines(old) /\ old.block # "part"
    BY <1>5 DEF IInv, Copied
  <2>2. Strip(old).before = UserLines(old)
    BY <1>5, <2>1, StripIs
  <2>3. Kept' <=> owed' \subseteq Strip(env').before
    BY DEF Kept, Strip, UserLines
  <2> QED BY <1>1, <2>1, <2>2, <2>3
<1>14. Has'
  <2> SUFFICES ASSUME ~Idle'
               PROVE  /\ cli.cmd = "uninstall" => UninstallHas'
                      /\ cli.cmd = "repair" /\ ToGo' = 1 => spoiled' \/ left' \/ Kept'
    BY <1>8, <1>9 DEF Has
  <2>1. /\ \/ out = "works" /\ ToGo' = ToGo - 1 - n
           \/ out = "fails" /\ ~Fatal("restore") /\ ToGo' = ToGo - 2
        /\ ToGo' \in Nat \ {0}
    BY <1>6, <1>9, HowFar
  <2>2. CASE out = "works" /\ backup.made
    <3>1. env' = old /\ ToGo' = ToGo - 1
      BY <1>6, <1>8, <1>10, <2>1, <2>2
    <3>2. spoiled' \/ left' \/ Kept'
      BY <1>2, <1>13, <2>2, <3>1
    <3>3. left' \/ env'.block = "none"
      BY <1>2, <1>5, <3>1
    <3>4. cli.cmd = "uninstall" => ToGo' = 4
      BY <1>8, <3>1
    <3>5. UninstallHas' <=> (Forward(guard'.with) =>
            /\ ToGo' <= 4 => left' \/ env'.block = "none"
            /\ ToGo' = 4 => spoiled' \/ left' \/ Kept'
            /\ ToGo' <= 3 => spoiled' \/ left' \/ ~backup'.made)
      BY DEF UninstallHas, Forward
    <3> QED BY <3>2, <3>3, <3>4, <3>5
  <2>3. CASE out = "works" /\ ~backup.made
    <3>1. env' = old /\ ToGo' = ToGo - 2 /\ ~backup'.made
      BY <1>1, <1>6, <1>8, <1>10, <2>1, <2>3
    <3>2. left' \/ env'.block = "none"
      BY <1>2, <1>5, <3>1
    <3>3. cli.cmd = "uninstall" /\ ToGo' = 3
      BY <1>8, <2>1, <3>1
    <3> QED BY <3>1, <3>2, <3>3 DEF UninstallHas, Forward
  <2>4. CASE out = "fails"
    <3>1. cli.cmd = "uninstall"
      BY <1>8, <2>1, <2>4 DEF Fatal
    <3>2. left'
      BY <1>2, <2>4, <3>1
    <3> QED BY <3>1, <3>2 DEF UninstallHas
  <2> QED BY <2>1, <2>2, <2>3, <2>4
<1>15. Copied'
  <2> SUFFICES ASSUME ~left'
               PROVE  /\ ~spoiled' => IF backup'.made THEN Paired' /\ Forward(guard'.with) /\ owed' \subseteq UserLines(backup'.of)
                                      ELSE Kept'
                      /\ backup'.made => backup'.of.block = "none"
    BY DEF Copied, Forward, UserLines
  <2>1. ~left /\ (~spoiled' => ~spoiled /\ (backup.made \/ env' \in {env, old}))
    BY <1>2
  <2>2. CASE backup.made
    BY <1>1, <2>1, <2>2 DEF IInv, Copied, Paired
  <2>3. CASE ~backup.made
    <3>1. ~spoiled => owed \subseteq Strip(env).before
      BY <2>1, <2>3 DEF IInv, Copied, Kept
    <3>2. env' \in {env, old} => Strip(env').before = Strip(env).before
      BY <1>5, <2>3
    <3>3. Kept' <=> owed' \subseteq Strip(env').before
      BY DEF Kept, Strip, UserLines
    <3> QED BY <1>1, <2>1, <2>3, <3>1, <3>2, <3>3
  <2> QED BY <2>2, <2>3
<1>16. WiredIsServable'
  <2>1. ~left' => ~left
    BY <1>2
  <2> QED BY <1>1, <1>10, <2>1 DEF IInv, WiredIsServable, Paired, CALoads
<1>17. Made'
  BY <1>1 DEF IInv, Made
<1> QED BY <1>9, <1>11, <1>12, <1>14, <1>15, <1>16, <1>17, TypeParts DEF IInv

LEMMA RemoveBackupKeeps == ASSUME IInv, NEW out \in Outcomes, RemoveBackup(out) PROVE IInv'
<1>1. /\ Runs("rmbackup", out, 0) /\ backup' \in After(out, backup, NoBackup, {})
      /\ UNCHANGED <<guard, opaConfig, pairings, ca, trusted, imposed, minting, halved, env, owed, unit, loaded, running, left>>
  BY DEF RemoveBackup, pairing, cafiles, store, making, service
<1>2. spoiled' = (spoiled \/ (out = "fails" /\ cli.cmd = "uninstall"))
  BY DEF RemoveBackup
<1>3. spoiled' \in BOOLEAN
  BY <1>2
<1>4. CliOK /\ PairingOK /\ CAOK /\ WiringOK /\ UnitOK
  BY TypeParts DEF IInv
<1>5. AtStep("rmbackup")
  BY <1>1 DEF Runs
<1>6. /\ ~Idle /\ ToGo \in Nat
      /\ \/ cli.cmd = "uninstall" /\ UninstallHas /\ Forward(guard.with) /\ ToGo = 4
         \/ cli.cmd = "repair" /\ ToGo = 1 /\ (spoiled \/ left \/ Kept)
  BY <1>5, OnlyRestore
<1>7. spoiled \/ left \/ Kept
  BY <1>6 DEF UninstallHas
<1>8. Ran("rmbackup", out, 0) /\ CliOK' /\ version' = version /\ cli'.cmd = cli.cmd /\ cli'.with = cli.with
  BY <1>1, HasRun DEF Ran
<1>9. (backup' = backup \/ backup' = NoBackup) /\ (out = "works" => backup' = NoBackup)
  BY <1>1, AfterIs
<1>10. NoBackup \in Backup /\ ~NoBackup.made
  BY DEF NoBackup, Backup, NoEnv, Env, File
<1>11. PairingOK' /\ CAOK' /\ WiringOK' /\ UnitOK'
  BY <1>1, <1>3, <1>4, <1>8, <1>9, <1>10 DEF PairingOK, CAOK, WiringOK, UnitOK, Torn
<1>12. InPlace'
  BY <1>1, <1>8, StaysInPlace
<1>13. Has'
  <2> SUFFICES ASSUME ~Idle'
               PROVE  cli.cmd = "uninstall" /\ UninstallHas'
    BY <1>8 DEF Has
  <2>1. /\ ToGo' = ToGo - 1 /\ ToGo' \in Nat \ {0} /\ (out = "works" \/ out = "fails")
    BY <1>8, HowFar
  <2>2. cli.cmd = "uninstall" /\ UninstallHas /\ Forward(guard.with) /\ ToGo' = 3
    BY <1>6, <2>1
  <2>3. left \/ env.block = "none"
    BY <1>6, <2>2 DEF UninstallHas
  <2>4. spoiled' \/ ~backup'.made
    BY <1>2, <1>9, <1>10, <2>1, <2>2
  <2> QED BY <1>1, <2>2, <2>3, <2>4 DEF UninstallHas, Forward
<1>14. Copied'
  <2> SUFFICES ASSUME ~left
               PROVE  /\ ~spoiled' => IF backup'.made THEN Paired' /\ Forward(guard'.with) /\ owed' \subseteq UserLines(backup'.of)
                                      ELSE Kept'
                      /\ backup'.made => backup'.of.block = "none"
    BY <1>1 DEF Copied, Forward, UserLines
  <2>1. ~spoiled' => ~spoiled
    BY <1>2
  <2>2. Kept' = Kept /\ Paired' = Paired /\ guard' = guard /\ owed' = owed
    BY <1>1 DEF Kept, Strip, UserLines, Paired
  <2>3. CASE backup' = backup
    BY <2>1, <2>2, <2>3 DEF IInv, Copied
  <2>4. CASE backup' = NoBackup
    BY <1>7, <1>10, <2>1, <2>2, <2>4
  <2> QED BY <1>9, <2>3, <2>4
<1>15. Made' /\ WiredIsServable'
  BY <1>1 DEF IInv, Made, WiredIsServable, Paired, CALoads
<1> QED BY <1>8, <1>11, <1>12, <1>13, <1>14, <1>15, TypeParts DEF IInv

-----------------------------------------------------------------------------
(* The beginnings of the commands.                                         *)

\* A command that is refused changes nothing but what ran last.
LEMMA RefusesKeeps ==
  ASSUME IInv, NEW cmd \in Commands, Refuses(cmd),
         UNCHANGED <<rest, pairing, cafiles, wiring, service, chance, left>>
  PROVE  IInv'
<1>1. /\ cli' = [cmd |-> cmd, with |-> NoOptions, todo |-> <<>>, failed |-> FALSE, raced |-> FALSE, end |-> "refused"]
      /\ UNCHANGED <<system, version, guard, opaConfig, pairings, ca, trusted, imposed, minting, halved, env, backup, owed, spoiled,
                     unit, loaded, running, faults, slipped, left>>
  BY DEF Refuses, rest, pairing, cafiles, store, making, wiring, service, chance
<1>2. NoOptions \in Options /\ <<>> \in Seq(Steps) /\ "refused" \in Endings
  BY DEF NoOptions, Options, Endings
<1>3. cli' \in Cli /\ cli'.end # "running" /\ cli'.todo = <<>>
  BY <1>1, <1>2 DEF Cli
<1>4. CliOK /\ PairingOK /\ CAOK /\ WiringOK /\ UnitOK
  BY TypeParts DEF IInv
<1>5. CliOK' /\ PairingOK' /\ CAOK' /\ WiringOK' /\ UnitOK'
  BY <1>1, <1>3, <1>4 DEF CliOK, PairingOK, CAOK, WiringOK, UnitOK, Torn
<1>6. InPlace' /\ Has'
  BY <1>3 DEF InPlace, Has, Idle
<1> QED BY <1>1, <1>5, <1>6, RestStays, TypeParts DEF IInv

\* A command that begins.
LEMMA BeginsIs ==
  ASSUME IInv, NEW cmd \in Commands, NEW o \in Options, NEW steps \in Seq(Steps), Begins(cmd, o, steps),
         UNCHANGED <<rest, chance>>
  PROVE  /\ CliOK' /\ system' = system /\ version' = version
         /\ cli'.cmd = cmd /\ cli'.with = o /\ cli'.todo = steps /\ ToGo' = Len(steps)
         /\ Suffix(cli'.todo, steps) /\ (~Idle' => Len(steps) # 0)
<1> DEFINE end == IF steps = <<>> THEN "done" ELSE "running"
<1>1. /\ cli' = [cmd |-> cmd, with |-> o, todo |-> steps, failed |-> FALSE, raced |-> FALSE, end |-> end]
      /\ UNCHANGED <<system, version, faults, slipped>>
  BY DEF Begins, rest, chance
<1>2. end \in Endings /\ (end = "running" <=> steps # <<>>)
  BY DEF Endings
<1> HIDE DEF end
<1>3. /\ cli' \in Cli /\ cli'.cmd = cmd /\ cli'.with = o /\ cli'.todo = steps /\ cli'.end = end
      /\ cli'.end = "running" <=> cli'.todo # <<>>
  BY <1>1, <1>2 DEF Cli
<1>4. CliOK
  BY TypeParts DEF IInv
<1>5. CliOK' /\ system' = system /\ version' = version
  BY <1>1, <1>3, <1>4 DEF CliOK
<1>6. ToGo' = Len(steps) /\ (~Idle' => Len(steps) # 0)
  BY <1>2, <1>3, EmptySeq DEF ToGo, Idle
<1> QED BY <1>3, <1>5, <1>6, SuffixWhole

LEMMA InitCommandKeeps == ASSUME IInv, NEW o \in Options, InitCommand(o) PROVE IInv'
<1>1. CASE Refuses("init") /\ owed' = owed
  <2>1. UNCHANGED <<rest, pairing, cafiles, wiring, service, chance, left>>
    BY <1>1 DEF InitCommand, wiring
  <2> QED BY <1>1, <2>1, RefusesKeeps DEF Commands
<1>2. CASE guard.is = "none" /\ pairings < MaxPairings /\ Begins("init", o, InitSteps(o))
           /\ owed' = IF env.block = "none" THEN UserLines(env) ELSE owed
  <2>1. /\ UNCHANGED <<guard, opaConfig, pairings, ca, trusted, imposed, minting, halved, env, backup, spoiled, unit, loaded, running, left>>
        /\ UNCHANGED <<rest, chance>>
    BY DEF InitCommand, pairing, cafiles, store, making, service
  <2>2. /\ InitSteps(o) \in Seq(Steps)
        /\ Len(InitSteps(o)) = IF ~Forward(o) THEN 3 ELSE IF o.inspect THEN 11 ELSE 8
    BY InitStepsIs
  <2>3. /\ CliOK' /\ system' = system /\ version' = version /\ cli'.cmd = "init" /\ cli'.with = o
        /\ Suffix(cli'.todo, InitSteps(o)) /\ ToGo' = IF ~Forward(o) THEN 3 ELSE IF o.inspect THEN 11 ELSE 8
    BY <1>2, <2>1, <2>2, BeginsIs DEF Commands
  <2>4. ~Paired
    BY <1>2 DEF Paired
  <2>5. (left \/ env.block = "none") /\ (spoiled \/ left \/ ~backup.made)
    BY <2>4 DEF IInv, WiredIsServable, Copied
  <2>6. PairingOK /\ CAOK /\ WiringOK /\ UnitOK /\ env \in Env
    BY TypeParts DEF IInv, WiringOK
  <2>7. UserLines(env) \subseteq Lines
    BY <2>6, StripIs
  <2>8. PairingOK' /\ CAOK' /\ WiringOK' /\ UnitOK'
    BY <1>2, <2>1, <2>3, <2>6, <2>7 DEF PairingOK, CAOK, WiringOK, UnitOK, Torn
  <2>9. InPlace'
    <3>1. Program' = InitSteps(o)
      BY <2>3 DEF Program, InitSteps, InstallService, InjectProxy, If
    <3> QED BY <2>3, <3>1 DEF InPlace
  <2>10. Has'
    <3>1. InitHas(cli.with)'
      BY <1>2, <2>1, <2>3, <2>5 DEF InitHas, Forward
    <3> QED BY <2>3, <3>1 DEF Has
  <2>11. Copied'
    <3>1. ~spoiled /\ ~left => Kept'
      <4> SUFFICES ASSUME ~spoiled, ~left
                   PROVE  Kept'
        OBVIOUS
      <4>1. owed' = UserLines(env) /\ env.block # "part"
        BY <1>2, <2>5
      <4>2. Strip(env).before = UserLines(env)
        BY <2>6, <4>1, StripIs
      <4>3. Kept' <=> owed' \subseteq Strip(env').before
        BY DEF Kept, Strip, UserLines
      <4> QED BY <2>1, <4>1, <4>2, <4>3
    <3>2. ~left /\ backup.made => backup.of.block = "none"
      BY DEF IInv, Copied
    <3> QED BY <2>1, <2>5, <3>1, <3>2 DEF Copied
  <2>12. Made' /\ WiredIsServable'
    BY <2>1 DEF IInv, Made, WiredIsServable, Paired, CALoads
  <2> QED BY <2>3, <2>8, <2>9, <2>10, <2>11, <2>12, TypeParts DEF IInv
<1> QED BY <1>1, <1>2 DEF InitCommand

LEMMA AboveFive == \A n \in Nat : n > 5 => ~(n <= 4) /\ n # 4 /\ ~(n <= 3)
OBVIOUS

LEMMA AboveTwo == ~(3 <= 2)
OBVIOUS

\* The other commands begin with nothing done.
LEMMA CommandBegins ==
  ASSUME IInv, NEW cmd \in Commands \ {"none", "init"}, NEW steps \in Seq(Steps), Begins(cmd, NoOptions, steps),
         UNCHANGED <<rest, pairing, cafiles, wiring, service, chance, left>>,
         cmd \in {"uninstall", "repair"} => Paired,
         cmd = "uninstall" => steps = UninstallSteps(guard.with),
         cmd = "repair" => steps = RestoreEnv \/ steps = <<>>,
         cmd \in {"update", "service install"} => steps = InstallService,
         cmd = "service uninstall" => steps = UninstallService
  PROVE  IInv'
<1>1. UNCHANGED <<guard, opaConfig, pairings, ca, trusted, imposed, minting, halved, env, backup, owed, spoiled, unit, loaded, running, left>>
  BY DEF pairing, cafiles, store, making, wiring, service
<1>2. NoOptions \in Options /\ guard.with \in Options
  BY TypeParts DEF IInv, PairingOK, Guard, NoOptions, Options
<1>3. /\ CliOK' /\ system' = system /\ version' = version /\ cli'.cmd = cmd /\ cli'.todo = steps /\ ToGo' = Len(steps)
      /\ Suffix(cli'.todo, steps) /\ (~Idle' => Len(steps) # 0)
  BY <1>2, BeginsIs
<1>4. PairingOK /\ CAOK /\ WiringOK /\ UnitOK
  BY TypeParts DEF IInv
<1>5. PairingOK' /\ CAOK' /\ WiringOK' /\ UnitOK'
  BY <1>1, <1>3, <1>4 DEF PairingOK, CAOK, WiringOK, UnitOK, Torn
<1>6. InPlace' /\ Has'
  <2> SUFFICES ASSUME ~Idle'
               PROVE  InPlace' /\ Has'
    BY DEF InPlace, Has
  <2>1. steps # <<>>
    BY <1>3
  <2>2. CASE cmd = "uninstall"
    <3>1. Program' = steps
      BY <1>1, <1>3, <2>2 DEF Program, UninstallSteps, UninstallService, RestoreEnv, If
    <3>2. Len(steps) > (IF Forward(guard.with) THEN 5 ELSE 3) /\ Len(steps) \in Nat
      BY <1>2, <2>2, UninstallStepsIs
    <3>3. UninstallHas'
      <4> SUFFICES ASSUME Forward(guard.with)
                   PROVE  ~(ToGo' <= 4) /\ ToGo' # 4 /\ ~(ToGo' <= 3)
        BY <1>1 DEF UninstallHas, Forward
      <4>1. Len(steps) > 5
        BY <3>2
      <4>2. ~(Len(steps) <= 4) /\ Len(steps) # 4 /\ ~(Len(steps) <= 3)
        BY <3>2, <4>1, AboveFive
      <4> QED BY <1>3, <4>2
    <3>4. Paired'
      BY <1>1, <2>2 DEF Paired
    <3> QED BY <1>3, <2>2, <3>1, <3>3, <3>4 DEF InPlace, Has
  <2>3. CASE cmd = "repair"
    <3>1. Program' = RestoreEnv /\ steps = RestoreEnv
      BY <1>3, <2>1, <2>3 DEF Program, RestoreEnv
    <3>2. ToGo' = 2
      BY <1>3, <3>1, RestoreEnvIs
    <3>3. Paired'
      BY <1>1, <2>3 DEF Paired
    <3>4. InPlace'
      BY <1>3, <3>1, <3>3 DEF InPlace
    <3>5. Has'
      BY <1>3, <2>3, <3>2 DEF Has
    <3> QED BY <3>4, <3>5
  <2>4. CASE cmd \in {"update", "service install"}
    <3>1. Program' = steps
      BY <1>3, <2>4 DEF Program, InstallService
    <3>2. ToGo' = 3
      BY <1>3, <2>4, InstallServiceIs
    <3>3. InPlace'
      BY <1>3, <2>4, <3>1 DEF InPlace
    <3>4. ~(ToGo' <= 2)
      BY <3>2, AboveTwo
    <3>5. Has'
      BY <1>3, <2>4, <3>4 DEF Has
    <3> QED BY <3>3, <3>5
  <2>5. CASE cmd = "service uninstall"
    <3>1. Program' = steps
      BY <1>3, <2>5 DEF Program, UninstallService, If
    <3> QED BY <1>3, <2>5, <3>1 DEF InPlace, Has
  <2> QED BY <2>2, <2>3, <2>4, <2>5 DEF Commands
<1> QED BY <1>1, <1>3, <1>5, <1>6, RestStays, TypeParts DEF IInv

LEMMA CommandKeeps == ASSUME IInv, Command PROVE IInv'
<1>1. UNCHANGED <<rest, pairing, cafiles, wiring, service, chance, left>>
  BY DEF Command
<1>2. guard.with \in Options /\ <<>> \in Seq(Steps)
  BY TypeParts DEF IInv, PairingOK, Guard
<1>3. ASSUME NEW cmd \in {"uninstall", "repair", "update"}, Refuses(cmd)
      PROVE  IInv'
  BY <1>1, <1>3, RefusesKeeps DEF Commands
<1>4. CASE Paired /\ Begins("uninstall", NoOptions, UninstallSteps(guard.with))
  BY <1>1, <1>2, <1>4, UninstallStepsIs, CommandBegins DEF Commands
<1>5. CASE Paired /\ Begins("repair", NoOptions, If(guard.with.mode = "forward", RestoreEnv))
  <2> DEFINE steps == If(guard.with.mode = "forward", RestoreEnv)
  <2>1. steps = RestoreEnv \/ steps = <<>>
    BY DEF If
  <2>2. steps \in Seq(Steps)
    BY <1>2, <2>1, RestoreEnvIs
  <2> HIDE DEF steps
  <2>3. Begins("repair", NoOptions, steps) /\ Paired
    BY <1>5 DEF steps
  <2> QED BY <1>1, <2>1, <2>2, <2>3, CommandBegins DEF Commands
<1>6. CASE Begins("update", NoOptions, InstallService)
  BY <1>1, <1>6, InstallServiceIs, CommandBegins DEF Commands
<1>7. CASE Begins("service install", NoOptions, InstallService)
  BY <1>1, <1>7, InstallServiceIs, CommandBegins DEF Commands
<1>8. CASE Begins("service uninstall", NoOptions, UninstallService)
  BY <1>1, <1>8, UninstallServiceIs, CommandBegins DEF Commands
<1> QED BY <1>3, <1>4, <1>5, <1>6, <1>7, <1>8 DEF Command

-----------------------------------------------------------------------------
(* What happens beside the commands.                                       *)

LEMMA MakeCertKeeps == ASSUME IInv, MakeCert PROVE IInv'
<1> DEFINE new == [ca EXCEPT !.crt = "whole", !.made = ca.made + 1]
           part == [ca EXCEPT !.crt = "part"]
<1>1. /\ ca.crt = "none" /\ running # 0 /\ cli' = [cli EXCEPT !.raced = @ \/ ~Idle]
      /\ UNCHANGED <<system, version, guard, opaConfig, pairings, trusted, imposed, halved, env, backup, owed, spoiled,
                     unit, loaded, running, slipped, left>>
  BY DEF MakeCert, rest, pairing, store, wiring, service
<1>2. \/ ca' = new /\ minting' = TRUE /\ faults' = faults
      \/ faults < MaxFaults /\ faults' = faults + 1 /\ ca' = part /\ minting' = minting
  BY DEF MakeCert
<1>3. CliOK /\ PairingOK /\ CAOK /\ WiringOK /\ UnitOK /\ cli \in Cli
  BY TypeParts DEF IInv, CliOK
<1>4. /\ cli' \in Cli /\ cli'.cmd = cli.cmd /\ cli'.with = cli.with /\ cli'.todo = cli.todo /\ cli'.end = cli.end
      /\ faults' \in 0 .. MaxFaults
  <2>1. faults' \in 0 .. MaxFaults
    BY <1>2, <1>3, BoundsAssumption DEF CliOK
  <2>2. cli.raced \in BOOLEAN /\ (cli.raced \/ ~Idle) \in BOOLEAN
    BY <1>3 DEF Cli
  <2> QED BY <1>1, <1>3, <2>1, <2>2 DEF Cli
<1>5. ca' \in CAFiles /\ ca'.made >= ca.made /\ ca.made \in Nat /\ ca'.made \in Nat /\ (ca'.crt = "whole" => ca'.made > 0)
  <2>1. /\ ca \in CAFiles /\ ca.made \in Nat
        /\ new \in CAFiles /\ new.made = ca.made + 1
        /\ part \in CAFiles /\ part.made = ca.made /\ part.crt = "part"
    BY CATypes DEF CAFiles
  <2> HIDE DEF new, part
  <2>2. ca' = new \/ ca' = part
    BY <1>2
  <2> QED BY <2>1, <2>2
<1> HIDE DEF new, part
<1>6. CAOK'
  <2>1. 1 .. ca.made \subseteq 1 .. ca'.made
    BY <1>5
  <2>2. minting' \in BOOLEAN
    BY <1>2, <1>3 DEF CAOK
  <2> QED BY <1>1, <1>3, <1>5, <2>1, <2>2 DEF CAOK
<1>7. CliOK' /\ PairingOK' /\ WiringOK' /\ UnitOK'
  BY <1>1, <1>3, <1>4 DEF CliOK, PairingOK, WiringOK, UnitOK, Torn
<1>8. Idle' = Idle /\ ToGo' = ToGo /\ Program' = Program /\ Paired' = Paired
  BY <1>1, <1>4 DEF Idle, ToGo, Program, Paired, InitSteps, UninstallSteps, InstallService, UninstallService,
                    RestoreEnv, InjectProxy, If
<1>9. InPlace'
  BY <1>4, <1>8 DEF IInv, InPlace
<1>10. Has'
  <2> SUFFICES ASSUME ~Idle'
               PROVE  /\ cli'.cmd = "init" => InitHas(cli.with)'
                      /\ cli'.cmd = "uninstall" => UninstallHas'
                      /\ cli'.cmd = "repair" /\ ToGo' = 1 => spoiled' \/ left' \/ Kept'
                      /\ cli'.cmd \in {"update", "service install"} /\ ToGo' <= 2 => unit' = version'
    BY DEF Has
  <2>1. ToGo \in Nat
    BY <1>3 DEF Cli, ToGo
  <2>2. ASSUME cli'.cmd = "init"
        PROVE  InitHas(cli.with)'
    <3>1. InitHas(cli.with)
      BY <1>4, <1>8, <2>2 DEF IInv, Has
    <3>2. ~(Forward(cli.with) /\ cli.with.inspect /\ ToGo <= 7)
      BY <1>1, <3>1 DEF InitHas
    <3>3. ~(Forward(cli.with) /\ cli.with.inspect /\ ToGo <= 6)
      BY <2>1, <3>2
    <3> QED BY <1>1, <1>4, <1>8, <3>1, <3>2, <3>3 DEF InitHas, Forward
  <2>3. UninstallHas => UninstallHas'
    BY <1>1, <1>8 DEF UninstallHas, Forward, Kept, Strip, UserLines
  <2>4. Kept' = Kept
    BY <1>1 DEF Kept, Strip, UserLines
  <2> QED BY <1>1, <1>4, <1>8, <2>2, <2>3, <2>4 DEF IInv, Has
<1>11. Copied'
  BY <1>1 DEF IInv, Copied, Paired, Forward, Kept, Strip, UserLines
<1>12. Made' /\ WiredIsServable'
  <2>1. ~CALoads
    BY <1>1 DEF CALoads
  <2> QED BY <1>1, <1>5, <2>1 DEF IInv, Made, WiredIsServable, Paired
<1> QED BY <1>6, <1>7, <1>9, <1>10, <1>11, <1>12, TypeParts DEF IInv

LEMMA MakeKeyKeeps == ASSUME IInv, MakeKey PROVE IInv'
<1> DEFINE new == [ca EXCEPT !.key = "whole"]
           part == [ca EXCEPT !.key = "part"]
<1>1. /\ minting' = FALSE
      /\ UNCHANGED <<system, version, cli, guard, opaConfig, pairings, trusted, imposed, env, backup, owed, spoiled,
                     unit, loaded, running, slipped, left>>
  BY DEF MakeKey, rest, pairing, store, wiring, service
<1>2. \/ ca' = new /\ faults' = faults /\ halved' = halved
      \/ /\ faults < MaxFaults /\ faults' = faults + 1 /\ (ca' = ca \/ ca' = part)
         /\ halved' = (halved \/ ca.key = "whole")
  BY DEF MakeKey
<1>3. CliOK /\ PairingOK /\ CAOK /\ WiringOK /\ UnitOK /\ ca \in CAFiles
  BY TypeParts DEF IInv, CAOK
<1>4. faults' \in 0 .. MaxFaults /\ halved' \in BOOLEAN
  <2>1. faults' \in 0 .. MaxFaults
    BY <1>2, <1>3, BoundsAssumption DEF CliOK
  <2>2. (halved \/ ca.key = "whole") \in BOOLEAN
    OBVIOUS
  <2>3. halved' \in BOOLEAN
    BY <1>2, <1>3, <2>2 DEF CAOK
  <2> QED BY <2>1, <2>3
<1>5. /\ ca' \in CAFiles /\ ca'.made = ca.made /\ ca'.crt = ca.crt
      /\ ca.key = "whole" => halved' \/ ca'.key = "whole"
  <2>1. /\ new \in CAFiles /\ new.made = ca.made /\ new.crt = ca.crt /\ new.key = "whole"
        /\ part \in CAFiles /\ part.made = ca.made /\ part.crt = ca.crt
    BY <1>3, CATypes DEF CAFiles
  <2> HIDE DEF new, part
  <2> QED BY <1>2, <1>3, <2>1
<1>6. halved => halved'
  BY <1>2
<1> HIDE DEF new, part
<1>7. CliOK' /\ PairingOK' /\ CAOK' /\ WiringOK' /\ UnitOK'
  BY <1>1, <1>3, <1>4, <1>5 DEF CliOK, PairingOK, CAOK, WiringOK, UnitOK, Torn
<1>8. InPlace'
  BY <1>1 DEF IInv, InPlace, Idle, Program, Paired, InitSteps, UninstallSteps, InstallService, UninstallService,
              RestoreEnv, InjectProxy, If
<1>9. Has'
  <2>1. InitHas(cli.with) => InitHas(cli.with)'
    BY <1>1, <1>5, <1>6 DEF InitHas, ToGo, Forward
  <2>2. UninstallHas => UninstallHas'
    BY <1>1 DEF UninstallHas, ToGo, Forward, Kept, Strip, UserLines
  <2>3. Kept' = Kept /\ Idle' = Idle /\ ToGo' = ToGo
    BY <1>1 DEF Kept, Strip, UserLines, Idle, ToGo
  <2> QED BY <1>1, <2>1, <2>2, <2>3 DEF IInv, Has
<1>10. Copied'
  BY <1>1 DEF IInv, Copied, Paired, Forward, Kept, Strip, UserLines
<1>11. Made'
  BY <1>5 DEF IInv, Made
<1>12. WiredIsServable'
  BY <1>1, <1>5, <1>6 DEF IInv, WiredIsServable, Paired, CALoads
<1> QED BY <1>7, <1>8, <1>9, <1>10, <1>11, <1>12, TypeParts DEF IInv

LEMMA RunTransparentKeeps == ASSUME IInv, RunTransparent PROVE IInv'
<1> DEFINE new == [crt |-> "whole", key |-> "whole", made |-> ca.made + 1]
<1>1. /\ Idle /\ guard.with.mode = "transparent"
      /\ UNCHANGED <<system, version, cli, guard, opaConfig, pairings, minting, halved, env, backup, owed, spoiled,
                     unit, loaded, running, faults, slipped, left>>
  BY DEF RunTransparent, rest, pairing, making, wiring, service, chance
<1>2. (CALoads /\ ca' = ca) \/ ca' = new
  BY DEF RunTransparent
<1>3. \/ trusted' = trusted /\ imposed' = imposed
      \/ trusted' = {ca'.made} /\ imposed' \in BOOLEAN
  <2>1. CASE UNCHANGED store
    BY <2>1 DEF store
  <2>2. CASE trusted' = {ca'.made} /\ imposed' = (imposed \/ ~guard.with.inspect)
    <3>1. imposed' \in BOOLEAN
      BY <2>2
    <3> QED BY <2>2, <3>1
  <2> QED BY <2>1, <2>2 DEF RunTransparent
<1>4. CliOK /\ PairingOK /\ CAOK /\ WiringOK /\ UnitOK
  BY TypeParts DEF IInv
<1>5. ca' \in CAFiles /\ ca'.made >= ca.made /\ ca.made \in Nat /\ ca'.made \in Nat /\ ca'.made > 0
  <2>1. ca \in CAFiles /\ ca.made \in Nat /\ new \in CAFiles /\ new.made = ca.made + 1
    BY CATypes
  <2>2. CALoads => ca.made > 0
    BY DEF IInv, Made, CALoads
  <2> HIDE DEF new
  <2> QED BY <1>2, <2>1, <2>2
<1> HIDE DEF new
<1>6. CAOK'
  <2>1. 1 .. ca.made \subseteq 1 .. ca'.made /\ {ca'.made} \subseteq 1 .. ca'.made
    BY <1>5
  <2> QED BY <1>1, <1>3, <1>4, <1>5, <2>1 DEF CAOK
<1>7. CliOK' /\ PairingOK' /\ WiringOK' /\ UnitOK'
  BY <1>1, <1>4 DEF CliOK, PairingOK, WiringOK, UnitOK, Torn
<1>8. InPlace' /\ Has'
  BY <1>1 DEF InPlace, Has, Idle
<1>9. Copied'
  BY <1>1 DEF IInv, Copied, Paired, Forward, Kept, Strip, UserLines
<1>10. Made' /\ WiredIsServable'
  BY <1>1, <1>5 DEF IInv, Made, WiredIsServable
<1> QED BY <1>6, <1>7, <1>8, <1>9, <1>10, TypeParts DEF IInv

LEMMA AddLineKeeps == ASSUME IInv, NEW l \in Lines, AddLine(l) PROVE IInv'
<1> DEFINE first == [env EXCEPT !.before = env.before \cup {l}]
           last == [env EXCEPT !.after = env.after \cup {l}]
<1>1. /\ Idle /\ env' = IF env.block = "none" THEN first ELSE last
      /\ UNCHANGED <<system, version, cli, guard, opaConfig, pairings, ca, trusted, imposed, minting, halved, backup, owed, spoiled,
                     unit, loaded, running, faults, slipped, left>>
  BY DEF AddLine, rest, pairing, cafiles, store, making, service, chance
<1>2. CliOK /\ PairingOK /\ CAOK /\ WiringOK /\ UnitOK /\ env \in Env
  BY TypeParts DEF IInv, WiringOK
<1>3. /\ first \in Env /\ first.before = env.before \cup {l} /\ first.after = env.after /\ first.block = env.block
      /\ last \in Env /\ last.before = env.before /\ last.after = env.after \cup {l} /\ last.block = env.block
  BY <1>2 DEF Env
<1> HIDE DEF first, last
<1>4. env' \in Env /\ env'.block = env.block /\ env.before \subseteq env'.before /\ env.after \subseteq env'.after
  BY <1>1, <1>3
<1>5. CliOK' /\ PairingOK' /\ CAOK' /\ WiringOK' /\ UnitOK'
  BY <1>1, <1>2, <1>4 DEF CliOK, PairingOK, CAOK, WiringOK, UnitOK, Torn
<1>6. InPlace' /\ Has'
  BY <1>1 DEF InPlace, Has, Idle
<1>7. Kept => Kept'
  <2>1. Strip(env).before \subseteq Strip(env').before
    <3>1. Strip(env).before = IF env.block = "part" THEN env.before ELSE env.before \cup env.after
      BY DEF Strip, NoEnv, UserLines
    <3>2. Strip(env').before = IF env'.block = "part" THEN env'.before ELSE env'.before \cup env'.after
      BY DEF Strip, NoEnv, UserLines
    <3> QED BY <1>4, <3>1, <3>2
  <2>2. Kept' <=> owed' \subseteq Strip(env').before
    BY DEF Kept, Strip, UserLines
  <2> QED BY <1>1, <2>1, <2>2 DEF Kept
<1>8. Copied'
  BY <1>1, <1>7 DEF IInv, Copied, Paired, Forward, UserLines
<1>9. Made' /\ WiredIsServable'
  BY <1>1, <1>4 DEF IInv, Made, WiredIsServable, Paired, CALoads
<1> QED BY <1>5, <1>6, <1>8, <1>9, TypeParts DEF IInv

LEMMA RespawnKeeps == ASSUME IInv, Respawn PROVE IInv'
<1>1. /\ running' = loaded
      /\ UNCHANGED <<system, version, cli, guard, opaConfig, pairings, ca, trusted, imposed, halved, env, backup, owed, spoiled,
                     unit, loaded, faults, slipped, left>>
      /\ minting' \in BOOLEAN /\ (minting' => minting /\ running' = running)
  BY DEF Respawn, Interrupts, rest, pairing, store, wiring, chance
<1>2. CliOK /\ PairingOK /\ CAOK /\ WiringOK /\ UnitOK
  BY TypeParts DEF IInv
<1>3. CliOK' /\ PairingOK' /\ CAOK' /\ WiringOK' /\ UnitOK'
  BY <1>1, <1>2 DEF CliOK, PairingOK, CAOK, WiringOK, UnitOK, Torn
<1>4. InPlace'
  BY <1>1 DEF IInv, InPlace, Idle, Program, Paired, InitSteps, UninstallSteps, InstallService, UninstallService,
              RestoreEnv, InjectProxy, If
<1>5. Has'
  BY <1>1 DEF IInv, Has, Idle, InitHas, UninstallHas, ToGo, Forward, Kept, Strip, UserLines
<1> QED BY <1>1, <1>3, <1>4, <1>5, RestStays, TypeParts DEF IInv

LEMMA UpgradeKeeps == ASSUME IInv, Upgrade PROVE IInv'
<1>1. /\ Idle /\ version < MaxVersions /\ version' = version + 1
      /\ UNCHANGED <<system, cli, guard, opaConfig, pairings, ca, trusted, imposed, minting, halved, env, backup, owed, spoiled,
                     unit, loaded, running, faults, slipped, left>>
  BY DEF Upgrade, pairing, cafiles, store, making, wiring, service, chance
<1>2. CliOK /\ PairingOK /\ CAOK /\ WiringOK /\ UnitOK
  BY TypeParts DEF IInv
<1>3. CliOK' /\ 0 .. version \subseteq 0 .. version'
  BY <1>1, <1>2, BoundsAssumption DEF CliOK
<1>4. PairingOK' /\ CAOK' /\ WiringOK' /\ UnitOK'
  BY <1>1, <1>2, <1>3 DEF PairingOK, CAOK, WiringOK, UnitOK, Torn
<1>5. InPlace' /\ Has'
  BY <1>1 DEF InPlace, Has, Idle
<1> QED BY <1>1, <1>3, <1>4, <1>5, RestStays, TypeParts DEF IInv

LEMMA StutterKeeps == ASSUME IInv, UNCHANGED vars PROVE IInv'
<1>1. UNCHANGED <<system, version, cli, guard, opaConfig, pairings, ca, trusted, imposed, minting, halved, env, backup, owed, spoiled,
                  unit, loaded, running, faults, slipped, left>>
  BY DEF vars, rest, pairing, cafiles, store, making, wiring, service, chance
<1>2. CliOK /\ PairingOK /\ CAOK /\ WiringOK /\ UnitOK
  BY TypeParts DEF IInv
<1>3. CliOK' /\ PairingOK' /\ CAOK' /\ WiringOK' /\ UnitOK'
  BY <1>1, <1>2 DEF CliOK, PairingOK, CAOK, WiringOK, UnitOK, Torn
<1>4. InPlace'
  BY <1>1 DEF IInv, InPlace, Idle, Program, Paired, InitSteps, UninstallSteps, InstallService, UninstallService,
              RestoreEnv, InjectProxy, If
<1>5. Has'
  BY <1>1 DEF IInv, Has, Idle, InitHas, UninstallHas, ToGo, Forward, Kept, Strip, UserLines
<1> QED BY <1>1, <1>3, <1>4, <1>5, RestStays, TypeParts DEF IInv

-----------------------------------------------------------------------------
(* Theorems.                                                               *)

LEMMA InitHolds == Init => IInv
<1> SUFFICES ASSUME Init
             PROVE  IInv
  OBVIOUS
<1>1. PICK s \in SUBSET Lines : env = [before |-> s, block |-> "none", after |-> {}]
  BY DEF Init, NoEnv
<1>2. /\ system \in Systems /\ cli = [cmd |-> "none", with |-> NoOptions, todo |-> <<>>, end |-> "done", failed |-> FALSE, raced |-> FALSE]
      /\ guard = NoGuard /\ opaConfig = "none" /\ pairings = 0 /\ ca = [crt |-> "none", key |-> "none", made |-> 0]
      /\ trusted = {} /\ backup = NoBackup /\ unit = 0 /\ loaded = 0 /\ running = 0 /\ version = 1 /\ faults = 0
      /\ owed = {} /\ spoiled = FALSE /\ left = FALSE /\ slipped = FALSE /\ imposed = FALSE
      /\ minting = FALSE /\ halved = FALSE
  BY DEF Init
<1>3. NoOptions \in Options /\ <<>> \in Seq(Steps) /\ Idle
  BY <1>2 DEF NoOptions, Options, Idle
<1>4. CliOK
  <2>1. cli \in Cli /\ (cli.end = "running" <=> cli.todo # <<>>)
    BY <1>2, <1>3 DEF Cli, Commands, Endings
  <2>2. version \in 1 .. MaxVersions /\ faults \in 0 .. MaxFaults /\ slipped \in BOOLEAN
    <3>1. 1 \in 1 .. MaxVersions /\ 0 \in 0 .. MaxFaults
      BY BoundsAssumption
    <3> QED BY <1>2, <3>1
  <2> QED BY <1>2, <2>1, <2>2 DEF CliOK
<1>5. PairingOK /\ CAOK /\ WiringOK
  <2>1. PairingOK
    BY <1>2, <1>3, BoundsAssumption DEF PairingOK, Guard, NoGuard, File
  <2>2. CAOK
    BY <1>2 DEF CAOK, CAFiles, File
  <2>3. env \in Env
    BY <1>1 DEF Env, File
  <2>4. backup \in Backup
    BY <1>2 DEF Backup, NoBackup, NoEnv, Env, File
  <2> QED BY <1>2, <2>1, <2>2, <2>3, <2>4 DEF WiringOK
<1>6. UnitOK
  BY <1>2, BoundsAssumption DEF UnitOK, Torn
<1>7. InPlace /\ Has
  BY <1>3 DEF InPlace, Has
<1>8. Copied /\ Made /\ WiredIsServable
  BY <1>1, <1>2 DEF Copied, Kept, NoBackup, Made, WiredIsServable
<1> QED BY <1>4, <1>5, <1>6, <1>7, <1>8, TypeParts DEF IInv

LEMMA StepKeeps == ASSUME IInv, NEW out \in Outcomes, Step(out) PROVE IInv'
BY ClaimKeeps, SaveGuardKeeps, RenderConfigKeeps, WriteCertKeeps, WriteKeyKeeps, TrustKeeps, BackUpKeeps, InjectKeeps,
   ServiceKeeps, DistrustKeeps, RestoreKeeps, RemoveBackupKeeps, RemoveCAKeeps, RemoveOPAConfigKeeps, RemoveGuardKeeps
   DEF Step

LEMMA NextKeeps == IInv /\ [Next]_vars => IInv'
<1> SUFFICES ASSUME IInv, [Next]_vars
             PROVE  IInv'
  OBVIOUS
<1>1. ASSUME NEW o \in Options, InitCommand(o)
      PROVE  IInv'
  BY <1>1, InitCommandKeeps
<1>2. ASSUME NEW out \in Outcomes, Step(out)
      PROVE  IInv'
  BY <1>2, StepKeeps
<1>3. ASSUME NEW l \in Lines, AddLine(l)
      PROVE  IInv'
  BY <1>3, AddLineKeeps
<1> QED BY <1>1, <1>2, <1>3, CommandKeeps, CANotLoadedKeeps, MakeCertKeeps, MakeKeyKeeps, RunTransparentKeeps, StopInVainKeeps,
           RespawnKeeps, UpgradeKeeps, StutterKeeps DEF Next

LEMMA Invariant == Spec => []IInv
BY InitHolds, NextKeeps, PTL DEF Spec

\* The commands keep the types of what they share, at any step that fails or is killed.
THEOREM TypeCorrect == Spec => []TypeOK
<1>1. IInv => TypeOK
  BY DEF IInv
<1> QED BY <1>1, Invariant, PTL

\* OpenClaw is never pointed at a guard that cannot start (main.go:155-198, 396-419).
THEOREM WiredServes == Spec => []WiredIsServable
<1>1. IInv => WiredIsServable
  BY DEF IInv
<1> QED BY <1>1, Invariant, PTL

\* The lines the user had when the guard was wired are in the service-env or in
\* its copy (wiring.go:28-30, 71).
THEOREM LinesAreKept == Spec => []LinesKept
<1>1. IInv => LinesKept
  <2> SUFFICES ASSUME IInv
               PROVE  LinesKept
    OBVIOUS
  <2>1. Strip(env).before \subseteq UserLines(env)
    BY TypeParts, StripIs DEF IInv, WiringOK
  <2> QED BY <2>1 DEF IInv, Copied, Kept, LinesKept
<1> QED BY <1>1, Invariant, PTL
=============================================================================
