-------------------------- MODULE SupervisorProofs --------------------------
(***************************************************************************)
(* Proofs about Supervisor, for any number of foreground guards, pairings  *)
(* and faults, and for any times.                                          *)
(***************************************************************************)
EXTENDS Supervisor, TLAPS

GuardType == [at : {"off", "waiting", "serving"}, cfg : Configs, ended : BOOLEAN, waited : 0 .. Patience]

SupType == [at : {"off", "start", "running", "pause"}, backoff : 1 .. Longest,
            left : 0 .. Longest, ran : 0 .. LongRun + 1]

LEMMA TypeParts ==
  TypeOK <=> /\ paired \in {0, claims} /\ claims \in Configs
             /\ guard \in [Guards -> GuardType] /\ sup \in [Guards -> SupType]
             /\ child \in [Guards -> Engines \cup {NoEngine}] /\ orphans \subseteq Engines
             /\ down \in 0 .. Outage(MaxFaults) + 1 /\ steady \in BOOLEAN /\ outlived \in BOOLEAN
             /\ faults \in 0 .. MaxFaults /\ early \in 0 .. faults
BY DEF TypeOK, GuardType, SupType

LEMMA Times ==
  /\ Longest \in Nat /\ 1 \in 1 .. Longest /\ 0 \in 0 .. LongRun + 1 /\ 0 \in 0 .. Patience
  /\ \A b \in 1 .. Longest : Doubled(b) \in 1 .. Longest
BY TimesAssumption DEF Longest, Doubled

\* One more engine that never has the port adds a pause of the longest backoff.
LEMMA Outages ==
  /\ \A n \in Nat : Outage(n) \in Nat /\ Outage(n + 1) = Outage(n) + Longest
  /\ \A n \in Nat : Longest <= Outage(n) /\ 1 <= Outage(n)
  /\ \A m, n \in Nat : m <= n => Outage(m) <= Outage(n)
<1>0. Longest \in Nat /\ 1 <= Longest
  BY Times
<1> DEFINE L == Longest
<1>1. Outage(0) = L
  BY <1>0 DEF Outage
<1>2. ASSUME NEW n \in Nat PROVE Outage(n) = L + n * L /\ n * L \in Nat /\ (n + 1) * L = n * L + L
  BY <1>0 DEF Outage
<1>3. ASSUME NEW m \in Nat, NEW n \in Nat, m <= n PROVE Outage(m) <= Outage(n)
  <2>1. PICK k \in Nat : n = m + k
    BY <1>3
  <2>2. n * L = m * L + k * L /\ k * L \in Nat
    BY <1>0, <2>1
  <2> QED BY <1>0, <1>2, <2>2
<1>4. ASSUME NEW n \in Nat PROVE Outage(n) \in Nat /\ Outage(n + 1) = Outage(n) + L
  BY <1>0, <1>2 DEF Outage
<1>5. ASSUME NEW n \in Nat PROVE L <= Outage(n) /\ 1 <= Outage(n)
  BY <1>0, <1>2
<1> QED BY <1>3, <1>4, <1>5

LEMMA Blank == Off \in GuardType /\ NoSup \in SupType /\ 0 \in Configs /\ Service \in Guards
BY Times, BoundsAssumption DEF Off, NoSup, GuardType, SupType, Configs, Guards

LEMMA EndsType ==
  ASSUME TypeOK, NEW g \in Guards, Ends(g)
  PROVE  /\ guard' \in [Guards -> GuardType] /\ sup' \in [Guards -> SupType]
         /\ child' \in [Guards -> Engines \cup {NoEngine}] /\ orphans' \subseteq Engines
         /\ outlived' \in BOOLEAN
<1>1. child[g] \in Engines \/ child[g] = NoEngine
  BY TypeParts
<1> QED BY <1>1, Blank, TypeParts DEF Ends, HasChild

LEMMA ChildEndsType ==
  ASSUME TypeOK, NEW g \in Guards, NEW n \in Nat, ChildEnds(g, n)
  PROVE  /\ sup' \in [Guards -> SupType] /\ steady' \in BOOLEAN /\ early' \in {early, n}
         /\ child' \in [Guards -> Engines \cup {NoEngine}]
<1>1. sup[g] \in SupType
  BY TypeParts
<1>2. BackoffAfter(g) \in 1 .. Longest /\ BackoffAfter(g) \in 0 .. Longest
  BY <1>1, Times DEF BackoffAfter, SupType
<1>3. [at |-> "pause", backoff |-> BackoffAfter(g), left |-> BackoffAfter(g), ran |-> 0] \in SupType
  BY <1>2, Times DEF SupType
<1>4. sup' \in [Guards -> SupType] /\ child' \in [Guards -> Engines \cup {NoEngine}]
  BY <1>3, TypeParts DEF ChildEnds
<1>5. (sup[g].ran > LongRun) \in BOOLEAN
  OBVIOUS
<1>6. steady' \in BOOLEAN
  BY <1>5, TypeParts, Zenon DEF ChildEnds
<1> QED BY <1>4, <1>6 DEF ChildEnds

LEMMA TypeInit == Init => TypeOK
<1> SUFFICES ASSUME Init PROVE TypeOK
  OBVIOUS
<1>1. guard \in [Guards -> GuardType] /\ sup \in [Guards -> SupType]
  BY Blank DEF Init
<1>2. child \in [Guards -> Engines \cup {NoEngine}] /\ orphans \subseteq Engines
  BY DEF Init
<1>3. 0 \in 0 .. Outage(MaxFaults) + 1 /\ 0 \in 0 .. MaxFaults /\ 0 \in 0 .. 0
  BY Outages, BoundsAssumption
<1> QED BY <1>1, <1>2, <1>3, Blank, TypeParts DEF Init

LEMMA TypeStep == TypeOK /\ [Next]_vars => TypeOK'
<1> SUFFICES ASSUME TypeOK, [Next]_vars PROVE TypeOK'
  OBVIOUS
<1> USE TypeParts
<1>1. ASSUME NEW g \in Guards, Start(g) PROVE TypeOK'
  <2>1. [Off EXCEPT !.at = "waiting", !.cfg = paired] \in GuardType
    BY Blank DEF GuardType, Off
  <2>2. [NoSup EXCEPT !.at = "start"] \in SupType
    BY Blank DEF SupType, NoSup
  <2> QED BY <1>1, <2>1, <2>2 DEF Start, history, TypeOK, GuardType, SupType
<1>2. ASSUME NEW g \in Guards, Signal(g) PROVE TypeOK'
  <2>1. [guard[g] EXCEPT !.ended = TRUE] \in GuardType
    BY DEF GuardType
  <2>2. guard' \in [Guards -> GuardType]
    BY <1>2, <2>1 DEF Signal
  <2>3. faults' \in 0 .. MaxFaults /\ early \in 0 .. faults'
    BY <1>2, BoundsAssumption DEF Signal, Fault
  <2> QED BY <1>2, <2>2, <2>3 DEF Signal, history, TypeOK, GuardType, SupType
<1>3. ASSUME NEW g \in Guards, Healthy(g) PROVE TypeOK'
  <2>1. [[guard[g] EXCEPT !.at = "serving"] EXCEPT !.waited = 0] \in GuardType
    BY Times DEF GuardType
  <2>2. CASE \E h \in Guards : Serves(h)
    BY <1>3, <2>2, EndsType DEF Healthy, history, TypeOK, GuardType, SupType
  <2>3. CASE ~\E h \in Guards : Serves(h)
    <3>1. guard' \in [Guards -> GuardType]
      BY <1>3, <2>1, <2>3 DEF Healthy
    <3>2. 0 \in 0 .. faults
      BY BoundsAssumption
    <3> QED BY <1>3, <2>3, <3>1, <3>2 DEF Healthy, TypeOK, GuardType, SupType
  <2> QED BY <2>2, <2>3
<1>4. ASSUME NEW g \in Guards, GivesUp(g) \/ Exits(g) \/ Dies(g) PROVE TypeOK'
  <2>1. Ends(g) /\ UNCHANGED <<paired, claims, down, steady, early>>
    BY <1>4 DEF GivesUp, Exits, Dies, history
  <2>2. faults' \in 0 .. MaxFaults /\ early \in 0 .. faults'
    BY <1>4, BoundsAssumption DEF GivesUp, Exits, Dies, Fault
  <2> QED BY <2>1, <2>2, EndsType DEF TypeOK, GuardType, SupType
<1>5. ASSUME NEW g \in Guards, Spawn(g) PROVE TypeOK'
  <2>1. sup[g] \in SupType
    OBVIOUS
  <2>2. [sup[g] EXCEPT !.at = "running"] \in SupType
    BY <2>1 DEF SupType
  <2>3. [[sup[g] EXCEPT !.at = "running"] EXCEPT !.backoff = Doubled(@)] \in SupType
    BY <2>1, Times DEF SupType
  <2>4. sup' \in [Guards -> SupType]
    BY <1>5, <2>2, <2>3 DEF Spawn
  <2>5. [of |-> g, config |-> paired, up |-> FALSE] \in Engines
    BY Blank DEF Engines
  <2> QED BY <1>5, <2>4, <2>5 DEF Spawn, history, TypeOK, GuardType, SupType
<1>6. ASSUME NEW g \in Guards, Bind(g) PROVE TypeOK'
  <2>1. [child[g] EXCEPT !.up = TRUE] \in Engines
    BY <1>6 DEF Bind, HasChild, Engines
  <2>2. child' \in [Guards -> Engines \cup {NoEngine}]
    BY <1>6, <2>1 DEF Bind
  <2> QED BY <1>6, <2>2, Outages, BoundsAssumption DEF Bind, history, TypeOK, GuardType, SupType
<1>7. ASSUME NEW g \in Guards, BindFails(g) \/ NeverUp(g) \/ Crash(g) PROVE TypeOK'
  <2>1. PICK n \in {0, early + 1} :
          /\ ChildEnds(g, n) /\ UNCHANGED <<paired, claims, guard, orphans, down, outlived>>
          /\ (UNCHANGED faults /\ n = 0) \/ Fault
    BY <1>7 DEF BindFails, NeverUp, Crash
  <2>2. n \in Nat /\ faults' \in 0 .. MaxFaults /\ early \in 0 .. faults' /\ n \in 0 .. faults'
    BY <2>1, BoundsAssumption DEF Fault
  <2> QED BY <2>1, <2>2, ChildEndsType DEF TypeOK, GuardType, SupType
<1>8. ASSUME NEW g \in Guards, Reap(g) PROVE TypeOK'
  BY <1>8, Blank DEF Reap, history, TypeOK, GuardType, SupType
<1>9. ASSUME NEW e \in orphans, OrphanBinds(e) PROVE TypeOK'
  <2>1. [e EXCEPT !.up = TRUE] \in Engines
    BY DEF Engines
  <2>2. orphans' \subseteq Engines
    BY <1>9, <2>1 DEF OrphanBinds
  <2>3. down' \in 0 .. Outage(MaxFaults) + 1
    BY <1>9, Outages, BoundsAssumption DEF OrphanBinds
  <2> QED BY <1>9, <2>2, <2>3 DEF OrphanBinds, history, TypeOK, GuardType, SupType
<1>10. ASSUME NEW e \in orphans, OrphanEnds(e) PROVE TypeOK'
  BY <1>10 DEF OrphanEnds, history, TypeOK, GuardType, SupType
<1>11. ASSUME Pair PROVE TypeOK'
  BY <1>11, BoundsAssumption DEF Pair, procs, history, TypeOK, GuardType, SupType, Configs
<1>12. ASSUME Uninstall PROVE TypeOK'
  <2>0. 0 \in 0 .. Outage(MaxFaults) + 1
    BY Outages, BoundsAssumption
  <2>1. faults' \in 0 .. MaxFaults /\ early \in 0 .. faults'
    <3>1. faults \in 0 .. MaxFaults /\ early \in 0 .. faults
      BY DEF TypeOK
    <3>2. faults' = faults \/ (faults < MaxFaults /\ faults' = faults + 1)
      BY <1>12 DEF Uninstall, Fault
    <3> QED BY <3>1, <3>2, BoundsAssumption
  <2>2. CASE Ends(Service)
    <3>1. Service \in Guards
      BY DEF Guards
    <3>2. /\ guard' \in [Guards -> GuardType] /\ sup' \in [Guards -> SupType]
          /\ child' \in [Guards -> Engines \cup {NoEngine}] /\ orphans' \subseteq Engines
          /\ outlived' \in BOOLEAN
      BY <2>2, <3>1, EndsType
    <3>3. paired' = 0 /\ down' = 0 /\ UNCHANGED <<claims, steady, early>>
      BY <1>12 DEF Uninstall, history
    <3> QED BY <2>0, <2>1, <3>2, <3>3 DEF TypeOK, GuardType, SupType
  <2>3. CASE outlived' = TRUE /\ UNCHANGED procs
    BY <1>12, <2>0, <2>1, <2>3 DEF Uninstall, procs, history, TypeOK, GuardType, SupType
  <2> QED BY <1>12, <2>2, <2>3 DEF Uninstall
<1>13. ASSUME Second PROVE TypeOK'
  <2>1. \A g \in Guards : guard'[g] \in GuardType
    <3> TAKE g \in Guards
    <3>1. guard[g] \in GuardType
      OBVIOUS
    <3>2. guard'[g] = IF Waits(g) /\ guard[g].waited < Patience THEN [guard[g] EXCEPT !.waited = @ + 1] ELSE guard[g]
      BY <1>13 DEF Second
    <3> QED BY <3>1, <3>2, TimesAssumption DEF GuardType
  <2>2. \A g \in Guards : sup'[g] \in SupType
    <3> TAKE g \in Guards
    <3>1. sup[g] \in SupType
      OBVIOUS
    <3>2. \/ sup[g].left > 0 /\ sup'[g] = [sup[g] EXCEPT !.left = @ - 1]
          \/ sup[g].ran <= LongRun /\ sup'[g] = [sup[g] EXCEPT !.ran = @ + 1]
          \/ sup'[g] = sup[g]
      BY <1>13 DEF Second
    <3> QED BY <3>1, <3>2, Times, TimesAssumption DEF SupType
  <2>3. guard' \in [Guards -> GuardType] /\ sup' \in [Guards -> SupType]
    BY <1>13, <2>1, <2>2 DEF Second
  <2>4. down' \in 0 .. Outage(MaxFaults) + 1
    BY <1>13, Outages, BoundsAssumption DEF Second
  <2> QED BY <1>13, <2>3, <2>4 DEF Second, history, TypeOK, GuardType, SupType
<1>14. ASSUME UNCHANGED vars PROVE TypeOK'
  BY <1>14 DEF vars, procs, history, TypeOK
<1> QED BY <1>1, <1>2, <1>3, <1>4, <1>5, <1>6, <1>7, <1>8, <1>9, <1>10, <1>11, <1>12, <1>13, <1>14 DEF Next, GoesOn

\* Every state of the guards and their engines is well formed; among others, no
\* backoff is longer than the longest (opa.go:181-183).
THEOREM TypeCorrect == Spec => []TypeOK
BY TypeInit, TypeStep, PTL DEF Spec

-----------------------------------------------------------------------------
(* OwnPolicy: what belongs to the service belongs to the pairing in force, *)
(* unless it has outlived an uninstall, and only guards in terminals leave *)
(* engines behind.                                                         *)

OwnInv ==
  /\ Alive(Service) /\ ~outlived => paired # 0 /\ guard[Service].cfg = paired
  /\ HasChild(Service) /\ ~outlived => child[Service].config = paired
  /\ outlived => Alive(Service)
  /\ \A g \in Guards : HasChild(g) => child[g].of = g /\ Alive(g)
  /\ \A g \in Guards : sup[g].at # "off" => Alive(g)
  /\ \A e \in orphans : e.of \in Terminals

\* A guard without an engine keeps the invariant of the others.
LEMMA EndsOwn ==
  ASSUME TypeOK, OwnInv, NEW g \in Guards, Ends(g), paired' = paired \/ g = Service
  PROVE  OwnInv'
<1>1. \A h \in Guards : h # g => guard'[h] = guard[h] /\ child'[h] = child[h]
  BY TypeParts DEF Ends
<1>2. guard'[g] = Off /\ child'[g] = NoEngine /\ sup'[g] = NoSup
      /\ \A h \in Guards : h # g => sup'[h] = sup[h]
  BY TypeParts DEF Ends
<1>3. \A e \in orphans' : e.of \in Terminals
  BY DEF Ends, OwnInv
<1>4. outlived' = (outlived /\ g # Service)
  BY DEF Ends
<1>5. ~Alive(g)' /\ ~HasChild(g)' /\ sup'[g].at = "off"
  BY <1>2, Blank DEF Alive, HasChild, Off, NoSup
<1>6. \A h \in Guards : (HasChild(h) => child[h].of = h /\ Alive(h))'
  BY <1>1, <1>5 DEF OwnInv, Alive, HasChild
<1>7. \A h \in Guards : (sup[h].at # "off" => Alive(h))'
  BY <1>1, <1>2, <1>5 DEF OwnInv, Alive
<1>8. CASE g = Service
  BY <1>3, <1>4, <1>5, <1>6, <1>7, <1>8 DEF OwnInv
<1>9. CASE g # Service
  <2>1. Service \in Guards /\ paired' = paired /\ (outlived' <=> outlived)
    BY <1>4, <1>9 DEF Guards
  <2>2. guard'[Service] = guard[Service] /\ child'[Service] = child[Service]
    BY <1>1, <1>9, <2>1
  <2>3. (Alive(Service)' <=> Alive(Service)) /\ (HasChild(Service)' <=> HasChild(Service))
    BY <2>2 DEF Alive, HasChild
  <2> QED BY <1>3, <1>6, <1>7, <2>1, <2>2, <2>3 DEF OwnInv
<1> QED BY <1>8, <1>9

LEMMA OwnStep == TypeOK /\ OwnInv /\ [Next]_vars => OwnInv'
<1> SUFFICES ASSUME TypeOK, OwnInv, [Next]_vars PROVE OwnInv'
  OBVIOUS
<1> USE TypeParts, Blank DEF Alive, HasChild
<1>1. ASSUME NEW g \in Guards, Start(g) PROVE OwnInv'
  BY <1>1 DEF Start, OwnInv, Off
<1>2. ASSUME NEW g \in Guards, Signal(g) PROVE OwnInv'
  <2>1. \A h \in Guards : guard'[h].at = guard[h].at /\ guard'[h].cfg = guard[h].cfg
    BY <1>2 DEF Signal, GuardType
  <2> QED BY <1>2, <2>1 DEF Signal, OwnInv
<1>3. ASSUME NEW g \in Guards, Healthy(g) PROVE OwnInv'
  <2>1. CASE \E h \in Guards : Serves(h)
    BY <1>3, <2>1, EndsOwn DEF Healthy
  <2>2. CASE ~\E h \in Guards : Serves(h)
    <3>1. \A h \in Guards : (guard'[h].at = "off" <=> guard[h].at = "off") /\ guard'[h].cfg = guard[h].cfg
      BY <1>3, <2>2 DEF Healthy, GuardType, Waits
    <3> QED BY <1>3, <2>2, <3>1 DEF Healthy, OwnInv
  <2> QED BY <2>1, <2>2
<1>4. ASSUME NEW g \in Guards, GivesUp(g) \/ Exits(g) \/ Dies(g) PROVE OwnInv'
  BY <1>4, EndsOwn DEF GivesUp, Exits, Dies
<1>5. ASSUME NEW g \in Guards, Spawn(g) PROVE OwnInv'
  <2>1. Alive(g) /\ \A h \in Guards : h # g => sup'[h] = sup[h]
    BY <1>5 DEF Spawn, OwnInv
  <2> QED BY <1>5, <2>1 DEF Spawn, OwnInv
<1>6. ASSUME NEW g \in Guards, Bind(g) PROVE OwnInv'
  <2>1. child[g] \in Engines
    BY <1>6 DEF Bind
  <2>2. \A h \in Guards : \/ child'[h] = NoEngine
                          \/ child'[h].of = child[h].of /\ child'[h].config = child[h].config
    BY <1>6, <2>1 DEF Bind, Engines
  <2>3. \A h \in Guards : child'[h] # NoEngine => child[h] # NoEngine
    BY <1>6 DEF Bind
  <2> QED BY <1>6, <2>2, <2>3 DEF Bind, OwnInv
<1>7. ASSUME NEW g \in Guards, BindFails(g) \/ NeverUp(g) \/ Crash(g) \/ Reap(g) PROVE OwnInv'
  <2>1. \A h \in Guards : child'[h] \in {child[h], NoEngine}
    BY <1>7 DEF BindFails, NeverUp, Crash, Reap, ChildEnds
  <2>2. Alive(g) /\ \A h \in Guards : h # g => sup'[h] = sup[h]
    BY <1>7 DEF BindFails, NeverUp, Crash, Reap, ChildEnds, OwnInv
  <2> QED BY <1>7, <2>1, <2>2 DEF BindFails, NeverUp, Crash, Reap, OwnInv
<1>9. ASSUME NEW e \in orphans, OrphanBinds(e) PROVE OwnInv'
  <2>1. \A d \in orphans' : d.of \in Terminals
    BY <1>9 DEF OrphanBinds, OwnInv, Engines
  <2> QED BY <1>9, <2>1 DEF OrphanBinds, OwnInv
<1>10. ASSUME NEW e \in orphans, OrphanEnds(e) PROVE OwnInv'
  BY <1>10 DEF OrphanEnds, OwnInv
<1>11. ASSUME Pair PROVE OwnInv'
  BY <1>11 DEF Pair, procs, OwnInv
<1>12. ASSUME Uninstall PROVE OwnInv'
  <2>1. CASE Ends(Service)
    BY <1>12, <2>1, EndsOwn DEF Uninstall
  <2>2. CASE Alive(Service) /\ outlived' = TRUE /\ UNCHANGED procs
    BY <2>2 DEF procs, OwnInv
  <2> QED BY <1>12, <2>1, <2>2 DEF Uninstall
<1>13. ASSUME Second PROVE OwnInv'
  <2>1. \A h \in Guards : guard'[h].at = guard[h].at /\ guard'[h].cfg = guard[h].cfg
    BY <1>13 DEF Second, GuardType
  <2>2. \A h \in Guards : sup'[h].at = sup[h].at
    BY <1>13 DEF Second, SupType
  <2> QED BY <1>13, <2>1, <2>2 DEF Second, OwnInv
<1>14. ASSUME UNCHANGED vars PROVE OwnInv'
  BY <1>14 DEF vars, procs, OwnInv
<1> QED BY <1>1, <1>2, <1>3, <1>4, <1>5, <1>6, <1>7, <1>9, <1>10, <1>11, <1>12, <1>13, <1>14 DEF Next, GoesOn


LEMMA OwnInit == Init => OwnInv
BY Blank DEF Init, OwnInv, Alive, HasChild, Off, NoSup

LEMMA OwnPolicyHolds == TypeOK /\ OwnInv => OwnPolicy
<1> SUFFICES ASSUME TypeOK, OwnInv, NEW g \in Guards, NEW e \in Living, Serves(g),
                    ~(e.config # paired /\ (e.of \in Terminals \/ outlived)),
                    ~(guard[g].cfg # paired /\ (g \in Terminals \/ outlived))
             PROVE  e.config = guard[g].cfg
  BY DEF OwnPolicy
<1>1. guard[g].cfg = paired
  BY DEF Serves, Alive, OwnInv, Guards
<1>2. e.config = paired
  BY DEF Living, OwnInv, Guards, HasChild
<1> QED BY <1>1, <1>2

\* For any number of foreground guards: only what is older than the pairing in
\* force decides by, or records for, another entity, and it belongs to a terminal
\* or to a service that has outlived an uninstall (opa.go:159-163, 188-203,
\* main.go:396).
THEOREM NoStrangersPolicy == Spec => []OwnPolicy
<1>1. TypeOK /\ OwnInv /\ [Next]_vars => OwnInv'
  BY OwnStep
<1> QED BY TypeInit, TypeStep, OwnInit, <1>1, OwnPolicyHolds, PTL DEF Spec


-----------------------------------------------------------------------------
(* OutageBounded: while the supervisor of the serving guard pauses, the    *)
(* outage and the rest of the pause do not exceed the bound together.      *)

Bound == IF steady THEN 1 ELSE Outage(early)

\* What holds of g's engine while g serves.
DownInv(g) ==
  /\ sup[g].at = "start" => down = 0
  /\ sup[g].at = "pause" => down + sup[g].left <= Bound
  /\ HasChild(g) /\ ~child[g].up /\ child[g].config = 0 => down = 0

OneServes == \A g, h \in Guards : Serves(g) /\ Serves(h) => g = h

GuardInv(g) ==
  /\ sup[g].at = "running" => HasChild(g)
  /\ Alive(g) /\ ~guard[g].ended => sup[g].at # "off"
  /\ sup[g].at \in {"start", "pause"} => sup[g].ran = 0
  /\ HasChild(g) /\ ~child[g].up => sup[g].ran = 0
  /\ Serves(g) => DownInv(g)

OutInv ==
  /\ OneServes
  /\ Answers \/ paired = 0 => down = 0
  /\ down <= Bound
  /\ \A g \in Guards : GuardInv(g)

LEMMA BoundType == TypeOK => Bound \in Nat /\ 1 <= Bound /\ Bound <= Outage(MaxFaults)
<1> SUFFICES ASSUME TypeOK PROVE Bound \in Nat /\ 1 <= Bound /\ Bound <= Outage(MaxFaults)
  OBVIOUS
<1>1. early \in Nat /\ early <= MaxFaults /\ MaxFaults \in Nat
  BY TypeParts, BoundsAssumption
<1>2. Outage(early) \in Nat /\ 1 <= Outage(early) /\ Outage(early) <= Outage(MaxFaults)
  BY <1>1, Outages
<1>3. 1 <= Outage(MaxFaults)
  BY <1>1, Outages
<1> QED BY <1>2, <1>3 DEF Bound

LEMMA NoOutage == Outage(0) = Longest
BY Times DEF Outage

LEMMA OutInit == Init => OutInv
BY Blank, NoOutage, Times DEF Init, OutInv, OneServes, GuardInv, DownInv, Answers, Living, HasChild, Serves, Alive,
  Off, NoSup, Bound

\* A guard that ends leaves the others as they are, and no new engine.
LEMMA EndsOut ==
  ASSUME TypeOK, OutInv, NEW g \in Guards, Ends(g), UNCHANGED history,
         \/ UNCHANGED <<paired, down>>
         \/ paired' = 0 /\ down' = 0
  PROVE  OutInv'
<1>1. \A h \in Guards : h # g => guard'[h] = guard[h] /\ child'[h] = child[h] /\ sup'[h] = sup[h]
  BY TypeParts DEF Ends
<1>2. guard'[g] = Off /\ child'[g] = NoEngine /\ sup'[g] = NoSup
  BY TypeParts DEF Ends
<1>3. Living' \subseteq Living
  BY <1>1, <1>2 DEF Living, HasChild, Ends
<1>4. Answers' => Answers
  BY <1>3 DEF Answers
<1>5. Bound' = Bound
  BY DEF Bound, history
<1>6. \A h \in Guards : GuardInv(h)'
  <2> SUFFICES ASSUME NEW h \in Guards PROVE GuardInv(h)'
    OBVIOUS
  <2>1. CASE h = g
    BY <2>1, <1>2 DEF GuardInv, Serves, Alive, Off, NoSup
  <2>2. CASE h # g
    <3>1. GuardInv(h)
      BY DEF OutInv
    <3>2. CASE down' = down
      BY <2>2, <3>1, <3>2, <1>1, <1>5 DEF GuardInv, DownInv, Serves, Alive, HasChild
    <3>3. CASE down' = 0
      <4>1. 0 <= down /\ sup[h].left \in Nat /\ Bound \in Nat /\ down \in Nat
        BY TypeParts, BoundType, Times DEF SupType
      <4>2. Serves(h) /\ sup[h].at = "pause" => 0 + sup[h].left <= Bound
        BY <3>1, <4>1 DEF GuardInv, DownInv
      <4> QED BY <2>2, <3>1, <3>3, <4>2, <1>1, <1>5 DEF GuardInv, DownInv, Serves, Alive, HasChild
    <3> QED BY <3>2, <3>3
  <2> QED BY <2>1, <2>2
<1>7. OneServes'
  BY <1>1, <1>2 DEF OutInv, OneServes, Serves, Off
<1>8. down' <= Bound' /\ (Answers' \/ paired' = 0 => down' = 0)
  BY <1>4, <1>5, BoundType DEF OutInv
<1> QED BY <1>6, <1>7, <1>8 DEF OutInv

\* An engine ends, and the outage so far and the next pause are within the bound.
LEMMA ChildEndsOut ==
  ASSUME TypeOK, TypeOK', OutInv, NEW g \in Guards, NEW n \in Nat, ChildEnds(g, n), HasChild(g), Alive(g),
         Serves(g) => down + BackoffAfter(g) <= Bound',
         UNCHANGED <<paired, guard, orphans, down>>
  PROVE  OutInv'
<1>1. \A h \in Guards : h # g => child'[h] = child[h] /\ sup'[h] = sup[h]
  BY TypeParts DEF ChildEnds
<1>2. /\ child'[g] = NoEngine
      /\ sup'[g] = [at |-> "pause", backoff |-> BackoffAfter(g), left |-> BackoffAfter(g), ran |-> 0]
  BY TypeParts DEF ChildEnds
<1>3. Living' \subseteq Living
  BY <1>1, <1>2 DEF Living, HasChild
<1>4. Answers' => Answers
  BY <1>3 DEF Answers
<1>5. Bound' = Bound \/ Serves(g)
  BY DEF Bound, ChildEnds
<1>6. GuardInv(g)'
  BY <1>2 DEF GuardInv, DownInv, HasChild, Serves, Alive
<1>7. ASSUME NEW h \in Guards, h # g PROVE GuardInv(h)'
  <2>1. GuardInv(h) /\ (Serves(h) => Bound' = Bound)
    BY <1>5, <1>7 DEF OutInv, OneServes
  <2> QED BY <2>1, <1>1, <1>7 DEF GuardInv, DownInv, HasChild, Serves, Alive
<1>8. OneServes'
  BY DEF OutInv, OneServes, Serves
<1>9. down' <= Bound'
  <2>1. Bound' \in Nat /\ down \in Nat /\ BackoffAfter(g) \in Nat
    <3>1. Bound' \in Nat
      <4>1. early' \in Nat
        BY TypeParts DEF ChildEnds
      <4> QED BY <4>1, Outages DEF Bound
    <3>2. Outage(MaxFaults) \in Nat
      BY Outages, BoundsAssumption
    <3>3. sup[g].backoff \in Nat
      BY TypeParts, Times DEF SupType
    <3> QED BY <3>1, <3>2, <3>3, TypeParts DEF BackoffAfter
  <2>2. CASE Serves(g)
    BY <2>1, <2>2
  <2>3. CASE Bound' = Bound
    BY <2>3 DEF OutInv
  <2> QED BY <2>2, <2>3, <1>5
<1> QED BY <1>4, <1>6, <1>7, <1>8, <1>9 DEF OutInv

\* An engine ends that had the port, while another has it, or without a configuration.
LEMMA PauseWithin ==
  ASSUME TypeOK, OutInv, NEW g \in Guards, ChildEnds(g, 0), HasChild(g), Serves(g),
         \/ child[g].up
         \/ ~child[g].up /\ child[g].config = 0
         \/ Answers
  PROVE  down + BackoffAfter(g) <= Bound'
<1>1. down = 0
  BY DEF OutInv, GuardInv, DownInv, Answers, Living, HasChild
<1>2. /\ steady' = (sup[g].ran > LongRun) /\ early' = 0
      /\ sup[g] \in SupType
  BY TypeParts DEF ChildEnds
<1>3. CASE sup[g].ran > LongRun
  <2>1. BackoffAfter(g) = 1
    BY <1>3 DEF BackoffAfter
  <2>2. steady'
    BY <1>2, <1>3, Zenon
  <2>3. Bound' = 1
    BY <2>2, Zenon DEF Bound
  <2> QED BY <1>1, <2>1, <2>3
<1>4. CASE ~(sup[g].ran > LongRun)
  <2>1. BackoffAfter(g) \in 1 .. Longest
    BY <1>2, <1>4 DEF BackoffAfter, SupType
  <2>2. ~steady'
    BY <1>2, <1>4, Zenon
  <2>3. Bound' = Outage(early')
    BY <2>2, Zenon DEF Bound, Outage, Longest
  <2>4. Bound' = Longest
    BY <1>2, <2>3, NoOutage
  <2> QED BY <1>1, <2>1, <2>4, Times
<1> QED BY <1>3, <1>4

\* An engine that never had the port ends: the next pause is within the bound,
\* which its end has moved.
LEMMA PauseAdded ==
  ASSUME TypeOK, OutInv, NEW g \in Guards, ChildEnds(g, early + 1), HasChild(g), ~child[g].up, Serves(g)
  PROVE  down + BackoffAfter(g) <= Bound'
<1>1. sup[g].ran = 0 /\ sup[g] \in SupType
  BY TypeParts DEF OutInv, GuardInv
<1>2. steady' = (sup[g].ran > LongRun) /\ early' = early + 1
  BY DEF ChildEnds
<1>3. ~(sup[g].ran > LongRun)
  BY <1>1, TimesAssumption
<1>4. ~steady'
  BY <1>2, <1>3, Zenon
<1>5. Bound' = Outage(early')
  BY <1>4, Zenon DEF Bound, Outage, Longest
<1>6. early \in Nat /\ down \in Nat
  <2>1. Outage(MaxFaults) \in Nat
    BY Outages, BoundsAssumption
  <2> QED BY <2>1, TypeParts
<1>7. Bound' = Outage(early) + Longest /\ 1 <= Outage(early) /\ Outage(early) \in Nat
  BY <1>2, <1>5, <1>6, Outages
<1>8. Bound <= Outage(early)
  BY <1>7 DEF Bound
<1>9. down <= Outage(early)
  BY <1>6, <1>7, <1>8, BoundType DEF OutInv
<1>10. BackoffAfter(g) \in 1 .. Longest
  BY <1>1, <1>3 DEF BackoffAfter, SupType
<1> QED BY <1>6, <1>7, <1>9, <1>10, Times


LEMMA OutStep == TypeOK /\ OwnInv /\ OutInv /\ [Next]_vars => OutInv'
<1> SUFFICES ASSUME TypeOK, OwnInv, OutInv, [Next]_vars PROVE OutInv'
  OBVIOUS
<1> USE TypeParts, Blank DEF history
<1>0. TypeOK'
  BY TypeStep
<1>1. ASSUME NEW g \in Guards, Start(g) PROVE OutInv'
  <2>1. \A h \in Guards : h # g => guard'[h] = guard[h] /\ sup'[h] = sup[h]
    BY <1>1 DEF Start
  <2>2. guard'[g].at = "waiting" /\ sup'[g].at = "start" /\ sup'[g].ran = 0
    BY <1>1 DEF Start, Off, NoSup
  <2>3. UNCHANGED <<paired, child, orphans, down, steady, early>>
    BY <1>1 DEF Start
  <2>4. \A h \in Guards : GuardInv(h)'
    BY <2>1, <2>2, <2>3 DEF OutInv, GuardInv, DownInv, HasChild, Serves, Alive, Bound
  <2> QED BY <2>1, <2>2, <2>3, <2>4 DEF OutInv, OneServes, Serves, Answers, Living, HasChild, Bound
<1>2. ASSUME NEW g \in Guards, Signal(g) PROVE OutInv'
  <2>1. \A h \in Guards : guard'[h].at = guard[h].at /\ (guard[h].ended => guard'[h].ended)
    BY <1>2 DEF Signal, GuardType
  <2>2. UNCHANGED <<paired, sup, child, orphans, down, steady, early>>
    BY <1>2 DEF Signal
  <2>3. \A h \in Guards : GuardInv(h)'
    BY <2>1, <2>2 DEF OutInv, GuardInv, DownInv, HasChild, Serves, Alive, Bound
  <2> QED BY <2>1, <2>2, <2>3 DEF OutInv, OneServes, Serves, Answers, Living, HasChild, Bound
<1>3. ASSUME NEW g \in Guards, Healthy(g) PROVE OutInv'
  <2>1. CASE \E h \in Guards : Serves(h)
    BY <1>3, <2>1, EndsOut DEF Healthy
  <2>2. CASE ~\E h \in Guards : Serves(h)
    <3>0. guard' = [guard EXCEPT ![g].at = "serving", ![g].waited = 0] /\ guard[g] \in GuardType
      BY <1>3, <2>2 DEF Healthy
    <3>1. guard'[g].at = "serving" /\ \A h \in Guards : h # g => guard'[h] = guard[h]
      BY <3>0 DEF GuardType
    <3>2. UNCHANGED <<paired, sup, child, orphans, down>> /\ steady' = FALSE /\ early' = 0 /\ down = 0
      BY <1>3, <2>2 DEF Healthy, OutInv
    <3>3. guard'[g].ended = guard[g].ended /\ Alive(g)
      BY <1>3, <3>0 DEF Healthy, Waits, Alive, GuardType
    <3>4. sup[g].left <= Longest /\ sup[g].left \in Nat /\ Bound' = Longest
      BY <3>2, NoOutage, Times DEF SupType, Bound
    <3>5. GuardInv(g)'
      BY <3>1, <3>2, <3>3, <3>4 DEF OutInv, GuardInv, DownInv, HasChild, Serves, Alive
    <3>6. ASSUME NEW h \in Guards, h # g PROVE GuardInv(h)'
      BY <2>2, <3>1, <3>2, <3>6 DEF OutInv, GuardInv, HasChild, Serves, Alive
    <3>7. OneServes' /\ (Answers' <=> Answers)
      BY <2>2, <3>1, <3>2 DEF OneServes, Serves, Answers, Living, HasChild
    <3> QED BY <3>2, <3>4, <3>5, <3>6, <3>7, Times DEF OutInv
  <2> QED BY <2>1, <2>2
<1>4. ASSUME NEW g \in Guards, GivesUp(g) \/ Exits(g) \/ Dies(g) PROVE OutInv'
  BY <1>4, EndsOut DEF GivesUp, Exits, Dies
<1>5. ASSUME NEW g \in Guards, Spawn(g) PROVE OutInv'
  <2>1. \A h \in Guards : h # g => sup'[h] = sup[h] /\ child'[h] = child[h]
    BY <1>5 DEF Spawn
  <2>2. child'[g] = [of |-> g, config |-> paired, up |-> FALSE] /\ sup'[g].at = "running"
    BY <1>5 DEF Spawn, SupType
  <2>3. UNCHANGED <<paired, guard, orphans, down, steady, early>>
    BY <1>5 DEF Spawn
  <2>4. child'[g] # NoEngine
    <3>1. [of |-> g, config |-> paired, up |-> FALSE] \in Engines
      BY DEF Engines
    <3> QED BY <2>2, <3>1, GuardsAssumption
  <2>8. sup'[g].ran = 0
    BY <1>5 DEF Spawn, SupType, OutInv, GuardInv
  <2>5. GuardInv(g)'
    BY <2>2, <2>3, <2>4, <2>8 DEF OutInv, GuardInv, DownInv, HasChild, Serves, Alive
  <2>6. ASSUME NEW h \in Guards, h # g PROVE GuardInv(h)'
    BY <2>1, <2>3, <2>6 DEF OutInv, GuardInv, DownInv, HasChild, Serves, Alive, Bound
  <2>7. \A e \in Living' : e.up => e \in Living
    BY <2>1, <2>2, <2>3 DEF Living, HasChild
  <2> QED BY <2>3, <2>5, <2>6, <2>7 DEF OutInv, OneServes, Serves, Answers, Bound
<1>6. ASSUME NEW g \in Guards, Bind(g) PROVE OutInv'
  <2>1. \A h \in Guards : h # g => child'[h] = child[h]
    BY <1>6 DEF Bind
  <2>2. child'[g] # NoEngine /\ child'[g].up /\ HasChild(g)
    <3>1. [child[g] EXCEPT !.up = TRUE] \in Engines /\ [child[g] EXCEPT !.up = TRUE].up
      BY <1>6 DEF Bind, HasChild, Engines
    <3> QED BY <1>6, <3>1, GuardsAssumption DEF Bind
  <2>3. UNCHANGED <<paired, guard, sup, steady>> /\ down' = 0 /\ 0 <= down /\ Bound' = Bound
    BY <1>6, Outages, BoundsAssumption DEF Bind, Bound
  <2>4. ASSUME NEW h \in Guards PROVE GuardInv(h)'
    <3>1. GuardInv(h) /\ sup[h].left \in Nat /\ down \in Nat /\ Bound \in Nat
      BY BoundType, Times, Outages, BoundsAssumption DEF OutInv, SupType
    <3>2. Serves(h) /\ sup[h].at = "pause" => 0 + sup[h].left <= Bound
      BY <3>1 DEF GuardInv, DownInv
    <3> QED BY <2>1, <2>2, <2>3, <3>1, <3>2 DEF GuardInv, DownInv, HasChild, Serves, Alive
  <2> QED BY <2>3, <2>4, BoundType DEF OutInv, OneServes, Serves
<1>7. ASSUME NEW g \in Guards, BindFails(g) \/ Crash(g) PROVE OutInv'
  <2>1. HasChild(g) /\ ChildEnds(g, 0) /\ UNCHANGED <<paired, guard, orphans, down>>
    BY <1>7 DEF BindFails, Crash
  <2>2. Alive(g) /\ (child[g].up \/ (~child[g].up /\ child[g].config = 0) \/ Answers)
    BY <1>7 DEF BindFails, Crash, OwnInv
  <2>3. Serves(g) => down + BackoffAfter(g) <= Bound'
    BY <2>1, <2>2, PauseWithin
  <2> QED BY <1>0, <2>1, <2>2, <2>3, ChildEndsOut
<1>15. ASSUME NEW g \in Guards, NeverUp(g) PROVE OutInv'
  <2>1. HasChild(g) /\ ~child[g].up /\ ChildEnds(g, early + 1) /\ UNCHANGED <<paired, guard, orphans, down>>
    BY <1>15 DEF NeverUp
  <2>2. Alive(g) /\ early + 1 \in Nat
    BY <2>1, BoundsAssumption DEF OwnInv
  <2>3. Serves(g) => down + BackoffAfter(g) <= Bound'
    BY <2>1, PauseAdded
  <2> QED BY <1>0, <2>1, <2>2, <2>3, ChildEndsOut
<1>8. ASSUME NEW g \in Guards, Reap(g) PROVE OutInv'
  <2>1. \A h \in Guards : h # g => child'[h] = child[h] /\ sup'[h] = sup[h]
    BY <1>8 DEF Reap
  <2>2. child'[g] = NoEngine /\ sup'[g] = NoSup /\ guard[g].ended
    BY <1>8 DEF Reap
  <2>3. UNCHANGED <<paired, guard, orphans, down, steady, early>>
    BY <1>8 DEF Reap
  <2>4. Living' \subseteq Living
    BY <2>1, <2>2, <2>3 DEF Living, HasChild
  <2>5. GuardInv(g)'
    BY <2>2, <2>3 DEF GuardInv, DownInv, HasChild, NoSup
  <2>6. ASSUME NEW h \in Guards, h # g PROVE GuardInv(h)'
    BY <2>1, <2>3, <2>6 DEF OutInv, GuardInv, DownInv, HasChild, Serves, Alive, Bound
  <2> QED BY <2>3, <2>4, <2>5, <2>6 DEF OutInv, OneServes, Serves, Answers, Bound
<1>9. ASSUME NEW e \in orphans, OrphanBinds(e) PROVE OutInv'
  <2>1. UNCHANGED <<paired, guard, sup, child, steady, early>> /\ Bound' = Bound
    BY <1>9 DEF OrphanBinds, Bound
  <2>2. CASE e.config = 0 \/ Answers
    <3>1. down' = down /\ Living' \subseteq Living
      BY <1>9, <2>1, <2>2 DEF OrphanBinds, Living, HasChild
    <3>2. \A h \in Guards : GuardInv(h)'
      BY <2>1, <3>1 DEF OutInv, GuardInv, DownInv, HasChild, Serves, Alive
    <3> QED BY <2>1, <3>1, <3>2 DEF OutInv, OneServes, Serves, Answers
  <2>3. CASE ~(e.config = 0 \/ Answers)
    <3>1. down' = 0
      BY <1>9, <2>3 DEF OrphanBinds
    <3>2. ASSUME NEW h \in Guards PROVE GuardInv(h)'
      <4>1. GuardInv(h) /\ sup[h].left \in Nat /\ down \in Nat /\ Bound \in Nat
        BY BoundType, Times, Outages, BoundsAssumption DEF OutInv, SupType
      <4>2. Serves(h) /\ sup[h].at = "pause" => 0 + sup[h].left <= Bound
        BY <4>1 DEF GuardInv, DownInv
      <4> QED BY <2>1, <3>1, <4>1, <4>2 DEF GuardInv, DownInv, HasChild, Serves, Alive
    <3> QED BY <2>1, <3>1, <3>2, BoundType DEF OutInv, OneServes, Serves
  <2> QED BY <2>2, <2>3
<1>10. ASSUME NEW e \in orphans, OrphanEnds(e) PROVE OutInv'
  <2>1. UNCHANGED <<paired, guard, sup, child, down, steady, early>> /\ Living' \subseteq Living
    BY <1>10 DEF OrphanEnds, Living, HasChild
  <2>2. \A h \in Guards : GuardInv(h)'
    BY <2>1 DEF OutInv, GuardInv, DownInv, HasChild, Serves, Alive, Bound
  <2> QED BY <2>1, <2>2 DEF OutInv, OneServes, Serves, Answers, Bound
<1>11. ASSUME Pair PROVE OutInv'
  <2>1. UNCHANGED <<guard, sup, child, orphans, down, steady, early>> /\ down = 0
    BY <1>11 DEF Pair, procs, OutInv
  <2>2. \A h \in Guards : GuardInv(h)'
    BY <2>1 DEF OutInv, GuardInv, DownInv, HasChild, Serves, Alive, Bound
  <2> QED BY <2>1, <2>2 DEF OutInv, OneServes, Serves, Bound
<1>12. ASSUME Uninstall PROVE OutInv'
  <2>1. CASE Ends(Service)
    BY <1>12, <2>1, EndsOut DEF Uninstall
  <2>2. CASE UNCHANGED procs
    <3>1. UNCHANGED <<guard, sup, child, orphans, steady, early>> /\ down' = 0
      BY <1>12, <2>2 DEF Uninstall, procs
    <3>2. Bound' = Bound
      BY <3>1 DEF Bound
    <3>3. ASSUME NEW h \in Guards PROVE GuardInv(h)'
      <4>1. GuardInv(h) /\ sup[h].left \in Nat /\ down \in Nat /\ Bound \in Nat
        BY BoundType, Times, Outages, BoundsAssumption DEF OutInv, SupType
      <4>2. Serves(h) /\ sup[h].at = "pause" => 0 + sup[h].left <= Bound
        BY <4>1 DEF GuardInv, DownInv
      <4> QED BY <3>1, <3>2, <4>1, <4>2 DEF GuardInv, DownInv, HasChild, Serves, Alive
    <3> QED BY <3>1, <3>2, <3>3, BoundType DEF OutInv, OneServes, Serves
  <2> QED BY <1>12, <2>1, <2>2 DEF Uninstall
<1>13. ASSUME Second PROVE OutInv'
  <2>1. UNCHANGED <<paired, child, orphans, steady, early>> /\ Bound' = Bound
    BY <1>13 DEF Second, Bound
  <2>2. \A h \in Guards : guard'[h].at = guard[h].at /\ guard'[h].ended = guard[h].ended
    BY <1>13 DEF Second, GuardType
  <2>3. ASSUME NEW h \in Guards
        PROVE  /\ sup'[h].at = sup[h].at /\ sup[h].at # "start"
               /\ sup[h].at = "pause" => sup[h].left > 0 /\ sup'[h].left = sup[h].left - 1
               /\ sup[h].at = "pause" => sup'[h].ran = sup[h].ran
               /\ HasChild(h) => child[h].up
               /\ ~guard[h].ended
    <3>1. sup[h] \in SupType
      OBVIOUS
    <3>2. sup[h].at # "start" /\ ~(sup[h].at = "pause" /\ sup[h].left = 0) /\ ~guard[h].ended
      BY <1>13 DEF Second, Due
    <3>3. sup[h].at = "pause" => sup[h].left > 0
      BY <3>1, <3>2 DEF SupType
    <3>4. HasChild(h) => child[h].up
      BY <1>13 DEF Second, Due, Living
    <3>5. sup'[h] = CASE sup[h].at = "pause" /\ sup[h].left > 0 -> [sup[h] EXCEPT !.left = @ - 1]
                      [] sup[h].at = "running" /\ sup[h].ran <= LongRun -> [sup[h] EXCEPT !.ran = @ + 1]
                      [] OTHER -> sup[h]
      BY <1>13 DEF Second
    <3>6. CASE sup[h].at = "pause"
      <4>1. sup'[h] = [sup[h] EXCEPT !.left = @ - 1]
        BY <3>3, <3>5, <3>6
      <4> QED BY <3>1, <3>2, <3>3, <3>4, <4>1 DEF SupType
    <3>7. CASE sup[h].at # "pause"
      <4>1. sup'[h] \in {sup[h], [sup[h] EXCEPT !.ran = @ + 1]}
        BY <3>5, <3>7
      <4> QED BY <3>1, <3>2, <3>4, <3>7, <4>1 DEF SupType
    <3> QED BY <3>6, <3>7
  <2>4. CASE Answers \/ paired = 0 \/ \A g \in Guards : ~Serves(g)
    <3>1. down' = 0 /\ down \in Nat
      BY <1>13, <2>4, Outages, BoundsAssumption DEF Second
    <3>2. ASSUME NEW h \in Guards PROVE GuardInv(h)'
      <4>1. GuardInv(h) /\ sup[h].left \in Nat /\ Bound \in Nat
        BY BoundType, Times, Outages, BoundsAssumption DEF OutInv, SupType
      <4>2. Serves(h) /\ sup[h].at = "pause" => 0 + (sup[h].left - 1) <= Bound
        BY <3>1, <4>1 DEF GuardInv, DownInv
      <4> QED BY <2>1, <2>2, <2>3, <3>1, <4>1, <4>2 DEF GuardInv, DownInv, HasChild, Serves, Alive
    <3> QED BY <2>1, <2>2, <3>1, <3>2, BoundType DEF OutInv, OneServes, Serves
  <2>5. CASE ~Answers /\ paired # 0 /\ \E g \in Guards : Serves(g)
    <3>1. PICK g \in Guards : Serves(g)
      BY <2>5
    <3>2. ~HasChild(g)
      BY <2>3, <2>5 DEF Answers, Living
    <3>3. sup[g].at = "pause"
      <4>1. GuardInv(g) /\ sup[g] \in SupType /\ ~guard[g].ended /\ Alive(g)
        BY <2>3, <3>1 DEF OutInv, Serves, Alive
      <4> QED BY <4>1, <2>3, <3>2 DEF GuardInv, SupType
    <3>4. down + sup[g].left <= Bound /\ sup[g].left > 0 /\ sup[g].left \in Nat
          /\ down \in Nat /\ Bound \in Nat /\ Bound <= Outage(MaxFaults) /\ Outage(MaxFaults) \in Nat
      BY <2>3, <3>1, <3>3, BoundType, Times, Outages, BoundsAssumption DEF OutInv, GuardInv, DownInv, SupType
    <3>5. down' = down + 1
      BY <1>13, <2>5, <3>4 DEF Second
    <3>6. down' <= Bound /\ down' + (sup[g].left - 1) <= Bound
      BY <3>4, <3>5
    <3>7. GuardInv(g)'
      <4>1. GuardInv(g) /\ sup'[g].at = "pause" /\ sup'[g].left = sup[g].left - 1 /\ sup'[g].ran = sup[g].ran
        BY <2>3, <3>3 DEF OutInv
      <4> QED BY <4>1, <2>1, <2>2, <3>2, <3>3, <3>6 DEF GuardInv, DownInv, HasChild, Serves, Alive
    <3>8. ASSUME NEW h \in Guards, h # g PROVE GuardInv(h)'
      <4>1. GuardInv(h) /\ ~Serves(h)
        BY <3>1, <3>8 DEF OutInv, OneServes
      <4> QED BY <4>1, <2>1, <2>2, <2>3 DEF GuardInv, HasChild, Serves, Alive
    <3>9. ~Answers' /\ paired' # 0
      BY <2>1, <2>5 DEF Answers, Living, HasChild
    <3> QED BY <2>1, <2>2, <3>6, <3>7, <3>8, <3>9 DEF OutInv, OneServes, Serves
  <2> QED BY <2>4, <2>5
<1>14. ASSUME UNCHANGED vars PROVE OutInv'
  BY <1>14 DEF vars, procs, OutInv, OneServes, GuardInv, DownInv, Answers, Living, HasChild, Serves, Alive, Bound
<1> QED BY <1>1, <1>2, <1>3, <1>4, <1>5, <1>6, <1>7, <1>8, <1>9, <1>10, <1>11, <1>12, <1>13, <1>14, <1>15 DEF Next, GoesOn

\* For any times and any number of guards: the outage of a serving guard is
\* bounded by the longest backoff for each engine it takes until one has the port,
\* and by a second if the first one after a long run has it (opa.go:157-184).
THEOREM OutageStaysBounded == Spec => []OutageBounded
<1>1. OutInv => OutageBounded
  BY DEF OutInv, OutageBounded, Bound
<1> QED BY TypeInit, TypeStep, OwnInit, OwnStep, OutInit, OutStep, <1>1, PTL DEF Spec

=============================================================================
