----------------------------- MODULE Supervisor -----------------------------
(***************************************************************************)
(* The policy engine and the guards that keep it running: cmdRun, and      *)
(* Supervisor.Run and WaitHealthy (internal/opa).  One guard may be run by *)
(* the service manager and others from terminals, all with one engine port *)
(* and one proxy port; nothing but the ports keeps them apart, and an      *)
(* engine that finds its port taken exits.                                 *)
(*                                                                         *)
(* The service manager kills what is left of a service that ended; what a  *)
(* guard in a terminal leaves behind lives on.  The engine reads its       *)
(* configuration when it starts, a guard when it does.                     *)
(*                                                                         *)
(* Time goes by in seconds, and what is due happens before the next one.   *)
(***************************************************************************)
EXTENDS Naturals

CONSTANTS
  Service,      \* the guard that the service manager runs while there is a pairing
  Terminals,    \* guards that users run
  NoEngine,
  MaxBackoff,   \* the backoff is doubled while it is below this (30)
  LongRun,      \* it is reset after a run of more seconds than this (30)
  Patience,     \* of WaitHealthy, in seconds (30)
  MaxPairings,  \* bound on the pairings
  MaxFaults     \* bound on the engines that end by themselves, the guards that die, the signals to
                \* the service and the uninstalls that do not end it

Guards == Terminals \cup {Service}

Configs == 0 .. MaxPairings

\* An engine: whose child it was, its configuration, and whether it has the port.
Engines == [of : Guards, config : Configs, up : BOOLEAN]

ASSUME GuardsAssumption == Service \notin Terminals /\ NoEngine \notin Engines
ASSUME TimesAssumption == MaxBackoff \in Nat \ {0, 1} /\ LongRun \in Nat /\ Patience \in Nat
ASSUME BoundsAssumption == MaxPairings \in Nat /\ MaxFaults \in Nat

VARIABLES
  paired, claims,   \* the pairing in guard.json and opa-config.yaml, 0 if none; pairings so far
  guard,            \* each guard's process
  sup,              \* its supervisor
  child, orphans,   \* the engine of each guard; engines whose guard has ended
  down,             \* for how long a guard that serves has had no engine, counted to Outage(MaxFaults) + 1
  steady, early,    \* history: its last engine had a long run; its engines that have ended in a row
                    \* before they had the port
  outlived,         \* history: the service has outlived an uninstall
  faults

procs == <<guard, sup, child, orphans>>
history == <<steady, early>>
vars == <<paired, claims, procs, down, history, outlived, faults>>

\* The longest backoff: 32 seconds, to be exact, for a MaxBackoff of 30.
Longest == 2 * (MaxBackoff - 1)

\* The pauses before and after n engines that never had the port.
Outage(n) == (1 + n) * Longest

Off == [at |-> "off", cfg |-> 0, ended |-> FALSE, waited |-> 0]

NoSup == [at |-> "off", backoff |-> 1, left |-> 0, ran |-> 0]

Init ==
  /\ paired = 0 /\ claims = 0
  /\ guard = [g \in Guards |-> Off]
  /\ sup = [g \in Guards |-> NoSup]
  /\ child = [g \in Guards |-> NoEngine]
  /\ orphans = {}
  /\ down = 0 /\ steady = FALSE /\ early = 0 /\ outlived = FALSE /\ faults = 0

Alive(g) == guard[g].at # "off"

Waits(g) == guard[g].at = "waiting"

Serves(g) == guard[g].at = "serving"

HasChild(g) == child[g] # NoEngine

Living == {child[g] : g \in {h \in Guards : HasChild(h)}} \cup orphans

\* Who has the port answers.
Answers == \E e \in Living : e.up

Fault == faults < MaxFaults /\ faults' = faults + 1

-----------------------------------------------------------------------------
(* A guard.                                                                *)

\* The process is gone.
EndsAlone(g) ==
  /\ guard' = [guard EXCEPT ![g] = Off]
  /\ sup' = [sup EXCEPT ![g] = NoSup]
  /\ child' = [child EXCEPT ![g] = NoEngine]
  /\ orphans' = orphans \cup {e \in {child[g]} : HasChild(g)}
  /\ outlived' = (outlived /\ g # Service)

Ends(g) ==
  /\ guard' = [guard EXCEPT ![g] = Off]
  /\ sup' = [sup EXCEPT ![g] = NoSup]
  /\ child' = [child EXCEPT ![g] = NoEngine]
  /\ orphans' = orphans \cup {e \in {child[g]} : HasChild(g) /\ g \in Terminals}
  /\ outlived' = (outlived /\ g # Service)

\* cmdRun, up to WaitHealthy; config.Load succeeds.
Start(g) ==
  /\ ~Alive(g) /\ paired # 0
  /\ guard' = [guard EXCEPT ![g] = [Off EXCEPT !.at = "waiting", !.cfg = paired]]
  /\ sup' = [sup EXCEPT ![g] = [NoSup EXCEPT !.at = "start"]]
  /\ UNCHANGED <<paired, claims, child, orphans, down, history, outlived, faults>>

\* SIGINT, SIGTERM, or the supervisor's stop().
Signal(g) ==
  /\ Alive(g) /\ ~guard[g].ended
  /\ (g \in Terminals /\ UNCHANGED faults) \/ (g = Service /\ Fault)
  /\ guard' = [guard EXCEPT ![g].ended = TRUE]
  /\ UNCHANGED <<paired, claims, sup, child, orphans, down, history, outlived>>

\* WaitHealthy returns, and ListenAndServe finds the port free, or fails.
Healthy(g) ==
  /\ Waits(g) /\ ~guard[g].ended /\ guard[g].waited < Patience
  /\ Answers
  /\ IF \E h \in Guards : Serves(h)
     THEN Ends(g) /\ UNCHANGED history
     ELSE /\ guard' = [guard EXCEPT ![g].at = "serving", ![g].waited = 0]
          /\ steady' = FALSE /\ early' = 0
          /\ UNCHANGED <<sup, child, orphans, outlived>>
  /\ UNCHANGED <<paired, claims, down, faults>>

\* WaitHealthy's deadline has passed, or the context has ended: fatal.
GivesUp(g) ==
  /\ Waits(g) /\ (guard[g].ended \/ guard[g].waited = Patience)
  /\ Ends(g)
  /\ UNCHANGED <<paired, claims, down, history, faults>>

\* ListenAndServe returns and so does main, which waits for nobody.
Exits(g) ==
  /\ Serves(g) /\ guard[g].ended
  /\ Ends(g)
  /\ UNCHANGED <<paired, claims, down, history, faults>>

\* Killed, or fatal for another reason.
Dies(g) ==
  /\ Alive(g) /\ Fault
  /\ Ends(g)
  /\ UNCHANGED <<paired, claims, down, history>>

-----------------------------------------------------------------------------
(* Supervisor.Run, and the engine.                                         *)

DoubledAlways(b) == 2 * b

Doubled(b) == IF b < MaxBackoff THEN 2 * b ELSE b

\* The child is started, at first or after the backoff.
Spawn(g) ==
  /\ ~guard[g].ended
  /\ \/ sup[g].at = "start" /\ sup' = [sup EXCEPT ![g].at = "running"]
     \/ /\ sup[g].at = "pause" /\ sup[g].left = 0
        /\ sup' = [sup EXCEPT ![g].at = "running", ![g].backoff = Doubled(@)]
  /\ child' = [child EXCEPT ![g] = [of |-> g, config |-> paired, up |-> FALSE]]
  /\ UNCHANGED <<paired, claims, guard, orphans, down, history, outlived, faults>>

BackoffKept(g) == sup[g].backoff

BackoffAfter(g) == IF sup[g].ran > LongRun THEN 1 ELSE sup[g].backoff

ChildEndsForGood(g, n) ==
  /\ child' = [child EXCEPT ![g] = NoEngine]
  /\ sup' = [sup EXCEPT ![g] = NoSup]
  /\ steady' = IF Serves(g) THEN sup[g].ran > LongRun ELSE steady
  /\ early' = IF Serves(g) THEN n ELSE early

\* cmd.Run returns, for the nth time in a row without the engine having had the port.
ChildEnds(g, n) ==
  /\ child' = [child EXCEPT ![g] = NoEngine]
  /\ sup' = [sup EXCEPT ![g] = [at |-> "pause", backoff |-> BackoffAfter(g), left |-> BackoffAfter(g), ran |-> 0]]
  /\ steady' = IF Serves(g) THEN sup[g].ran > LongRun ELSE steady
  /\ early' = IF Serves(g) THEN n ELSE early

\* The engine opens its port.
Bind(g) ==
  /\ HasChild(g) /\ ~child[g].up
  /\ child[g].config # 0 /\ ~Answers
  /\ child' = [child EXCEPT ![g].up = TRUE]
  /\ down' = 0
  /\ UNCHANGED <<paired, claims, guard, sup, orphans, history, outlived, faults>>

\* It has no configuration, or the port is taken.
BindFails(g) ==
  /\ HasChild(g) /\ ~child[g].up
  /\ child[g].config = 0 \/ Answers
  /\ ChildEnds(g, 0)
  /\ UNCHANGED <<paired, claims, guard, orphans, down, outlived, faults>>

\* It cannot be executed, or ends before it opens its port for a reason of its own.
NeverUp(g) ==
  /\ HasChild(g) /\ ~child[g].up /\ Fault
  /\ ChildEnds(g, early + 1)
  /\ UNCHANGED <<paired, claims, guard, orphans, down, outlived>>

Crash(g) ==
  /\ HasChild(g) /\ child[g].up /\ Fault
  /\ ChildEnds(g, 0)
  /\ UNCHANGED <<paired, claims, guard, orphans, down, outlived>>

\* The context has ended: the child is killed, and the supervisor returns.
Reap(g) ==
  /\ Alive(g) /\ guard[g].ended /\ sup[g].at # "off"
  /\ child' = [child EXCEPT ![g] = NoEngine]
  /\ sup' = [sup EXCEPT ![g] = NoSup]
  /\ UNCHANGED <<paired, claims, guard, orphans, down, history, outlived, faults>>

\* An engine without a guard.
OrphanBinds(e) ==
  /\ ~e.up
  /\ orphans' = (orphans \ {e}) \cup
                  (IF e.config = 0 \/ Answers THEN {} ELSE {[e EXCEPT !.up = TRUE]})
  /\ down' = IF e.config = 0 \/ Answers THEN down ELSE 0
  /\ UNCHANGED <<paired, claims, guard, sup, child, history, outlived, faults>>

OrphanEnds(e) ==
  /\ orphans' = orphans \ {e}
  /\ UNCHANGED <<paired, claims, guard, sup, child, down, history, outlived, faults>>

-----------------------------------------------------------------------------
(* init and uninstall, and time.                                           *)

Pair ==
  /\ paired = 0 /\ claims < MaxPairings
  /\ claims' = claims + 1 /\ paired' = claims'
  /\ UNCHANGED <<procs, down, history, outlived, faults>>

\* Whether svc.Uninstall ends the service is not looked at (main.go:396), nor by
\* it whether the service manager does.  The unit file goes in any case.
Uninstall ==
  /\ paired # 0
  /\ paired' = 0 /\ down' = 0
  /\ \/ Ends(Service) /\ UNCHANGED faults
     \/ Alive(Service) /\ Fault /\ outlived' = TRUE /\ UNCHANGED procs
  /\ UNCHANGED <<claims, history>>

Due ==
  \/ \E e \in Living : ~e.up
  \/ \E g \in Guards :
       \/ guard[g].ended
       \/ sup[g].at = "start"
       \/ sup[g].at = "pause" /\ sup[g].left = 0
       \/ Waits(g) /\ (Answers \/ guard[g].waited = Patience)

Second ==
  /\ ~Due
  /\ guard' = [g \in Guards |->
       IF Waits(g) /\ guard[g].waited < Patience THEN [guard[g] EXCEPT !.waited = @ + 1] ELSE guard[g]]
  /\ sup' = [g \in Guards |->
       CASE sup[g].at = "pause" /\ sup[g].left > 0 -> [sup[g] EXCEPT !.left = @ - 1]
         [] sup[g].at = "running" /\ sup[g].ran <= LongRun -> [sup[g] EXCEPT !.ran = @ + 1]
         [] OTHER -> sup[g]]
  /\ down' = IF Answers \/ paired = 0 \/ \A g \in Guards : ~Serves(g) THEN 0
             ELSE IF down <= Outage(MaxFaults) THEN down + 1 ELSE down
  /\ UNCHANGED <<paired, claims, child, orphans, history, outlived, faults>>

GoesOn(g) ==
  \/ Healthy(g) \/ GivesUp(g) \/ Exits(g)
  \/ Spawn(g) \/ Bind(g) \/ BindFails(g) \/ Reap(g)

Next ==
  \/ \E g \in Guards : Start(g) \/ Signal(g) \/ Dies(g) \/ NeverUp(g) \/ Crash(g) \/ GoesOn(g)
  \/ \E e \in orphans : OrphanBinds(e) \/ OrphanEnds(e)
  \/ Pair \/ Uninstall \/ Second

Spec == Init /\ [][Next]_vars

\* The service is started again whenever it ends, goroutines are scheduled, and
\* time goes by.
Fairness ==
  /\ WF_vars(Start(Service)) /\ WF_vars(Second)
  /\ \A g \in Guards : WF_vars(GoesOn(g))
  /\ WF_vars(\E e \in orphans : OrphanBinds(e))

FairSpec == Spec /\ Fairness

-----------------------------------------------------------------------------
(* Properties.                                                             *)

TypeOK ==
  /\ paired \in {0, claims} /\ claims \in Configs
  /\ guard \in [Guards -> [at : {"off", "waiting", "serving"}, cfg : Configs,
                           ended : BOOLEAN, waited : 0 .. Patience]]
  /\ sup \in [Guards -> [at : {"off", "start", "running", "pause"}, backoff : 1 .. Longest,
                         left : 0 .. Longest, ran : 0 .. LongRun + 1]]
  /\ child \in [Guards -> Engines \cup {NoEngine}] /\ orphans \subseteq Engines
  /\ down \in 0 .. Outage(MaxFaults) + 1 /\ steady \in BOOLEAN /\ outlived \in BOOLEAN
  /\ faults \in 0 .. MaxFaults /\ early \in 0 .. faults

\* A guard's requests are decided by the policy of the entity it records them
\* for, though it takes any engine that answers for its own (opa.go:188-203) and
\* engines are started with the configuration of the moment (opa.go:159-163).  A
\* mix-up takes a guard that is older than the pairing in force, or the engine of
\* one: one from a terminal, or a service that has outlived an uninstall.
OwnPolicy ==
  \A g \in Guards, e \in Living :
    Serves(g) /\ e.up =>
      \/ e.config = guard[g].cfg
      \/ e.config # paired /\ (e.of \in Terminals \/ outlived)
      \/ guard[g].cfg # paired /\ (g \in Terminals \/ outlived)

\* A guard that serves is never without an engine for longer than the longest
\* backoff, times the engines it takes until one has the port, and for no more
\* than a second if the last one had a long run and the next one gets the port,
\* whatever other guards and their engines do to it (opa.go:157-184).
OutageBounded == down <= IF steady THEN 1 ELSE Outage(early)

\* While there is a pairing, the machine is governed in the end: somebody has the
\* proxy's port, and somebody the engine's (opa.go:150, svc.go:106-112), unless
\* users start guards again and again, whose engines come and go.
Governed ==
  []<>(paired = 0 \/ (Answers /\ \E g \in Guards : Serves(g)) \/ \E t \in Terminals : Waits(t))
=============================================================================
