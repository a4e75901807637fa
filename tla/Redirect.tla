------------------------------ MODULE Redirect ------------------------------
(***************************************************************************)
(* Transparent mode on Linux: the kernel redirect (intercept/linux.go) and *)
(* the processes that install and remove it: the guard (cmdRun,            *)
(* runTransparent), which is started by hand and by root (main.go:166), and *)
(* `repair`.  Whether and when the guard is started again is left open: the *)
(* service of svc.go runs as the user and cannot change the redirect.      *)
(*                                                                         *)
(* Each iptables command is one step, and may fail although the kernel     *)
(* could do it: the xtables lock is taken, or the call is not permitted.   *)
(* A process may be killed between any two steps.                          *)
(***************************************************************************)
EXTENDS Naturals, Sequences

CONSTANTS
  Guards,       \* `aarvion-guard run`: those that may be started side by side
  Repairs,      \* `aarvion-guard repair`: each is run once
  Supported,    \* the families this kernel can redirect
  MaxFailures,  \* bound on the failures of what could have worked
  MaxKills      \* bound on the kills

Procs == Guards \cup Repairs

Families == {"v4", "v6"}

ASSUME SupportedAssumption == Supported \subseteq Families
ASSUME BoundsAssumption == MaxFailures \in Nat /\ MaxKills \in Nat

VARIABLES
  table,     \* per family: the chain, if made, its rules and the jumps to it
  proc,      \* per process: its task and the commands it has yet to run
  meddled,   \* history: a command was run while another process had the redirect
  failures, kills

vars == <<table, proc, meddled, failures, kills>>

RulesThirdPort == <<"lo", "net", "80", "443", "8443">>

\* The rules of a complete chain: leave loopback alone, redirect both ports.
Rules == <<"lo", "net", "80", "443">>
Ports == {"80", "443"}

Commands == {"new", "flush", "check", "hook", "unhook", "delete", "lo", "net", "80", "443"}

On(f, cmds) == [i \in DOMAIN cmds |-> [on |-> f, do |-> cmds[i]]]

Both(cmds) == On("v4", cmds) \o On("v6", cmds)

RemoveUnhooking == Both(<<"unhook", "delete">>)

\* Remove: every command's failure is ignored.
Remove == Both(<<"unhook", "flush", "delete">>)

InstallWithoutFlush == Both(<<"new">> \o Rules \o <<"check", "hook">>)

\* Install: the first failure ends it, but for those of new and check.
Install == Both(<<"new", "flush">> \o Rules \o <<"check", "hook">>)

Tasks == {"off", "waiting", "clear", "install", "listen", "serve", "teardown", "repair"}

\* How the last life of a process ended; slipped says whether a command of its
\* last Remove failed that could have worked.
Exits == {"none", "done", "fatal", "killed"}

Init ==
  /\ table = [f \in Families |-> [made |-> FALSE, rules |-> <<>>, hooks |-> 0]]
  /\ proc = [p \in Procs |-> [task |-> "off", todo |-> <<>>, exit |-> "none", slipped |-> FALSE]]
  /\ meddled = FALSE /\ failures = 0 /\ kills = 0

In(p, t) == proc[p].task = t /\ proc[p].todo = <<>>

Does(p, t, cmds) ==
  proc' = [proc EXCEPT ![p].task = t, ![p].todo = cmds, ![p].slipped = FALSE]

Ends(p, how) ==
  proc' = [proc EXCEPT ![p].task = "off", ![p].todo = <<>>, ![p].exit = how]

-----------------------------------------------------------------------------
(* Commands.                                                               *)

\* What the kernel needs for a command to work.
Works(k) ==
  LET t == table[k.on]
  IN  /\ k.on \in Supported
      /\ CASE k.do = "new" -> ~t.made
           [] k.do \in {"check", "unhook"} -> t.hooks > 0
           [] k.do = "delete" -> t.made /\ t.rules = <<>> /\ t.hooks = 0
           [] OTHER -> t.made

Effect(k) ==
  LET t == table[k.on]
  IN  CASE k.do = "new"    -> [t EXCEPT !.made = TRUE]
        [] k.do = "flush"  -> [t EXCEPT !.rules = <<>>]
        [] k.do = "check"  -> t
        [] k.do = "hook"   -> [t EXCEPT !.hooks = @ + 1]
        [] k.do = "unhook" -> [t EXCEPT !.hooks = @ - 1]
        [] k.do = "delete" -> [t EXCEPT !.made = FALSE]
        [] OTHER           -> [t EXCEPT !.rules = Append(@, k.do)]

\* A family that is hooked already is not hooked again.
Rest(todo) == IF Head(todo).do = "check" THEN Tail(Tail(todo)) ELSE Tail(todo)

IgnoredOnlyNew(task, k) == k.do \in {"new", "check"}
IgnoredAll(task, k) == TRUE

Ignored(task, k) == task # "install" \/ k.do \in {"new", "check"}

\* Between its first command and its last, and while it serves.
HasRedirect(p) == proc[p].task \notin {"off", "waiting"}

Succeed(p) ==
  LET k == Head(proc[p].todo)
  IN  /\ proc[p].todo # <<>>
      /\ Works(k)
      /\ table' = [table EXCEPT ![k.on] = Effect(k)]
      /\ proc' = [proc EXCEPT ![p].todo = Rest(@)]
      /\ meddled' = (meddled \/ \E q \in Procs \ {p} : HasRedirect(q))
      /\ UNCHANGED <<failures, kills>>

Fail(p) ==
  LET k == Head(proc[p].todo)
  IN  /\ proc[p].todo # <<>>
      /\ Works(k) => failures < MaxFailures
      /\ failures' = IF Works(k) THEN failures + 1 ELSE failures
      /\ IF Ignored(proc[p].task, k)
         THEN proc' = [proc EXCEPT ![p].todo = Tail(@), ![p].slipped = @ \/ Works(k)]
         ELSE Ends(p, "fatal")
      /\ UNCHANGED <<table, meddled, kills>>

-----------------------------------------------------------------------------
(* The guard.                                                              *)

\* Somebody runs `aarvion-guard run`, for the first time or again.
Start(g) ==
  /\ In(g, "off")
  /\ Does(g, "waiting", <<>>)
  /\ UNCHANGED <<table, meddled, failures, kills>>

\* EnsureBinary, WaitHealthy and ensureGroup: without the policy engine, or
\* without the group and the right to add it, the guard exits.
Healthy(g) ==
  /\ In(g, "waiting")
  /\ Does(g, "clear", Remove)
  /\ UNCHANGED <<table, meddled, failures, kills>>

Unhealthy(g) ==
  /\ In(g, "waiting")
  /\ Ends(g, "fatal")
  /\ UNCHANGED <<table, meddled, failures, kills>>

\* Orphans of an earlier life are cleared before fresh rules are made.
Cleared(g) ==
  /\ In(g, "clear")
  /\ Does(g, "install", Install)
  /\ UNCHANGED <<table, meddled, failures, kills>>

\* From here on the redirect is removed when runTransparent returns.
Installed(g) ==
  /\ In(g, "install")
  /\ Does(g, "listen", <<>>)
  /\ UNCHANGED <<table, meddled, failures, kills>>

PortFree == \A g \in Guards : proc[g].task # "serve"

Listen(g) ==
  /\ In(g, "listen") /\ PortFree
  /\ Does(g, "serve", <<>>)
  /\ UNCHANGED <<table, meddled, failures, kills>>

\* The port is taken, by another guard or by another program.
CannotListen(g) ==
  /\ In(g, "listen")
  /\ PortFree => failures < MaxFailures
  /\ failures' = IF PortFree THEN failures + 1 ELSE failures
  /\ Does(g, "teardown", Remove)
  /\ UNCHANGED <<table, meddled, kills>>

\* A signal, a supervisor that gave up, or an error of Accept.
Stop(g) ==
  /\ In(g, "serve")
  /\ Does(g, "teardown", Remove)
  /\ UNCHANGED <<table, meddled, failures, kills>>

Stopped(g) ==
  /\ In(g, "teardown")
  /\ Ends(g, "done")
  /\ UNCHANGED <<table, meddled, failures, kills>>

-----------------------------------------------------------------------------
(* Repair, kills.                                                          *)

Repair(r) ==
  /\ In(r, "off") /\ proc[r].exit = "none"
  /\ Does(r, "repair", Remove)
  /\ UNCHANGED <<table, meddled, failures, kills>>

Repaired(r) ==
  /\ In(r, "repair")
  /\ Ends(r, "done")
  /\ UNCHANGED <<table, meddled, failures, kills>>

\* The ports of a killed guard are freed, its rules stay.
Kill(p) ==
  /\ proc[p].task # "off" /\ kills < MaxKills
  /\ kills' = kills + 1
  /\ Ends(p, "killed")
  /\ UNCHANGED <<table, meddled, failures>>

Runs(g) ==
  Healthy(g) \/ Cleared(g) \/ Installed(g) \/ Listen(g) \/ CannotListen(g) \/ Stopped(g)

Next ==
  \/ \E p \in Procs : Succeed(p) \/ Fail(p) \/ Kill(p)
  \/ \E g \in Guards : Start(g) \/ Runs(g) \/ Unhealthy(g) \/ Stop(g)
  \/ \E r \in Repairs : Repair(r) \/ Repaired(r)

Spec == Init /\ [][Next]_vars

\* A guard that runs goes on; nobody need start one.
Fairness ==
  \A g \in Guards : WF_vars(Succeed(g) \/ Fail(g)) /\ WF_vars(Runs(g))

FairSpec == Spec /\ Fairness

-----------------------------------------------------------------------------
(* Properties.                                                             *)

TypeOK ==
  /\ table \in [Families -> [made : BOOLEAN, rules : Seq(Commands), hooks : Nat]]
  /\ proc \in [Procs -> [task : Tasks, todo : Seq([on : Families, do : Commands]),
                         exit : Exits, slipped : BOOLEAN]]
  /\ meddled \in BOOLEAN /\ failures \in 0 .. MaxFailures /\ kills \in 0 .. MaxKills

Prefix(s, t) == Len(s) <= Len(t) /\ s = SubSeq(t, 1, Len(s))

Redirects(f) ==
  table[f].hooks > 0 /\ \E i \in DOMAIN table[f].rules : table[f].rules[i] \in Ports

Complete(f) == table[f].hooks > 0 /\ table[f].rules = Rules

\* Unless two processes work on it at a time, the chain is never anything but a
\* beginning of the complete one: whatever fails, is killed and restarted, rules
\* are not stacked on those of an earlier life, and loopback is exempt before
\* anything is redirected (linux.go:39-50, main.go:278-279).
NeverStacked == ~meddled => \A f \in Families : Prefix(table[f].rules, Rules)

\* While the guard serves, and no other process has touched the redirect, no TCP
\* connection of the governed group to 80 or 443 escapes it, in either family
\* (README.md:34-37).
Governed == meddled \/ \A f \in Families : Complete(f)

ServingGoverned == \A g \in Guards : proc[g].task = "serve" => Governed

Removing == {"clear", "teardown", "repair"}

\* Whoever has run Remove, no command failing by chance and nobody else at it,
\* leaves nothing redirected, even if a family was hooked twice: a guard that
\* stops or begins, and `repair` (linux.go:61-72, main.go:278-286).
CleanStop ==
  \A p \in Procs, t \in Removing :
    In(p, t) /\ ~proc[p].slipped /\ ~meddled => \A f \in Families : ~Redirects(f)

\* Past the policy engine and the group: at the redirect, or serving.
Lives(g) == proc[g].task \notin {"off", "waiting"}

\* If somebody keeps starting a guard, as root, and the policy engine comes up
\* for it again and again, then whatever a failed command or a kill has left
\* behind, a guard serves again, with both families governed (README.md:55-57).
SelfHeals ==
  \A g \in Guards :
    []<>Lives(g) => []<>(\E h \in Guards : proc[h].task = "serve" /\ Governed)

\* README.md:41-42: "always torn down on stop", unless it is killed, one of the
\* commands of its teardown fails by chance, or another process works on the
\* redirect beside it.
StopTearsDown ==
  \A g \in Guards :
    In(g, "off") /\ proc[g].exit \in {"done", "fatal"} /\ ~proc[g].slipped /\ ~meddled =>
      \A f \in Families : ~Redirects(f)
=============================================================================
