--------------------------- MODULE RedirectProofs ---------------------------
(***************************************************************************)
(* Proofs about Redirect, for any number of guards and repairs, any        *)
(* kernel, and any number of failures and kills.                           *)
(*                                                                         *)
(* A process has a suffix of the program of its task yet to run; what it   *)
(* has run says what is in the table, for as long as nobody meddles.       *)
(***************************************************************************)
EXTENDS Redirect, SequenceTheorems, TLAPS

Command == [on : Families, do : Commands]

InstallOne == <<"new", "flush">> \o Rules \o <<"check", "hook">>

RemoveOne == <<"unhook", "flush", "delete">>

Suffix(s, t) == Len(s) <= Len(t) /\ \A i \in 1 .. Len(s) : s[i] = t[Len(t) - Len(s) + i]

Program(task) ==
  CASE task = "install" -> Install
    [] task \in Removing -> Remove
    [] OTHER -> <<>>

Left(p) == Len(proc[p].todo)

\* The command that is next.
Cmd(p) == Head(proc[p].todo)

\* How many commands of its program p has run for a family of which the program
\* has n; below 0 while it is at the family before, above n when it is at the next.
Done(p, f, n) == (IF f = "v4" THEN 2 * n ELSE n) - Left(p)

-----------------------------------------------------------------------------
(* The programs.                                                           *)

LEMMA InstallOneIs ==
  /\ InstallOne \in Seq(Commands) /\ Len(InstallOne) = 8
  /\ InstallOne[1] = "new" /\ InstallOne[2] = "flush" /\ InstallOne[3] = "lo" /\ InstallOne[4] = "net"
  /\ InstallOne[5] = "80" /\ InstallOne[6] = "443" /\ InstallOne[7] = "check" /\ InstallOne[8] = "hook"
BY DEF InstallOne, Rules, Commands

LEMMA RemoveOneIs ==
  /\ RemoveOne \in Seq(Commands) /\ Len(RemoveOne) = 3
  /\ RemoveOne[1] = "unhook" /\ RemoveOne[2] = "flush" /\ RemoveOne[3] = "delete"
BY DEF RemoveOne, Commands

LEMMA BothIs ==
  ASSUME NEW c \in Seq(Commands)
  PROVE  /\ Both(c) \in Seq(Command) /\ Len(Both(c)) = 2 * Len(c)
         /\ \A i \in 1 .. Len(c) : Both(c)[i] = [on |-> "v4", do |-> c[i]]
         /\ \A i \in Len(c) + 1 .. 2 * Len(c) : Both(c)[i] = [on |-> "v6", do |-> c[i - Len(c)]]
<1>1. ASSUME NEW f \in Families
      PROVE  On(f, c) \in Seq(Command) /\ Len(On(f, c)) = Len(c)
             /\ \A i \in 1 .. Len(c) : On(f, c)[i] = [on |-> f, do |-> c[i]]
  <2>1. DOMAIN c = 1 .. Len(c) /\ Len(c) \in Nat /\ \A i \in 1 .. Len(c) : c[i] \in Commands
    OBVIOUS
  <2>2. On(f, c) = [i \in 1 .. Len(c) |-> [on |-> f, do |-> c[i]]]
    BY <2>1 DEF On
  <2>3. \A i \in 1 .. Len(c) : [on |-> f, do |-> c[i]] \in Command
    BY <2>1 DEF Command
  <2> QED BY <2>1, <2>2, <2>3
<1>2. On("v4", c) \in Seq(Command) /\ On("v6", c) \in Seq(Command)
      /\ Len(On("v4", c)) = Len(c) /\ Len(On("v6", c)) = Len(c)
  BY <1>1 DEF Families
<1>3. \A i \in 1 .. Len(c) : On("v4", c)[i] = [on |-> "v4", do |-> c[i]] /\ On("v6", c)[i] = [on |-> "v6", do |-> c[i]]
  BY <1>1 DEF Families
<1>4. ASSUME NEW a \in Seq(Command), NEW b \in Seq(Command), Len(a) = Len(c), Len(b) = Len(c)
      PROVE  /\ a \o b \in Seq(Command) /\ Len(a \o b) = 2 * Len(c)
             /\ \A i \in 1 .. Len(c) : (a \o b)[i] = a[i]
             /\ \A i \in Len(c) + 1 .. 2 * Len(c) : (a \o b)[i] = b[i - Len(c)]
  <2>1. /\ a \o b \in Seq(Command) /\ Len(a \o b) = Len(a) + Len(b)
        /\ \A i \in 1 .. Len(a) + Len(b) : (a \o b)[i] = IF i <= Len(a) THEN a[i] ELSE b[i - Len(a)]
    BY ConcatProperties
  <2>2. Len(c) \in Nat /\ Len(a) + Len(b) = 2 * Len(c)
    BY <1>4
  <2> QED BY <1>4, <2>1, <2>2
<1>5. \A i \in Len(c) + 1 .. 2 * Len(c) : i - Len(c) \in 1 .. Len(c)
  OBVIOUS
<1> QED BY <1>2, <1>3, <1>4, <1>5 DEF Both

LEMMA InstallIs ==
  /\ Install \in Seq(Command) /\ Len(Install) = 16
  /\ \A i \in 1 .. 8 : Install[i] = [on |-> "v4", do |-> InstallOne[i]]
  /\ \A i \in 9 .. 16 : Install[i] = [on |-> "v6", do |-> InstallOne[i - 8]]
<1>1. Install = Both(InstallOne)
  BY DEF Install, InstallOne
<1>2. InstallOne \in Seq(Commands) /\ Len(InstallOne) = 8
  BY InstallOneIs
<1>3. /\ Both(InstallOne) \in Seq(Command) /\ Len(Both(InstallOne)) = 2 * Len(InstallOne)
      /\ \A i \in 1 .. Len(InstallOne) : Both(InstallOne)[i] = [on |-> "v4", do |-> InstallOne[i]]
      /\ \A i \in Len(InstallOne) + 1 .. 2 * Len(InstallOne) : Both(InstallOne)[i] = [on |-> "v6", do |-> InstallOne[i - Len(InstallOne)]]
  BY <1>2, BothIs, Zenon
<1>4. 2 * Len(InstallOne) = 16 /\ Len(InstallOne) + 1 = 9
  BY <1>2
<1> QED BY <1>1, <1>2, <1>3, <1>4

LEMMA RemoveIs ==
  /\ Remove \in Seq(Command) /\ Len(Remove) = 6
  /\ \A i \in 1 .. 3 : Remove[i] = [on |-> "v4", do |-> RemoveOne[i]]
  /\ \A i \in 4 .. 6 : Remove[i] = [on |-> "v6", do |-> RemoveOne[i - 3]]
<1>1. Remove = Both(RemoveOne)
  BY DEF Remove, RemoveOne
<1>2. RemoveOne \in Seq(Commands) /\ Len(RemoveOne) = 3
  BY RemoveOneIs
<1>3. /\ Both(RemoveOne) \in Seq(Command) /\ Len(Both(RemoveOne)) = 2 * Len(RemoveOne)
      /\ \A i \in 1 .. Len(RemoveOne) : Both(RemoveOne)[i] = [on |-> "v4", do |-> RemoveOne[i]]
      /\ \A i \in Len(RemoveOne) + 1 .. 2 * Len(RemoveOne) : Both(RemoveOne)[i] = [on |-> "v6", do |-> RemoveOne[i - Len(RemoveOne)]]
  BY <1>2, BothIs, Zenon
<1>4. 2 * Len(RemoveOne) = 6 /\ Len(RemoveOne) + 1 = 4
  BY <1>2
<1> QED BY <1>1, <1>2, <1>3, <1>4

LEMMA ProgramType == \A t : Program(t) \in Seq(Command)
BY InstallIs, RemoveIs DEF Program

LEMMA SuffixWhole == \A t \in Seq(Command) : Suffix(t, t) /\ Suffix(<<>>, t)
BY DEF Suffix

LEMMA SuffixTail ==
  ASSUME NEW s \in Seq(Command), NEW t \in Seq(Command), Suffix(s, t), s # <<>>
  PROVE  /\ Suffix(Tail(s), t) /\ Tail(s) \in Seq(Command) /\ Len(Tail(s)) = Len(s) - 1
         /\ Len(s) \in 1 .. Len(t) /\ Head(s) = t[Len(t) - Len(s) + 1] /\ Head(s) \in Command
<1>1. /\ Tail(s) \in Seq(Command) /\ Len(Tail(s)) = Len(s) - 1 /\ Len(s) \in Nat \ {0} /\ Len(t) \in Nat
      /\ \A i \in 1 .. Len(Tail(s)) : Tail(s)[i] = s[i + 1]
      /\ Head(s) = s[1] /\ Head(s) \in Command
  BY HeadTailProperties, EmptySeq
<1>2. \A i \in 1 .. Len(Tail(s)) : Tail(s)[i] = t[Len(t) - Len(Tail(s)) + i]
  BY <1>1 DEF Suffix
<1> QED BY <1>1, <1>2 DEF Suffix

-----------------------------------------------------------------------------
(* Types.                                                                  *)

TableType == [made : BOOLEAN, rules : Seq(Commands), hooks : Nat]

ProcType == [task : Tasks, todo : Seq(Command), exit : Exits, slipped : BOOLEAN]

TypeInv ==
  /\ table \in [Families -> TableType] /\ proc \in [Procs -> ProcType]
  /\ meddled \in BOOLEAN /\ failures \in 0 .. MaxFailures /\ kills \in 0 .. MaxKills
  /\ \A p \in Procs : Suffix(proc[p].todo, Program(proc[p].task))

LEMMA TypeParts == TypeInv => TypeOK
BY DEF TypeInv, TypeOK, TableType, ProcType, Command

LEMMA DoesIs ==
  ASSUME TypeInv, NEW p \in Procs, NEW t \in Tasks, Does(p, t, Program(t))
  PROVE  /\ \A q \in Procs : q # p => proc'[q] = proc[q]
         /\ proc'[p].task = t /\ proc'[p].todo = Program(t) /\ proc'[p].slipped = FALSE
         /\ proc' \in [Procs -> ProcType]
         /\ \A q \in Procs : Suffix(proc'[q].todo, Program(proc'[q].task))
<1>1. proc[p] \in ProcType
  BY DEF TypeInv
<1>2. proc' = [proc EXCEPT ![p] = [proc[p] EXCEPT !.task = t, !.todo = Program(t), !.slipped = FALSE]]
  BY DEF Does, TypeInv
<1>3. [proc[p] EXCEPT !.task = t, !.todo = Program(t), !.slipped = FALSE] \in ProcType
  BY <1>1, ProgramType DEF ProcType
<1>4. proc' \in [Procs -> ProcType] /\ \A q \in Procs : q # p => proc'[q] = proc[q]
  BY <1>2, <1>3 DEF TypeInv
<1>5. proc'[p].task = t /\ proc'[p].todo = Program(t) /\ proc'[p].slipped = FALSE
  BY <1>1, <1>2 DEF TypeInv, ProcType
<1>6. Suffix(proc'[p].todo, Program(proc'[p].task))
  BY <1>5, ProgramType, SuffixWhole
<1> QED BY <1>4, <1>5, <1>6 DEF TypeInv

LEMMA EndsIs ==
  ASSUME TypeInv, NEW p \in Procs, NEW how \in Exits, Ends(p, how)
  PROVE  /\ \A q \in Procs : q # p => proc'[q] = proc[q]
         /\ proc'[p].task = "off" /\ proc'[p].todo = <<>>
         /\ proc' \in [Procs -> ProcType]
         /\ \A q \in Procs : Suffix(proc'[q].todo, Program(proc'[q].task))
<1>1. proc[p] \in ProcType
  BY DEF TypeInv
<1>2. proc' = [proc EXCEPT ![p] = [proc[p] EXCEPT !.task = "off", !.todo = <<>>, !.exit = how]]
  BY DEF Ends, TypeInv
<1>3. [proc[p] EXCEPT !.task = "off", !.todo = <<>>, !.exit = how] \in ProcType
  BY <1>1, EmptySeq DEF ProcType, Tasks
<1>4. proc' \in [Procs -> ProcType] /\ \A q \in Procs : q # p => proc'[q] = proc[q]
  BY <1>2, <1>3 DEF TypeInv
<1>5. proc'[p].task = "off" /\ proc'[p].todo = <<>>
  BY <1>1, <1>2 DEF TypeInv, ProcType
<1>6. Suffix(proc'[p].todo, Program(proc'[p].task))
  BY <1>5, ProgramType, SuffixWhole
<1> QED BY <1>4, <1>5, <1>6 DEF TypeInv

\* The command that is next, and what is left when it is done.
LEMMA NextCommand ==
  ASSUME TypeInv, NEW p \in Procs, proc[p].todo # <<>>
  PROVE  /\ proc[p].task = "install" \/ proc[p].task \in Removing
         /\ Cmd(p) \in Command /\ Left(p) \in Nat \ {0}
         /\ proc[p].task = "install" =>
              /\ Left(p) \in 1 .. 16
              /\ Left(p) >= 9 => Cmd(p) = [on |-> "v4", do |-> InstallOne[17 - Left(p)]]
              /\ Left(p) <= 8 => Cmd(p) = [on |-> "v6", do |-> InstallOne[9 - Left(p)]]
         /\ proc[p].task \in Removing =>
              /\ Left(p) \in 1 .. 6
              /\ Left(p) >= 4 => Cmd(p) = [on |-> "v4", do |-> RemoveOne[7 - Left(p)]]
              /\ Left(p) <= 3 => Cmd(p) = [on |-> "v6", do |-> RemoveOne[4 - Left(p)]]
         /\ Tail(proc[p].todo) \in Seq(Command) /\ Len(Tail(proc[p].todo)) = Left(p) - 1
         /\ Suffix(Tail(proc[p].todo), Program(proc[p].task))
<1> DEFINE s == proc[p].todo
           t == Program(proc[p].task)
<1>1. s \in Seq(Command) /\ t \in Seq(Command) /\ Suffix(s, t)
  BY ProgramType DEF TypeInv, ProcType
<1>2. /\ Suffix(Tail(s), t) /\ Tail(s) \in Seq(Command) /\ Len(Tail(s)) = Left(p) - 1
      /\ Left(p) \in 1 .. Len(t) /\ Cmd(p) = t[Len(t) - Left(p) + 1] /\ Cmd(p) \in Command
  BY <1>1, SuffixTail DEF Left, Cmd
<1>3. Len(t) \in Nat /\ Left(p) \in Nat \ {0} /\ Len(t) # 0
  BY <1>1, <1>2
<1>4. proc[p].task = "install" \/ proc[p].task \in Removing
  BY <1>3 DEF Program
<1>5. CASE proc[p].task = "install"
  <2>1. t = Install /\ proc[p].task \notin Removing
    BY <1>5 DEF Program, Removing
  <2>2. Left(p) \in 1 .. 16 /\ Cmd(p) = Install[17 - Left(p)]
    <3>0. Len(t) = 16 /\ Left(p) \in 1 .. 16
      BY <1>2, <2>1, InstallIs
    <3>1. 16 - Left(p) + 1 = 17 - Left(p)
      BY <3>0
    <3> HIDE DEF t
    <3> QED BY <1>2, <2>1, <3>0, <3>1
  <2>3. Left(p) >= 9 => 17 - Left(p) \in 1 .. 8
    BY <2>2
  <2>4. Left(p) <= 8 => 17 - Left(p) \in 9 .. 16 /\ 17 - Left(p) - 8 = 9 - Left(p)
    BY <2>2
  <2> QED BY <1>2, <1>3, <1>5, <2>1, <2>2, <2>3, <2>4, InstallIs
<1>6. CASE proc[p].task \in Removing
  <2>1. t = Remove /\ proc[p].task # "install"
    BY <1>6 DEF Program, Removing
  <2>2. Left(p) \in 1 .. 6 /\ Cmd(p) = Remove[7 - Left(p)]
    <3>1. Len(t) = 6 /\ Left(p) \in 1 .. 6 /\ 6 - Left(p) + 1 = 7 - Left(p)
      BY <1>2, <2>1, RemoveIs
    <3> HIDE DEF t
    <3> QED BY <1>2, <2>1, <3>1
  <2>3. Left(p) >= 4 => 7 - Left(p) \in 1 .. 3
    BY <2>2
  <2>4. Left(p) <= 3 => 7 - Left(p) \in 4 .. 6 /\ 7 - Left(p) - 3 = 4 - Left(p)
    BY <2>2
  <2> QED BY <1>2, <1>3, <1>6, <2>1, <2>2, <2>3, <2>4, RemoveIs
<1> QED BY <1>4, <1>5, <1>6

\* What is left of the commands when one has succeeded: check is followed by hook.
LEMMA RestIs ==
  ASSUME TypeInv, NEW p \in Procs, proc[p].todo # <<>>
  PROVE  /\ Rest(proc[p].todo) \in Seq(Command)
         /\ Suffix(Rest(proc[p].todo), Program(proc[p].task))
         /\ Len(Rest(proc[p].todo)) = IF Cmd(p).do = "check" THEN Left(p) - 2 ELSE Left(p) - 1
<1> DEFINE t == Program(proc[p].task)
           u == Tail(proc[p].todo)
           r == Rest(proc[p].todo)
<1>1. /\ u \in Seq(Command) /\ Len(u) = Left(p) - 1 /\ Suffix(u, t) /\ t \in Seq(Command)
      /\ Left(p) \in Nat
  BY NextCommand, ProgramType
<1>2. r = IF Cmd(p).do = "check" THEN Tail(u) ELSE u
  BY DEF Rest, Cmd
<1> HIDE DEF t, u, r
<1>3. CASE Cmd(p).do = "check"
  <2>1. Left(p) >= 2
    <3>1. CASE proc[p].task = "install"
      <4>1. Left(p) \in 1 .. 16 /\ (Left(p) = 1 => Cmd(p) = [on |-> "v6", do |-> InstallOne[8]])
        BY <3>1, NextCommand
      <4> QED BY <1>3, <4>1, InstallOneIs
    <3>2. CASE proc[p].task \in Removing
      <4>1. Left(p) \in 1 .. 6 /\ (Left(p) = 1 => Cmd(p) = [on |-> "v6", do |-> RemoveOne[3]])
        BY <3>2, NextCommand
      <4> QED BY <1>3, <4>1, RemoveOneIs
    <3> QED BY <3>1, <3>2, NextCommand
  <2>2. u # <<>>
    BY <1>1, <2>1
  <2>3. Suffix(Tail(u), t) /\ Tail(u) \in Seq(Command) /\ Len(Tail(u)) = Left(p) - 1 - 1
    BY <1>1, <2>2, SuffixTail
  <2>4. r = Tail(u)
    BY <1>2, <1>3
  <2>5. r \in Seq(Command) /\ Suffix(r, t) /\ Len(r) = Left(p) - 2
    BY <1>1, <2>3, <2>4
  <2> QED BY <1>3, <2>5 DEF r, t
<1>4. CASE Cmd(p).do # "check"
  <2>1. r \in Seq(Command) /\ Suffix(r, t) /\ Len(r) = Left(p) - 1
    BY <1>1, <1>2, <1>4
  <2> QED BY <1>4, <2>1 DEF r, t
<1> QED BY <1>3, <1>4


\* What a command that works does to the chain of its family.
LEMMA EffectIs ==
  ASSUME TypeInv, NEW k \in Command, Works(k), NEW t, t = table[k.on]
  PROVE  /\ Effect(k) \in TableType /\ t \in TableType /\ k.on \in Supported /\ k.on \in Families
         /\ k.do = "new" => Effect(k).made /\ Effect(k).rules = t.rules /\ Effect(k).hooks = t.hooks
         /\ k.do = "flush" => t.made /\ Effect(k).made /\ Effect(k).rules = <<>> /\ Effect(k).hooks = t.hooks
         /\ k.do = "check" => Effect(k) = t /\ t.hooks > 0
         /\ k.do = "hook" => t.made /\ Effect(k).made /\ Effect(k).rules = t.rules /\ Effect(k).hooks = t.hooks + 1
         /\ k.do = "unhook" => Effect(k).made = t.made /\ Effect(k).rules = t.rules /\ t.hooks > 0
         /\ k.do = "delete" => Effect(k).rules = t.rules /\ t.rules = <<>> /\ Effect(k).hooks = 0
         /\ k.do \in {"lo", "net", "80", "443"} =>
              t.made /\ Effect(k).made /\ Effect(k).rules = Append(t.rules, k.do) /\ Effect(k).hooks = t.hooks
<1>1. t \in TableType /\ k.do \in Commands /\ k.on \in Families /\ k.on \in Supported
  BY DEF TypeInv, Command, Works
<1>2. CASE k.do = "new"
  <2>1. Effect(k) = [t EXCEPT !.made = TRUE]
    BY <1>2 DEF Effect
  <2> QED BY <1>1, <1>2, <2>1 DEF TableType
<1>3. CASE k.do = "flush"
  <2>1. Effect(k) = [t EXCEPT !.rules = <<>>] /\ t.made
    BY <1>3 DEF Effect, Works
  <2>2. <<>> \in Seq(Commands)
    OBVIOUS
  <2> QED BY <1>1, <1>3, <2>1, <2>2 DEF TableType
<1>4. CASE k.do = "check"
  <2>1. Effect(k) = t /\ t.hooks > 0
    BY <1>4 DEF Effect, Works
  <2> QED BY <1>1, <1>4, <2>1
<1>5. CASE k.do = "hook"
  <2>1. Effect(k) = [t EXCEPT !.hooks = t.hooks + 1] /\ t.made
    BY <1>5 DEF Effect, Works
  <2> QED BY <1>1, <1>5, <2>1 DEF TableType
<1>6. CASE k.do = "unhook"
  <2>1. Effect(k) = [t EXCEPT !.hooks = t.hooks - 1] /\ t.hooks > 0
    BY <1>6 DEF Effect, Works
  <2> QED BY <1>1, <1>6, <2>1 DEF TableType
<1>7. CASE k.do = "delete"
  <2>1. Effect(k) = [t EXCEPT !.made = FALSE] /\ t.rules = <<>> /\ t.hooks = 0
    BY <1>7 DEF Effect, Works
  <2> QED BY <1>1, <1>7, <2>1 DEF TableType
<1>8. CASE k.do \in {"lo", "net", "80", "443"}
  <2>1. Effect(k) = [t EXCEPT !.rules = Append(t.rules, k.do)] /\ t.made
    BY <1>8 DEF Effect, Works
  <2>2. Append(t.rules, k.do) \in Seq(Commands)
    BY <1>1, AppendProperties DEF TableType
  <2> QED BY <1>1, <1>8, <2>1, <2>2 DEF TableType
<1> QED BY <1>1, <1>2, <1>3, <1>4, <1>5, <1>6, <1>7, <1>8 DEF Commands

\* A command that works: the new table and what is left to do.
LEMMA SucceedIs ==
  ASSUME TypeInv, NEW p \in Procs, Succeed(p)
  PROVE  /\ TypeInv' /\ Works(Cmd(p)) /\ Cmd(p) \in Command
         /\ proc[p].todo # <<>> /\ Left(p) \in Nat
         /\ table'[Cmd(p).on] = Effect(Cmd(p))
         /\ \A f \in Families : f # Cmd(p).on => table'[f] = table[f]
         /\ \A q \in Procs : q # p => proc'[q] = proc[q]
         /\ proc'[p].task = proc[p].task /\ proc'[p].slipped = proc[p].slipped
         /\ Left(p)' = IF Cmd(p).do = "check" THEN Left(p) - 2 ELSE Left(p) - 1
         /\ ~meddled' => ~meddled /\ \A q \in Procs : q # p => ~HasRedirect(q)
<1> DEFINE r == Rest(proc[p].todo)
<1>1. proc[p].todo # <<>> /\ Works(Cmd(p)) /\ table' = [table EXCEPT ![Cmd(p).on] = Effect(Cmd(p))]
      /\ proc' = [proc EXCEPT ![p].todo = r]
  BY DEF Succeed, Cmd
<1>2. Cmd(p) \in Command /\ Left(p) \in Nat
  BY <1>1, NextCommand
<1>3. r \in Seq(Command) /\ Suffix(r, Program(proc[p].task))
      /\ Len(r) = IF Cmd(p).do = "check" THEN Left(p) - 2 ELSE Left(p) - 1
  BY <1>1, RestIs
<1> HIDE DEF r
<1>4. proc[p] \in ProcType /\ proc \in [Procs -> ProcType]
  BY DEF TypeInv
<1>5. proc' \in [Procs -> ProcType] /\ proc'[p] = [proc[p] EXCEPT !.todo = r]
      /\ \A q \in Procs : q # p => proc'[q] = proc[q]
  BY <1>1, <1>3, <1>4 DEF ProcType
<1>6. proc'[p].task = proc[p].task /\ proc'[p].slipped = proc[p].slipped /\ proc'[p].todo = r
  BY <1>4, <1>5 DEF ProcType
<1>7. Effect(Cmd(p)) \in TableType /\ Cmd(p).on \in Families
  BY <1>1, <1>2, EffectIs
<1>8. table' \in [Families -> TableType]
      /\ table'[Cmd(p).on] = Effect(Cmd(p)) /\ \A f \in Families : f # Cmd(p).on => table'[f] = table[f]
  BY <1>1, <1>7 DEF TypeInv
<1>9. meddled' = (meddled \/ \E q \in Procs \ {p} : HasRedirect(q)) /\ UNCHANGED <<failures, kills>>
  BY DEF Succeed
<1>10. meddled' \in BOOLEAN /\ (~meddled' => ~meddled /\ \A q \in Procs : q # p => ~HasRedirect(q))
  BY <1>9, Zenon
<1>11. \A q \in Procs : Suffix(proc'[q].todo, Program(proc'[q].task))
  BY <1>3, <1>5, <1>6 DEF TypeInv
<1>12. TypeInv'
  BY <1>5, <1>8, <1>9, <1>10, <1>11 DEF TypeInv
<1>13. Left(p)' = Len(r)
  BY <1>6 DEF Left
<1> QED BY <1>1, <1>2, <1>3, <1>5, <1>6, <1>8, <1>10, <1>12, <1>13

\* A command that fails and is ignored.
LEMMA FailIs ==
  ASSUME TypeInv, NEW p \in Procs, Fail(p), Ignored(proc[p].task, Cmd(p))
  PROVE  /\ TypeInv' /\ Cmd(p) \in Command /\ proc[p].todo # <<>> /\ Left(p) \in Nat
         /\ UNCHANGED <<table, meddled>>
         /\ \A q \in Procs : q # p => proc'[q] = proc[q]
         /\ proc'[p].task = proc[p].task
         /\ ~proc'[p].slipped => ~proc[p].slipped /\ ~Works(Cmd(p))
         /\ Left(p)' = Left(p) - 1
<1> DEFINE r == Tail(proc[p].todo)
           sl == proc[p].slipped \/ Works(Cmd(p))
<1>1. proc[p].todo # <<>> /\ UNCHANGED <<table, meddled, kills>>
      /\ proc' = [proc EXCEPT ![p].todo = r, ![p].slipped = sl]
  BY DEF Fail, Cmd
<1>2. Cmd(p) \in Command /\ Left(p) \in Nat
      /\ r \in Seq(Command) /\ Suffix(r, Program(proc[p].task)) /\ Len(r) = Left(p) - 1
  BY <1>1, NextCommand
<1>3. failures' \in 0 .. MaxFailures
  BY BoundsAssumption DEF Fail, TypeInv
<1>4. sl \in BOOLEAN /\ (~sl => ~proc[p].slipped /\ ~Works(Cmd(p)))
  OBVIOUS
<1> HIDE DEF r, sl
<1>5. proc[p] \in ProcType /\ proc \in [Procs -> ProcType]
  BY DEF TypeInv
<1>6. proc' \in [Procs -> ProcType] /\ proc'[p] = [proc[p] EXCEPT !.todo = r, !.slipped = sl]
      /\ \A q \in Procs : q # p => proc'[q] = proc[q]
  BY <1>1, <1>2, <1>4, <1>5 DEF ProcType
<1>7. proc'[p].task = proc[p].task /\ proc'[p].slipped = sl /\ proc'[p].todo = r
  BY <1>5, <1>6 DEF ProcType
<1>8. \A q \in Procs : Suffix(proc'[q].todo, Program(proc'[q].task))
  BY <1>2, <1>6, <1>7 DEF TypeInv
<1>9. TypeInv'
  BY <1>1, <1>3, <1>6, <1>8 DEF TypeInv
<1>10. Left(p)' = Len(r)
  BY <1>7 DEF Left
<1> QED BY <1>1, <1>2, <1>4, <1>6, <1>7, <1>9, <1>10


\* What a step that runs no command does to the processes.
Changes(p, t) ==
  /\ UNCHANGED <<table, meddled>>
  /\ \A q \in Procs : q # p => proc'[q] = proc[q]
  /\ proc'[p].task = t /\ proc'[p].todo = Program(t)
  /\ t = "listen" => In(p, "install")
  /\ t = "serve" => In(p, "listen")

LEMMA Steps ==
  ASSUME TypeInv, Next,
         ~\E p \in Procs : Succeed(p) \/ (Fail(p) /\ Ignored(proc[p].task, Cmd(p)))
  PROVE  TypeInv' /\ \E p \in Procs, t \in Tasks : Changes(p, t)
<1>1. /\ "off" \in Tasks /\ "waiting" \in Tasks /\ "clear" \in Tasks /\ "install" \in Tasks
      /\ "listen" \in Tasks /\ "serve" \in Tasks /\ "teardown" \in Tasks /\ "repair" \in Tasks
      /\ "done" \in Exits /\ "fatal" \in Exits /\ "killed" \in Exits
  BY DEF Tasks, Exits
<1>2. /\ Program("off") = <<>> /\ Program("waiting") = <<>> /\ Program("listen") = <<>>
      /\ Program("serve") = <<>> /\ Program("install") = Install /\ Program("clear") = Remove
      /\ Program("teardown") = Remove /\ Program("repair") = Remove
  BY DEF Program, Removing
<1>3. ASSUME NEW p \in Procs, NEW t \in Tasks, Does(p, t, Program(t)), UNCHANGED <<table, meddled>>,
             failures' \in 0 .. MaxFailures, kills' \in 0 .. MaxKills,
             t = "listen" => In(p, "install"), t = "serve" => In(p, "listen")
      PROVE  TypeInv' /\ Changes(p, t)
  BY <1>3, DoesIs DEF TypeInv, Changes
<1>4. ASSUME NEW p \in Procs, NEW how \in Exits, Ends(p, how), UNCHANGED <<table, meddled>>,
             failures' \in 0 .. MaxFailures, kills' \in 0 .. MaxKills
      PROVE  TypeInv' /\ Changes(p, "off")
  BY <1>2, <1>4, EndsIs DEF TypeInv, Changes
<1>5. ASSUME UNCHANGED <<failures, kills>>
      PROVE  failures' \in 0 .. MaxFailures /\ kills' \in 0 .. MaxKills
  BY <1>5 DEF TypeInv
<1>6. ASSUME NEW p \in Procs, Fail(p), ~Ignored(proc[p].task, Cmd(p))
      PROVE  TypeInv' /\ Changes(p, "off")
  <2>1. failures' \in 0 .. MaxFailures
    BY <1>6, BoundsAssumption DEF Fail, TypeInv
  <2>2. Ends(p, "fatal") /\ UNCHANGED <<table, meddled, kills>>
    BY <1>6 DEF Fail, Cmd
  <2> QED BY <1>1, <1>4, <2>1, <2>2 DEF TypeInv
<1>7. ASSUME NEW p \in Procs, Kill(p) PROVE TypeInv' /\ Changes(p, "off")
  <2>1. kills' \in 0 .. MaxKills
    BY <1>7, BoundsAssumption DEF Kill, TypeInv
  <2> QED BY <1>1, <1>4, <1>7, <2>1 DEF Kill, TypeInv
<1>8. ASSUME NEW g \in Guards, Start(g) \/ Runs(g) \/ Unhealthy(g) \/ Stop(g)
      PROVE  TypeInv' /\ \E t \in Tasks : Changes(g, t)
  <2>1. g \in Procs
    BY DEF Procs
  <2>2. CASE Start(g) \/ Healthy(g) \/ Cleared(g) \/ Installed(g) \/ Listen(g) \/ Stop(g)
    BY <1>1, <1>2, <1>3, <1>5, <2>1, <2>2 DEF Start, Healthy, Cleared, Installed, Listen, Stop
  <2>3. CASE CannotListen(g)
    <3>1. failures' \in 0 .. MaxFailures /\ kills' \in 0 .. MaxKills
      BY <2>3, BoundsAssumption DEF CannotListen, TypeInv
    <3> QED BY <1>1, <1>2, <1>3, <2>1, <2>3, <3>1 DEF CannotListen
  <2>4. CASE Stopped(g) \/ Unhealthy(g)
    BY <1>1, <1>4, <1>5, <2>1, <2>4 DEF Stopped, Unhealthy
  <2> QED BY <1>8, <2>2, <2>3, <2>4 DEF Runs
<1>9. ASSUME NEW r \in Repairs, Repair(r) \/ Repaired(r)
      PROVE  TypeInv' /\ \E t \in Tasks : Changes(r, t)
  <2>1. r \in Procs
    BY DEF Procs
  <2>2. CASE Repair(r)
    BY <1>1, <1>2, <1>3, <1>5, <2>1, <2>2 DEF Repair
  <2>3. CASE Repaired(r)
    BY <1>1, <1>4, <1>5, <2>1, <2>3 DEF Repaired
  <2> QED BY <1>9, <2>2, <2>3
<1> QED BY <1>1, <1>6, <1>7, <1>8, <1>9 DEF Next, Procs

LEMMA TypeInit == Init => TypeInv
<1> SUFFICES ASSUME Init PROVE TypeInv
  OBVIOUS
<1>1. [made |-> FALSE, rules |-> <<>>, hooks |-> 0] \in TableType
  BY DEF TableType
<1>2. [task |-> "off", todo |-> <<>>, exit |-> "none", slipped |-> FALSE] \in ProcType
  BY DEF ProcType, Tasks, Exits
<1>3. Suffix(<<>>, Program("off"))
  BY ProgramType, SuffixWhole
<1>4. table \in [Families -> TableType] /\ proc \in [Procs -> ProcType]
  BY <1>1, <1>2 DEF Init
<1>5. \A p \in Procs : Suffix(proc[p].todo, Program(proc[p].task))
  BY <1>3 DEF Init
<1>6. meddled \in BOOLEAN /\ failures \in 0 .. MaxFailures /\ kills \in 0 .. MaxKills
  <2>1. meddled = FALSE /\ failures = 0 /\ kills = 0
    BY DEF Init
  <2>2. 0 \in 0 .. MaxFailures /\ 0 \in 0 .. MaxKills
    BY BoundsAssumption
  <2> QED BY <2>1, <2>2, Zenon
<1> QED BY <1>4, <1>5, <1>6 DEF TypeInv

LEMMA TypeStep == TypeInv /\ [Next]_vars => TypeInv'
<1> SUFFICES ASSUME TypeInv, [Next]_vars PROVE TypeInv'
  OBVIOUS
<1>1. CASE UNCHANGED vars
  BY <1>1 DEF vars, TypeInv
<1>2. CASE Next
  BY <1>2, Steps, SucceedIs, FailIs
<1> QED BY <1>1, <1>2

\* The variables of Redirect have their types (TypeInv adds to it that a process
\* has a suffix of the program of its task to run).
THEOREM TypeCorrect == Spec => []TypeOK
BY TypeInit, TypeStep, TypeParts, PTL DEF Spec

-----------------------------------------------------------------------------
(* What the table holds.                                                   *)

\* Without a chain there are no rules and no jump, and a kernel that cannot
\* redirect a family has no chain for it.
Tables ==
  \A f \in Families :
    /\ ~table[f].made => table[f].rules = <<>> /\ table[f].hooks = 0
    /\ f \notin Supported => ~table[f].made

Beginning(s) == Len(s) <= 4 /\ \A i \in 1 .. Len(s) : s[i] = Rules[i]

Full(f) == Len(table[f].rules) = 4 /\ table[f].hooks > 0

\* What p has done for a family shows in the table.
Installing(p) ==
  \A f \in Families :
    LET d == Done(p, f, 8)
    IN  /\ d >= 2 => Len(table[f].rules) = IF d <= 6 THEN d - 2 ELSE 4
        /\ d >= 8 => table[f].hooks > 0

Flushed(p) == \A f \in Families : Done(p, f, 3) >= 2 => table[f].rules = <<>>

Holds(p) ==
  /\ proc[p].task = "install" => Installing(p)
  /\ proc[p].task \in {"listen", "serve"} => \A f \in Families : Full(f)
  /\ proc[p].task \in Removing /\ ~proc[p].slipped => Flushed(p)

Begun == \A f \in Families : Beginning(table[f].rules)

Alone == ~meddled => Begun /\ \A p \in Procs : Holds(p)

IInv == TypeInv /\ Tables /\ Alone

LEMMA InvInit == Init => IInv
<1> SUFFICES ASSUME Init PROVE IInv
  OBVIOUS
<1>1. TypeInv
  BY TypeInit
<1>2. Tables /\ Begun
  BY DEF Init, Tables, Begun, Beginning
<1>3. \A p \in Procs : Holds(p)
  BY DEF Init, Holds, Removing
<1> QED BY <1>1, <1>2, <1>3 DEF IInv, Alone

\* A process holds on to what does not change.
LEMMA HoldsStill ==
  ASSUME NEW q \in Procs, Holds(q), table' = table, proc'[q] = proc[q]
  PROVE  Holds(q)'
<1>1. \A f, n : Done(q, f, n)' = Done(q, f, n)
  BY DEF Done, Left
<1>2. (Installing(q)' <=> Installing(q)) /\ (Flushed(q)' <=> Flushed(q)) /\ \A f : Full(f)' <=> Full(f)
  BY <1>1 DEF Installing, Flushed, Full
<1> QED BY <1>2 DEF Holds

LEMMA InvSucceed ==
  ASSUME IInv, NEW p \in Procs, Succeed(p)
  PROVE  IInv'
<1> DEFINE k == Cmd(p)
           t == table[k.on]
<1>1. /\ TypeInv /\ TypeInv' /\ Works(k) /\ k \in Command /\ proc[p].todo # <<>> /\ Left(p) \in Nat
      /\ table'[k.on] = Effect(k) /\ \A f \in Families : f # k.on => table'[f] = table[f]
      /\ \A q \in Procs : q # p => proc'[q] = proc[q]
      /\ proc'[p].task = proc[p].task /\ proc'[p].slipped = proc[p].slipped
      /\ Left(p)' = IF k.do = "check" THEN Left(p) - 2 ELSE Left(p) - 1
      /\ ~meddled' => ~meddled /\ \A q \in Procs : q # p => ~HasRedirect(q)
  BY SucceedIs DEF IInv
<1>2. /\ Effect(k) \in TableType /\ t \in TableType /\ k.on \in Supported /\ k.on \in Families
      /\ k.do = "new" => Effect(k).made /\ Effect(k).rules = t.rules /\ Effect(k).hooks = t.hooks
      /\ k.do = "flush" => t.made /\ Effect(k).made /\ Effect(k).rules = <<>> /\ Effect(k).hooks = t.hooks
      /\ k.do = "check" => Effect(k) = t /\ t.hooks > 0
      /\ k.do = "hook" => t.made /\ Effect(k).made /\ Effect(k).rules = t.rules /\ Effect(k).hooks = t.hooks + 1
      /\ k.do = "unhook" => Effect(k).made = t.made /\ Effect(k).rules = t.rules /\ t.hooks > 0
      /\ k.do = "delete" => Effect(k).rules = t.rules /\ t.rules = <<>> /\ Effect(k).hooks = 0
      /\ k.do \in {"lo", "net", "80", "443"} =>
           t.made /\ Effect(k).made /\ Effect(k).rules = Append(t.rules, k.do) /\ Effect(k).hooks = t.hooks
  BY <1>1, EffectIs
<1>3. k.do \in Commands
  BY <1>1 DEF Command
<1>4. Tables'
  <2>1. ~t.made => t.rules = <<>> /\ t.hooks = 0
    BY <1>2 DEF IInv, Tables
  <2>2. ~Effect(k).made => Effect(k).rules = <<>> /\ Effect(k).hooks = 0
    <3>1. CASE k.do = "unhook"
      <4>1. t.made
        BY <1>2, <2>1, <3>1 DEF TableType
      <4> QED BY <1>2, <3>1, <4>1
    <3> QED BY <1>2, <1>3, <2>1, <3>1 DEF Commands
  <2> HIDE DEF k
  <2> QED BY <1>1, <1>2, <2>2 DEF IInv, Tables
<1>5. ASSUME ~meddled' PROVE Begun' /\ Holds(p)'
  <2>1. Begun /\ Holds(p)
    BY <1>1, <1>5 DEF IInv, Alone
  <2>2. CASE proc[p].task = "install"
    <3>0. PICK f \in Families : f = k.on
      BY <1>2
    <3> DEFINE d == Done(p, f, 8)
               after == Effect(k)
    <3>1. /\ d \in 0 .. 7 /\ k.do = InstallOne[d + 1]
          /\ Done(p, f, 8)' = IF k.do = "check" THEN d + 2 ELSE d + 1
          /\ \A g \in Families : g # f =>
               \/ Done(p, g, 8)' <= 0
               \/ Done(p, g, 8) >= 8 /\ Done(p, g, 8)' >= 8
      <4>1. Left(p) \in 1 .. 16
        BY <1>1, <2>2, NextCommand
      <4>2. CASE Left(p) >= 9
        <5>1. f = "v4" /\ k.do = InstallOne[17 - Left(p)] /\ d = 16 - Left(p)
          BY <1>1, <2>2, <3>0, <4>2, NextCommand DEF Done
        <5>2. k.do = InstallOne[d + 1] /\ d \in 0 .. 7
          BY <4>1, <4>2, <5>1
        <5>3. Left(p) = 9 => k.do # "check"
          BY <5>1, InstallOneIs
        <5> QED BY <1>1, <4>1, <4>2, <5>1, <5>2, <5>3 DEF Done, Families
      <4>3. CASE Left(p) <= 8
        <5>1. f = "v6" /\ k.do = InstallOne[9 - Left(p)] /\ d = 8 - Left(p)
          BY <1>1, <2>2, <3>0, <4>3, NextCommand DEF Done
        <5>2. k.do = InstallOne[d + 1] /\ d \in 0 .. 7
          BY <4>1, <4>3, <5>1
        <5> QED BY <1>1, <4>1, <4>3, <5>1, <5>2 DEF Done, Families
      <4> QED BY <4>1, <4>2, <4>3
    <3>2. /\ d >= 2 => Len(table[f].rules) = IF d <= 6 THEN d - 2 ELSE 4
          /\ Beginning(table[f].rules) /\ f \in Families
      BY <2>1, <2>2 DEF Holds, Installing, Begun
    <3>3. table[f].rules \in Seq(Commands) /\ table[f].hooks \in Nat
      BY <1>2, <3>0 DEF TableType
    <3> HIDE DEF d, after
    <3>4. /\ Beginning(after.rules)
          /\ Done(p, f, 8)' >= 2 => Len(after.rules) = IF Done(p, f, 8)' <= 6 THEN Done(p, f, 8)' - 2 ELSE 4
          /\ Done(p, f, 8)' >= 8 => after.hooks > 0
      <4>1. CASE d = 0
        <5>1. k.do = "new"
          BY <3>1, <4>1, InstallOneIs
        <5> QED BY <1>2, <3>0, <3>1, <3>2, <4>1, <5>1 DEF after
      <4>2. CASE d = 1
        <5>1. k.do = "flush"
          BY <3>1, <4>2, InstallOneIs
        <5>2. after.rules = <<>> /\ Done(p, f, 8)' = 2
          BY <1>2, <3>1, <4>2, <5>1 DEF after
        <5> QED BY <5>2 DEF Beginning
      <4>3. CASE d \in 2 .. 5
        <5>1. k.do \in {"lo", "net", "80", "443"} /\ k.do = Rules[d - 1]
          BY <3>1, <4>3, InstallOneIs DEF Rules
        <5>2. after.rules = Append(table[f].rules, k.do) /\ Done(p, f, 8)' = d + 1
          BY <1>2, <3>0, <3>1, <4>3, <5>1 DEF after
        <5>3. Len(table[f].rules) = d - 2
          BY <3>2, <4>3
        <5>4. /\ Len(after.rules) = d - 1
              /\ \A i \in 1 .. d - 2 : after.rules[i] = table[f].rules[i]
              /\ after.rules[d - 1] = k.do
          BY <1>3, <3>3, <4>3, <5>2, <5>3, AppendProperties
        <5>5. Beginning(after.rules)
          BY <3>2, <4>3, <5>1, <5>3, <5>4 DEF Beginning
        <5> QED BY <4>3, <5>2, <5>4, <5>5
      <4>4. CASE d = 6
        <5>1. k.do = "check"
          BY <3>1, <4>4, InstallOneIs
        <5>2. after = table[f] /\ table[f].hooks > 0
          BY <1>2, <3>0, <5>1 DEF after
        <5>3. Done(p, f, 8)' = 8 /\ Len(table[f].rules) = 4
          BY <3>1, <3>2, <4>4, <5>1
        <5> QED BY <3>2, <5>2, <5>3
      <4>5. CASE d = 7
        <5>1. k.do = "hook"
          BY <3>1, <4>5, InstallOneIs
        <5>2. after.rules = table[f].rules /\ after.hooks = table[f].hooks + 1
          BY <1>2, <3>0, <5>1 DEF after
        <5>3. Done(p, f, 8)' = 8 /\ Len(table[f].rules) = 4
          BY <3>1, <3>2, <4>5, <5>1
        <5> QED BY <3>2, <3>3, <5>2, <5>3
      <4> QED BY <3>1, <4>1, <4>2, <4>3, <4>4, <4>5
    <3>5. table'[f] = after /\ \A g \in Families : g # f => table'[g] = table[g]
      BY <1>1, <3>0 DEF after
    <3>6. Begun'
      BY <2>1, <3>4, <3>5 DEF Begun
    <3>7. Installing(p)'
      <4> SUFFICES ASSUME NEW g \in Families
                   PROVE  /\ Done(p, g, 8)' >= 2 =>
                               Len(table'[g].rules) = IF Done(p, g, 8)' <= 6 THEN Done(p, g, 8)' - 2 ELSE 4
                          /\ Done(p, g, 8)' >= 8 => table'[g].hooks > 0
        BY DEF Installing
      <4>1. CASE g = f
        BY <3>4, <3>5, <4>1
      <4>2. CASE g # f
        <5>1. Done(p, g, 8) \in Int /\ Done(p, g, 8)' \in Int
          BY <1>1 DEF Done
        <5>2. CASE Done(p, g, 8)' <= 0
          BY <5>1, <5>2
        <5>3. CASE Done(p, g, 8) >= 8 /\ Done(p, g, 8)' >= 8
          BY <2>1, <2>2, <3>5, <4>2, <5>1, <5>3 DEF Holds, Installing
        <5> QED BY <3>1, <4>2, <5>2, <5>3
      <4> QED BY <4>1, <4>2
    <3> QED BY <1>1, <2>2, <3>6, <3>7 DEF Holds, Removing
  <2>3. CASE proc[p].task \in Removing
    <3>1. k.do \in {"unhook", "flush", "delete"} /\ (Effect(k).rules = t.rules \/ Effect(k).rules = <<>>)
      <4>1. Left(p) \in 1 .. 6 /\ k.do \in {RemoveOne[1], RemoveOne[2], RemoveOne[3]}
        <5>1. /\ Left(p) \in 1 .. 6
              /\ Left(p) >= 4 => k = [on |-> "v4", do |-> RemoveOne[7 - Left(p)]]
              /\ Left(p) <= 3 => k = [on |-> "v6", do |-> RemoveOne[4 - Left(p)]]
          BY <1>1, <2>3, NextCommand
        <5> QED BY <5>1
      <4> QED BY <1>2, <4>1, RemoveOneIs
    <3>2. Begun'
      BY <1>1, <1>2, <2>1, <3>1 DEF Begun, Beginning
    <3>3. ASSUME ~proc[p].slipped, NEW f \in Families, Done(p, f, 3)' >= 2
          PROVE  table'[f].rules = <<>>
      <4>1. /\ Left(p) \in 1 .. 6 /\ Left(p)' = Left(p) - 1
            /\ Left(p) >= 4 => k = [on |-> "v4", do |-> RemoveOne[7 - Left(p)]]
            /\ Left(p) <= 3 => k = [on |-> "v6", do |-> RemoveOne[4 - Left(p)]]
        BY <1>1, <2>3, <3>1, NextCommand
      <4>2. CASE Done(p, f, 3) >= 2
        <5>1. table[f].rules = <<>>
          BY <2>1, <2>3, <3>3, <4>2 DEF Holds, Flushed
        <5> QED BY <1>1, <3>1, <5>1
      <4>3. CASE Done(p, f, 3) = 1
        <5>1. k.do = "flush" /\ k.on = f
          BY <4>1, <4>3, RemoveOneIs DEF Done, Families
        <5> QED BY <1>1, <1>2, <5>1
      <4> QED BY <3>3, <4>1, <4>2, <4>3 DEF Done
    <3> QED BY <1>1, <2>3, <3>2, <3>3 DEF Holds, Removing, Flushed
  <2> QED BY <1>1, <2>2, <2>3, NextCommand
<1>6. ASSUME ~meddled', NEW q \in Procs, q # p PROVE Holds(q)'
  <2>1. proc'[q].task \in {"off", "waiting"}
    BY <1>1, <1>6 DEF HasRedirect
  <2> QED BY <2>1 DEF Holds, Removing
<1> QED BY <1>1, <1>4, <1>5, <1>6 DEF IInv, Alone

LEMMA InvFail ==
  ASSUME IInv, NEW p \in Procs, Fail(p), Ignored(proc[p].task, Cmd(p))
  PROVE  IInv'
<1> DEFINE k == Cmd(p)
<1>1. /\ TypeInv /\ TypeInv' /\ k \in Command /\ proc[p].todo # <<>> /\ Left(p) \in Nat
      /\ UNCHANGED <<table, meddled>>
      /\ \A q \in Procs : q # p => proc'[q] = proc[q]
      /\ proc'[p].task = proc[p].task
      /\ ~proc'[p].slipped => ~proc[p].slipped /\ ~Works(k)
      /\ Left(p)' = Left(p) - 1
  BY FailIs DEF IInv
<1>2. Tables' /\ (Begun' <=> Begun)
  BY <1>1 DEF IInv, Tables, Begun
<1>3. ASSUME ~meddled' PROVE Holds(p)'
  <2>1. Holds(p)
    BY <1>1, <1>3 DEF IInv, Alone
  <2>2. CASE proc[p].task = "install"
    <3>1. /\ Left(p) \in 1 .. 16 /\ k.do \in {"new", "check"}
          /\ Left(p) >= 9 => k = [on |-> "v4", do |-> InstallOne[17 - Left(p)]]
          /\ Left(p) <= 8 => k = [on |-> "v6", do |-> InstallOne[9 - Left(p)]]
      BY <1>1, <2>2, NextCommand DEF Ignored
    <3>2. Left(p) \in {16, 10, 8, 2}
      <4>1. Left(p) \in {15, 14, 13, 12, 11, 9, 7, 6, 5, 4, 3, 1} => FALSE
        BY <3>1, InstallOneIs
      <4> QED BY <3>1, <4>1
    <3>3. Installing(p)'
      BY <1>1, <2>1, <2>2, <3>2 DEF Holds, Installing, Done, Families
    <3> QED BY <1>1, <2>2, <3>3 DEF Holds, Removing
  <2>3. CASE proc[p].task \in Removing
    <3>1. ASSUME ~proc'[p].slipped, NEW f \in Families, Done(p, f, 3)' >= 2
          PROVE  table'[f].rules = <<>>
      <4>1. /\ Left(p) \in 1 .. 6
            /\ Left(p) >= 4 => k = [on |-> "v4", do |-> RemoveOne[7 - Left(p)]]
            /\ Left(p) <= 3 => k = [on |-> "v6", do |-> RemoveOne[4 - Left(p)]]
        BY <1>1, <2>3, NextCommand
      <4>2. CASE Done(p, f, 3) >= 2
        BY <1>1, <2>1, <2>3, <3>1, <4>2 DEF Holds, Flushed
      <4>3. CASE Done(p, f, 3) = 1
        <5>1. k.do = "flush" /\ k.on = f
          BY <4>1, <4>3, RemoveOneIs DEF Done, Families
        <5>2. ~table[f].made
          BY <1>1, <3>1, <5>1 DEF Works, IInv, Tables
        <5> QED BY <1>1, <5>2 DEF IInv, Tables
      <4> QED BY <1>1, <3>1, <4>1, <4>2, <4>3 DEF Done
    <3> QED BY <1>1, <2>3, <3>1 DEF Holds, Removing, Flushed
  <2> QED BY <1>1, <2>2, <2>3, NextCommand
<1>4. ASSUME ~meddled', NEW q \in Procs, q # p PROVE Holds(q)'
  BY <1>1, <1>4, HoldsStill DEF IInv, Alone
<1> QED BY <1>1, <1>2, <1>3, <1>4 DEF IInv, Alone

LEMMA InvChanges ==
  ASSUME IInv, TypeInv', NEW p \in Procs, NEW t \in Tasks, Changes(p, t)
  PROVE  IInv'
<1>1. Tables' /\ (Begun' <=> Begun)
  BY DEF Changes, IInv, Tables, Begun
<1>2. ASSUME ~meddled' PROVE Holds(p)'
  <2>1. Holds(p) /\ Left(p)' = Len(Program(t)) /\ proc'[p].task = t /\ table' = table
    BY <1>2 DEF IInv, Alone, Changes, Left
  <2>2. CASE t = "install"
    <3>1. Left(p)' = 16
      BY <2>1, <2>2, InstallIs DEF Program, Removing
    <3>2. \A f \in Families : Done(p, f, 8)' \in {0, -8}
      BY <3>1 DEF Done
    <3>3. Installing(p)'
      BY <3>2 DEF Installing
    <3> QED BY <2>1, <2>2, <3>3 DEF Holds, Removing
  <2>3. CASE t \in Removing
    <3>1. Left(p)' = 6
      BY <2>1, <2>3, RemoveIs DEF Program, Removing
    <3>2. \A f \in Families : Done(p, f, 3)' \in {0, -3}
      BY <3>1 DEF Done
    <3>3. Flushed(p)'
      BY <3>2 DEF Flushed
    <3> QED BY <2>1, <2>3, <3>3 DEF Holds, Removing
  <2>4. CASE t = "listen"
    <3>1. proc[p].task = "install" /\ Left(p) = 0
      BY <2>4 DEF Changes, In, Left
    <3>2. \A f \in Families : Done(p, f, 8) \in {8, 16}
      BY <3>1 DEF Done
    <3>3. Installing(p)
      BY <2>1, <3>1 DEF Holds
    <3>4. \A f \in Families : Full(f)
      <4> SUFFICES ASSUME NEW f \in Families PROVE Full(f)
        OBVIOUS
      <4> DEFINE d == Done(p, f, 8)
      <4>1. /\ d >= 2 => Len(table[f].rules) = IF d <= 6 THEN d - 2 ELSE 4
            /\ d >= 8 => table[f].hooks > 0
        BY <3>3 DEF Installing
      <4>2. d = 8 \/ d = 16
        BY <3>2
      <4> HIDE DEF d
      <4>3. CASE d = 8
        BY <4>1, <4>3 DEF Full
      <4>4. CASE d = 16
        BY <4>1, <4>4 DEF Full
      <4> QED BY <4>2, <4>3, <4>4
    <3>5. \A f \in Families : Full(f)'
      BY <2>1, <3>4 DEF Full
    <3> QED BY <2>1, <2>4, <3>5 DEF Holds, Removing
  <2>5. CASE t = "serve"
    BY <2>1, <2>5 DEF Changes, In, Holds, Full, Removing
  <2> QED BY <2>1, <2>2, <2>3, <2>4, <2>5 DEF Holds
<1>3. ASSUME ~meddled', NEW q \in Procs, q # p PROVE Holds(q)'
  BY <1>3, HoldsStill DEF Changes, IInv, Alone
<1> QED BY <1>1, <1>2, <1>3 DEF IInv, Alone, Changes

LEMMA InvStep == IInv /\ [Next]_vars => IInv'
<1> SUFFICES ASSUME IInv, [Next]_vars PROVE IInv'
  OBVIOUS
<1>1. CASE UNCHANGED vars
  <2>1. TypeInv'
    BY <1>1, TypeStep DEF IInv
  <2>2. Tables' /\ (Begun' <=> Begun)
    BY <1>1 DEF vars, IInv, Tables, Begun
  <2>3. \A q \in Procs : Holds(q) => Holds(q)'
    BY <1>1, HoldsStill DEF vars
  <2> QED BY <1>1, <2>1, <2>2, <2>3 DEF vars, IInv, Alone
<1>2. CASE Next
  BY <1>2, Steps, InvSucceed, InvFail, InvChanges DEF IInv
<1> QED BY <1>1, <1>2

-----------------------------------------------------------------------------
(* The safety properties.                                                  *)

LEMMA BeginningIs ==
  ASSUME NEW s \in Seq(Commands), Beginning(s)
  PROVE  Prefix(s, Rules) /\ (Len(s) = 4 => s = Rules)
<1> DEFINE b == SubSeq(Rules, 1, Len(s))
<1>1. Rules \in Seq(Commands) /\ Len(Rules) = 4
  BY DEF Rules, Commands
<1>2. Len(s) \in Nat /\ Len(s) <= 4
  BY LenProperties DEF Beginning
<1>3. b \in Seq(Commands) /\ Len(b) = Len(s) /\ \A i \in 1 .. Len(s) : b[i] = Rules[i]
  <2>1. \A i \in 1 .. Len(s) : Rules[i] \in Commands
    <3>1. \A i \in 1 .. 4 : Rules[i] \in Commands
      BY DEF Rules, Commands
    <3> QED BY <1>2, <3>1
  <2>2. /\ b \in Seq(Commands) /\ Len(b) = IF 1 <= Len(s) THEN Len(s) - 1 + 1 ELSE 0
        /\ \A i \in 1 .. Len(s) - 1 + 1 : b[i] = Rules[1 + i - 1]
    BY <1>2, <2>1, SubSeqProperties
  <2> QED BY <1>2, <2>2
<1> HIDE DEF b
<1>4. s = b
  BY <1>3, SeqEqual DEF Beginning
<1>5. Len(s) = 4 => s = Rules
  BY <1>1, SeqEqual DEF Beginning
<1> QED BY <1>1, <1>2, <1>4, <1>5 DEF Prefix, b

LEMMA Serving ==
  ASSUME IInv, ~meddled, NEW p \in Procs, proc[p].task \in {"listen", "serve"}
  PROVE  \A f \in Families : Complete(f)
<1> SUFFICES ASSUME NEW f \in Families PROVE Complete(f)
  OBVIOUS
<1>1. Full(f) /\ Beginning(table[f].rules)
  BY DEF IInv, Alone, Begun, Holds
<1>2. table[f].rules \in Seq(Commands)
  BY DEF IInv, TypeInv, TableType
<1> QED BY <1>1, <1>2, BeginningIs DEF Full, Complete

LEMMA Removed ==
  ASSUME IInv, ~meddled, NEW p \in Procs, NEW t \in Removing, In(p, t), ~proc[p].slipped,
         NEW f \in Families
  PROVE  ~Redirects(f)
<1>1. Left(p) = 0 /\ proc[p].task \in Removing
  BY DEF In, Left
<1>2. Done(p, f, 3) >= 2
  BY <1>1 DEF Done
<1>3. table[f].rules = <<>>
  BY <1>1, <1>2 DEF IInv, Alone, Holds, Flushed
<1> QED BY <1>3 DEF Redirects

\* For any guards, repairs and kernel: unless two work on it at a time, the chain
\* is a beginning of the complete one (linux.go:39-50, main.go:278-279).
THEOREM RulesNeverStack == Spec => []NeverStacked
<1>1. IInv => NeverStacked
  BY BeginningIs DEF IInv, TypeInv, TableType, Alone, Begun, NeverStacked
<1> QED BY InvInit, InvStep, <1>1, PTL DEF Spec

\* A guard serves only behind a complete redirect of both families, on whatever
\* kernel and after whatever failures (README.md:34-37).
THEOREM ServesGoverned == Spec => []ServingGoverned
<1>1. IInv => ServingGoverned
  BY Serving DEF ServingGoverned, Governed, Procs
<1> QED BY InvInit, InvStep, <1>1, PTL DEF Spec

\* Whoever has run Remove leaves nothing redirected, however often a family was
\* hooked (linux.go:61-72, main.go:278-286).
THEOREM RemovalIsClean == Spec => []CleanStop
<1>1. IInv => CleanStop
  BY Removed DEF CleanStop
<1> QED BY InvInit, InvStep, <1>1, PTL DEF Spec


-----------------------------------------------------------------------------
(* When the claim that the guard tears its redirect down holds.            *)

Bare(f) == table[f].rules = <<>>

\* Nothing failed that could have worked, nothing was killed, nobody meddled.
Undisturbed == failures = 0 /\ kills = 0 /\ ~meddled

\* The tasks at which a guard has yet to make a rule.
Before == {"off", "waiting", "clear", "repair"}

\* The guard has rules only from its flush to its teardown, and from its new to
\* its teardown a chain for each family the kernel supports.
Leaves(g) ==
  /\ ~proc[g].slipped
  /\ proc[g].task \in Before => \A f \in Families : Bare(f)
  /\ proc[g].task = "install" =>
       \A f \in Families :
         /\ Done(g, f, 8) <= 1 => Bare(f)
         /\ Done(g, f, 8) >= 1 /\ f \in Supported => table[f].made

\* Whoever is not the guard only repairs.
OthersRepair(g) == \A q \in Procs : q # g => proc[q].task \in {"off", "repair"}

StopInv(g) == OthersRepair(g) /\ (Undisturbed => Leaves(g))

LEMMA StopInit ==
  ASSUME Init, NEW g \in Procs
  PROVE  StopInv(g)
BY DEF Init, StopInv, OthersRepair, Leaves, Bare

LEMMA LeavesStill ==
  ASSUME NEW g \in Procs, Leaves(g), table' = table, proc'[g] = proc[g]
  PROVE  Leaves(g)'
<1>1. \A f, n : Done(g, f, n)' = Done(g, f, n)
  BY DEF Done, Left
<1>2. \A f : Bare(f)' <=> Bare(f)
  BY DEF Bare
<1> QED BY <1>1, <1>2 DEF Leaves

LEMMA StopSucceed ==
  ASSUME IInv, NEW g \in Procs, StopInv(g), NEW p \in Procs, Succeed(p)
  PROVE  StopInv(g)'
<1> DEFINE k == Cmd(p)
           t == table[k.on]
<1>1. /\ TypeInv /\ Works(k) /\ k \in Command /\ proc[p].todo # <<>> /\ Left(p) \in Nat
      /\ table'[k.on] = Effect(k) /\ \A f \in Families : f # k.on => table'[f] = table[f]
      /\ \A q \in Procs : q # p => proc'[q] = proc[q]
      /\ proc'[p].task = proc[p].task /\ proc'[p].slipped = proc[p].slipped
      /\ Left(p)' = IF k.do = "check" THEN Left(p) - 2 ELSE Left(p) - 1
      /\ ~meddled' => ~meddled /\ \A q \in Procs : q # p => ~HasRedirect(q)
  BY SucceedIs DEF IInv
<1>2. /\ k.on \in Supported /\ k.on \in Families
      /\ k.do = "new" => Effect(k).made /\ Effect(k).rules = t.rules
      /\ k.do \in {"flush", "hook", "lo", "net", "80", "443"} => Effect(k).made
      /\ k.do = "check" => Effect(k) = t
      /\ k.do = "unhook" \/ k.do = "delete" => Effect(k).rules = t.rules
      /\ k.do = "flush" => Effect(k).rules = <<>>
  BY <1>1, EffectIs
<1>3. OthersRepair(g)'
  BY <1>1 DEF StopInv, OthersRepair
<1>4. UNCHANGED <<failures, kills>>
  BY DEF Succeed
<1> SUFFICES ASSUME Undisturbed' PROVE Leaves(g)'
  BY <1>3 DEF StopInv
<1>5. Leaves(g) /\ ~meddled'
  BY <1>1, <1>4 DEF Undisturbed, StopInv
<1>6. ASSUME proc[p].task \in Removing, NEW f \in Families, Bare(f) PROVE Bare(f)'
  <2>1. k.do \in {RemoveOne[1], RemoveOne[2], RemoveOne[3]}
    <3>1. /\ Left(p) \in 1 .. 6
          /\ Left(p) >= 4 => k = [on |-> "v4", do |-> RemoveOne[7 - Left(p)]]
          /\ Left(p) <= 3 => k = [on |-> "v6", do |-> RemoveOne[4 - Left(p)]]
      BY <1>1, <1>6, NextCommand
    <3> QED BY <3>1
  <2>2. k.do \in {"unhook", "flush", "delete"}
    BY <2>1, RemoveOneIs
  <2> QED BY <1>1, <1>2, <1>6, <2>2 DEF Bare
<1>7. CASE p # g
  <2>1. proc[p].task \in Removing /\ proc[g].task \in Before /\ proc'[g] = proc[g]
    <3>1. proc[p].task \in {"off", "repair"}
      BY <1>7 DEF StopInv, OthersRepair
    <3>2. proc[g].task \in {"off", "waiting"}
      BY <1>1, <1>5, <1>7 DEF HasRedirect
    <3> QED BY <1>1, <1>7, <3>1, <3>2, NextCommand DEF Before
  <2>2. \A f \in Families : Bare(f)'
    BY <1>5, <1>6, <2>1 DEF Leaves
  <2> QED BY <1>5, <2>1, <2>2 DEF Leaves, Before
<1>8. CASE p = g /\ proc[g].task \in Removing
  <2>1. proc[g].task \in Before => \A f \in Families : Bare(f)'
    BY <1>5, <1>6, <1>8 DEF Leaves
  <2> QED BY <1>1, <1>5, <1>8, <2>1 DEF Leaves, Removing
<1>9. CASE p = g /\ proc[g].task = "install"
  <2>1. /\ Left(g) \in 1 .. 16
        /\ Left(g) >= 9 => k = [on |-> "v4", do |-> InstallOne[17 - Left(g)]]
        /\ Left(g) <= 8 => k = [on |-> "v6", do |-> InstallOne[9 - Left(g)]]
    BY <1>1, <1>9, NextCommand
  <2>2. ASSUME NEW f \in Families
        PROVE  /\ Done(g, f, 8)' <= 1 => Bare(f)'
               /\ Done(g, f, 8)' >= 1 /\ f \in Supported => table'[f].made
    <3> DEFINE d == Done(g, f, 8)
               e == Done(g, f, 8)'
    <3>1. /\ d <= 1 => Bare(f)
          /\ d >= 1 /\ f \in Supported => table[f].made
      BY <1>5, <1>9 DEF Leaves
    <3>2. CASE k.on = f
      <4>1. d \in 0 .. 7 /\ k.do = InstallOne[d + 1]
        <5>1. CASE f = "v4"
          <6>1. Left(g) >= 9 /\ d = 16 - Left(g)
            BY <2>1, <3>2, <5>1 DEF Done
          <6>2. 17 - Left(g) = d + 1
            BY <2>1, <6>1
          <6> QED BY <2>1, <6>1, <6>2
        <5>2. CASE f = "v6"
          <6>1. Left(g) <= 8 /\ d = 8 - Left(g)
            BY <2>1, <3>2, <5>2 DEF Done
          <6>2. 9 - Left(g) = d + 1
            BY <2>1, <6>1
          <6> QED BY <2>1, <6>1, <6>2
        <5> QED BY <5>1, <5>2 DEF Families
      <4>2. e = d + 1 \/ (e = d + 2 /\ k.do = "check")
        <5>1. Left(g)' = Left(g) - 1 \/ (Left(g)' = Left(g) - 2 /\ k.do = "check")
          BY <1>1, <1>9
        <5> HIDE DEF k
        <5> QED BY <2>1, <5>1 DEF Done
      <4>3. CASE d = 0
        <5>1. k.do = "new"
          BY <4>1, <4>3, InstallOneIs
        <5>2. table'[f].made /\ table'[f].rules = table[f].rules
          BY <1>1, <1>2, <3>2, <5>1
        <5> QED BY <3>1, <4>3, <5>2 DEF Bare
      <4>4. CASE d >= 1
        <5>1. k.do \in {"flush", "check", "hook", "lo", "net", "80", "443"}
          BY <4>1, <4>4, InstallOneIs
        <5>2. table'[f].made
          BY <1>1, <1>2, <3>1, <3>2, <4>4, <5>1
        <5> HIDE DEF d, e
        <5>3. ~(e <= 1)
          BY <4>1, <4>2, <4>4
        <5> QED BY <5>2, <5>3 DEF e
      <4> QED BY <4>1, <4>3, <4>4
    <3>3. CASE k.on # f
      <4>1. table'[f] = table[f]
        BY <1>1, <3>3
      <4>2. (d <= -1 /\ e <= 0) \/ (d >= 8 /\ e >= 8)
        <5>1. CASE f = "v4"
          BY <1>1, <1>9, <2>1, <3>3, <5>1 DEF Done
        <5>2. CASE f = "v6"
          <6>1. Left(g) \in 9 .. 16 /\ (Left(g) = 9 => k.do # "check")
            BY <2>1, <3>3, <5>2, InstallOneIs
          <6> QED BY <1>1, <1>9, <5>2, <6>1 DEF Done
        <5> QED BY <5>1, <5>2 DEF Families
      <4> HIDE DEF d, e
      <4>3. d \in Int /\ e \in Int
        BY <1>1, <1>9 DEF Done, d, e
      <4>4. (d <= 1 <=> e <= 1) /\ (d >= 1 <=> e >= 1)
        BY <4>2, <4>3
      <4> QED BY <3>1, <4>1, <4>4 DEF Bare, e
    <3> QED BY <3>2, <3>3
  <2> QED BY <1>1, <1>5, <1>9, <2>2 DEF Leaves, Before
<1> QED BY <1>1, <1>7, <1>8, <1>9, NextCommand


\* A failure that is ignored was that of a command that could not work.
LEMMA StopIgnored ==
  ASSUME IInv, NEW g \in Procs, StopInv(g), NEW p \in Procs,
         Fail(p), Ignored(proc[p].task, Cmd(p))
  PROVE  StopInv(g)'
<1> DEFINE k == Cmd(p)
<1>1. /\ k \in Command /\ proc[p].todo # <<>>
      /\ UNCHANGED <<table, meddled>>
      /\ \A q \in Procs : q # p => proc'[q] = proc[q]
      /\ proc'[p].task = proc[p].task
      /\ Left(p)' = Left(p) - 1
  BY FailIs DEF IInv
<1>2. OthersRepair(g)'
  BY <1>1 DEF StopInv, OthersRepair
<1> SUFFICES ASSUME Undisturbed' PROVE Leaves(g)'
  BY <1>2 DEF StopInv
<1>3. ~Works(k) /\ failures' = failures /\ UNCHANGED kills
  <2>1. failures' = IF Works(k) THEN failures + 1 ELSE failures
    BY DEF Fail, Cmd
  <2>2. failures \in Nat /\ failures' = 0
    BY BoundsAssumption DEF IInv, TypeInv, Undisturbed
  <2> HIDE DEF k
  <2> QED BY <2>1, <2>2 DEF Fail
<1>4. Leaves(g)
  BY <1>1, <1>3 DEF Undisturbed, StopInv
<1>5. CASE p # g
  BY <1>1, <1>4, <1>5, LeavesStill
<1>6. CASE p = g
  <2>1. ~proc'[g].slipped
    <3>1. proc[g] \in ProcType /\ proc' = [proc EXCEPT ![g].todo = Tail(proc[g].todo), ![g].slipped = proc[g].slipped \/ Works(k)]
      BY <1>6 DEF Fail, Cmd, IInv, TypeInv
    <3>2. proc'[g].slipped = (proc[g].slipped \/ Works(k))
      BY <3>1 DEF ProcType, IInv, TypeInv
    <3> QED BY <1>3, <1>4, <3>2 DEF Leaves
  <2>2. \A f \in Families : Bare(f)' <=> Bare(f)
    BY <1>1 DEF Bare
  <2>3. CASE proc[g].task = "install"
    <3>1. /\ Left(g) \in 1 .. 16 /\ k.do \in {"new", "check"}
          /\ Left(g) >= 9 => k = [on |-> "v4", do |-> InstallOne[17 - Left(g)]]
          /\ Left(g) <= 8 => k = [on |-> "v6", do |-> InstallOne[9 - Left(g)]]
      <4>1. k.do \in {"new", "check"}
        BY <1>6, <2>3 DEF Ignored
      <4>2. Left(g) \in 1 .. 16
            /\ (Left(g) >= 9 => Cmd(g) = [on |-> "v4", do |-> InstallOne[17 - Left(g)]])
            /\ (Left(g) <= 8 => Cmd(g) = [on |-> "v6", do |-> InstallOne[9 - Left(g)]])
        BY <1>1, <1>6, <2>3, NextCommand DEF IInv
      <4> QED BY <1>6, <4>1, <4>2
    <3>2. Left(g) \in {16, 10, 8, 2}
      <4>1. Left(g) \in {15, 14, 13, 12, 11, 9, 7, 6, 5, 4, 3, 1} => FALSE
        BY <3>1, InstallOneIs
      <4> QED BY <3>1, <4>1
    <3>3. ASSUME NEW f \in Families
          PROVE  /\ Done(g, f, 8)' <= 1 => Bare(f)'
                 /\ Done(g, f, 8)' >= 1 /\ f \in Supported => table'[f].made
      <4>1. /\ Done(g, f, 8) <= 1 => Bare(f)
            /\ Done(g, f, 8) >= 1 /\ f \in Supported => table[f].made
        BY <1>4, <2>3 DEF Leaves
      <4>2. Done(g, f, 8)' = Done(g, f, 8) + 1 /\ Done(g, f, 8) \in {-8, -2, 0, 6, 8, 14}
        BY <1>1, <1>6, <3>2 DEF Done, Families
      <4>3. Done(g, f, 8) = 0 /\ f \in Supported => table[f].made
        <5>1. Done(g, f, 8) = 0 => k = [on |-> f, do |-> "new"]
          BY <3>1, <3>2, InstallOneIs DEF Done, Families
        <5> HIDE DEF k
        <5> QED BY <1>3, <5>1 DEF Works
      <4> QED BY <1>1, <2>2, <4>1, <4>2, <4>3
    <3> QED BY <1>1, <1>6, <2>1, <2>3, <3>3 DEF Leaves, Before
  <2>4. CASE proc[g].task # "install"
    BY <1>1, <1>4, <1>6, <2>1, <2>2, <2>4 DEF Leaves
  <2> QED BY <2>3, <2>4
<1> QED BY <1>5, <1>6

\* A command that ends an install is the flush of a kernel without the family, so
\* nothing has been made on a kernel that has both or has no IPv4.
LEMMA InstallFails ==
  ASSUME IInv, NEW g \in Procs, Leaves(g), Fail(g), ~Ignored(proc[g].task, Cmd(g)), ~Works(Cmd(g)),
         "v4" \in Supported => "v6" \in Supported
  PROVE  \A f \in Families : Bare(f)
<1> DEFINE k == Cmd(g)
<1>1. /\ proc[g].todo # <<>> /\ proc[g].task = "install" /\ k.do \notin {"new", "check"}
  BY DEF Fail, Ignored, Cmd
<1>2. /\ Left(g) \in 1 .. 16 /\ k \in Command
      /\ Left(g) >= 9 => k = [on |-> "v4", do |-> InstallOne[17 - Left(g)]]
      /\ Left(g) <= 8 => k = [on |-> "v6", do |-> InstallOne[9 - Left(g)]]
  BY <1>1, NextCommand DEF IInv
<1> HIDE DEF k
<1>3. k.do \in {"flush", "hook", "lo", "net", "80", "443"}
  <2>1. k.do \in {InstallOne[1], InstallOne[2], InstallOne[3], InstallOne[4], InstallOne[5],
                  InstallOne[6], InstallOne[7], InstallOne[8]}
    BY <1>2
  <2> QED BY <1>1, <2>1, InstallOneIs
<1>4. Left(g) # 16 /\ Left(g) # 8
  BY <1>1, <1>2, InstallOneIs
<1>5. \A f \in Families : /\ Done(g, f, 8) <= 1 => Bare(f)
                          /\ Done(g, f, 8) >= 1 /\ f \in Supported => table[f].made
  BY <1>1 DEF Leaves
<1>6. \A f \in Families : f \notin Supported => Bare(f)
  BY DEF IInv, Tables, Bare
<1>7. ~(k.on \in Supported /\ table[k.on].made)
  BY <1>3 DEF Works, k
<1>8. CASE Left(g) >= 9
  <2>1. k.on = "v4" /\ Done(g, "v4", 8) >= 1 /\ Done(g, "v6", 8) <= 1
    BY <1>2, <1>4, <1>8 DEF Done
  <2> QED BY <1>5, <1>6, <1>7, <2>1 DEF Families
<1>9. CASE Left(g) <= 8
  <2>1. k.on = "v6" /\ Done(g, "v6", 8) >= 1
    BY <1>2, <1>4, <1>9 DEF Done
  <2>2. "v6" \notin Supported /\ "v4" \notin Supported
    BY <1>5, <1>7, <2>1 DEF Families
  <2> QED BY <1>6, <2>2 DEF Families
<1> QED BY <1>2, <1>8, <1>9

\* The steps of the guard and of the repairs that run no command, and the ends.
LEMMA StopMoves ==
  ASSUME IInv, NEW g, Guards = {g}, StopInv(g), Next,
         "v4" \in Supported => "v6" \in Supported,
         ~\E p \in Procs : Succeed(p) \/ (Fail(p) /\ Ignored(proc[p].task, Cmd(p)))
  PROVE  StopInv(g)'
<1>1. g \in Procs /\ TypeInv /\ proc[g] \in ProcType
  BY DEF Procs, IInv, TypeInv
<1>2. ASSUME NEW p \in Procs, NEW how \in Exits, Ends(p, how)
      PROVE  /\ OthersRepair(g)'
             /\ proc'[g].slipped = proc[g].slipped
             /\ p = g => proc'[g].task = "off"
             /\ p # g => proc'[g] = proc[g]
  <2>1. /\ \A q \in Procs : q # p => proc'[q] = proc[q]
        /\ proc'[p].task = "off"
    BY <1>1, <1>2, EndsIs
  <2>2. proc'[p].slipped = proc[p].slipped
    <3>1. proc' = [proc EXCEPT ![p].task = "off", ![p].todo = <<>>, ![p].exit = how]
      BY <1>2 DEF Ends
    <3> QED BY <1>1, <3>1 DEF TypeInv, ProcType
  <2> QED BY <2>1, <2>2, <1>1 DEF OthersRepair, StopInv
<1>3. ASSUME NEW t \in Tasks, Does(g, t, Program(t))
      PROVE  /\ OthersRepair(g)'
             /\ proc'[g].task = t /\ proc'[g].todo = Program(t) /\ ~proc'[g].slipped
  <2>1. \A q \in Procs : q # g => proc'[q] = proc[q]
    BY <1>1, <1>3, DoesIs
  <2> QED BY <1>1, <1>3, <2>1, DoesIs DEF OthersRepair, StopInv
<1>4. ASSUME NEW t \in Before, proc'[g].task = t, proc[g].task \in Before, Leaves(g),
             ~proc'[g].slipped, UNCHANGED table
      PROVE  Leaves(g)'
  BY <1>4 DEF Leaves, Before, Bare
<1>5. /\ "off" \in Tasks /\ "waiting" \in Tasks /\ "clear" \in Tasks /\ "install" \in Tasks
      /\ "listen" \in Tasks /\ "serve" \in Tasks /\ "teardown" \in Tasks /\ "repair" \in Tasks
      /\ "done" \in Exits /\ "fatal" \in Exits /\ "killed" \in Exits
  BY DEF Tasks, Exits
<1>6. /\ Program("off") = <<>> /\ Program("waiting") = <<>> /\ Program("listen") = <<>>
      /\ Program("serve") = <<>> /\ Program("install") = Install /\ Program("clear") = Remove
      /\ Program("teardown") = Remove /\ Program("repair") = Remove
  BY DEF Program, Removing
<1>7. ASSUME NEW p \in Procs, Fail(p) PROVE StopInv(g)'
  <2>1. Ends(p, "fatal") /\ UNCHANGED <<table, meddled, kills>> /\ ~Ignored(proc[p].task, Cmd(p))
    BY <1>7 DEF Fail, Cmd
  <2>2. p = g
    BY <1>1, <2>1 DEF StopInv, OthersRepair, Ignored
  <2>3. OthersRepair(g)' /\ proc'[g].slipped = proc[g].slipped /\ proc'[g].task = "off"
    BY <1>2, <1>5, <2>1, <2>2
  <2> SUFFICES ASSUME Undisturbed' PROVE Leaves(g)'
    BY <2>3 DEF StopInv
  <2>4. ~Works(Cmd(g)) /\ failures = 0
    <3>1. failures' = IF Works(Cmd(g)) THEN failures + 1 ELSE failures
      BY <1>7, <2>2 DEF Fail, Cmd
    <3>2. failures \in Nat /\ failures' = 0
      BY <1>1, BoundsAssumption DEF TypeInv, Undisturbed
    <3> QED BY <3>1, <3>2
  <2>5. Leaves(g)
    BY <2>1, <2>4 DEF StopInv, Undisturbed
  <2>6. \A f \in Families : Bare(f)'
    BY <1>1, <1>7, <2>1, <2>2, <2>4, <2>5, InstallFails DEF Bare
  <2> QED BY <2>3, <2>5, <2>6 DEF Leaves
<1>8. ASSUME NEW p \in Procs, Kill(p) PROVE StopInv(g)'
  <2>1. kills' = kills + 1 /\ kills \in Nat
    BY <1>1, <1>8, BoundsAssumption DEF Kill, TypeInv
  <2>2. ~Undisturbed'
    BY <2>1 DEF Undisturbed
  <2> QED BY <1>2, <1>5, <1>8, <2>2 DEF Kill, StopInv
<1>9. ASSUME Start(g) \/ Healthy(g) \/ Cleared(g) PROVE StopInv(g)'
  <2>1. UNCHANGED <<table, meddled, failures, kills>>
    BY <1>9 DEF Start, Healthy, Cleared
  <2>2. \/ Does(g, "waiting", Program("waiting")) /\ proc[g].task = "off"
        \/ Does(g, "clear", Program("clear")) /\ proc[g].task = "waiting"
        \/ Does(g, "install", Program("install")) /\ proc[g].task = "clear"
    BY <1>6, <1>9 DEF Start, Healthy, Cleared, In
  <2>3. OthersRepair(g)'
    BY <1>3, <1>5, <2>2
  <2> SUFFICES ASSUME Undisturbed' PROVE Leaves(g)'
    BY <2>3 DEF StopInv
  <2>4. Leaves(g)
    BY <2>1 DEF StopInv, Undisturbed
  <2>5. CASE Does(g, "install", Program("install")) /\ proc[g].task = "clear"
    <3>1. proc'[g].task = "install" /\ ~proc'[g].slipped /\ Left(g)' = 16
      BY <1>3, <1>5, <1>6, <2>5, InstallIs DEF Left
    <3>2. \A f \in Families : Bare(f)'
      BY <2>1, <2>4, <2>5 DEF Leaves, Before, Bare
    <3>3. \A f \in Families : Done(g, f, 8)' \in {0, -8}
      BY <3>1 DEF Done
    <3> QED BY <3>1, <3>2, <3>3 DEF Leaves, Before
  <2> QED BY <1>3, <1>4, <1>5, <2>1, <2>2, <2>4, <2>5 DEF Before
<1>10. ASSUME Installed(g) \/ Listen(g) \/ CannotListen(g) \/ Stop(g) PROVE StopInv(g)'
  <2>1. \E t \in {"listen", "serve", "teardown"} : Does(g, t, Program(t))
    BY <1>6, <1>10 DEF Installed, Listen, CannotListen, Stop
  <2>2. OthersRepair(g)' /\ ~proc'[g].slipped /\ proc'[g].task \in {"listen", "serve", "teardown"}
    BY <1>3, <1>5, <2>1
  <2> QED BY <2>2 DEF StopInv, Leaves, Before
<1>11. ASSUME NEW p \in Procs, Stopped(p) \/ Repaired(p) \/ Unhealthy(p) PROVE StopInv(g)'
  <2>1. /\ UNCHANGED <<table, meddled, failures, kills>>
        /\ \E how \in Exits : Ends(p, how)
        /\ In(p, "teardown") \/ In(p, "repair") \/ In(p, "waiting")
    BY <1>5, <1>11 DEF Stopped, Repaired, Unhealthy
  <2>2. /\ OthersRepair(g)' /\ proc'[g].slipped = proc[g].slipped
        /\ p = g => proc'[g].task = "off"
        /\ p # g => proc'[g] = proc[g]
    BY <1>2, <2>1
  <2> SUFFICES ASSUME Undisturbed' PROVE Leaves(g)'
    BY <2>2 DEF StopInv
  <2>3. Leaves(g) /\ ~meddled
    BY <2>1 DEF StopInv, Undisturbed
  <2>4. CASE p = g
    <3>1. \A f \in Families : Bare(f)
      <4>1. CASE In(p, "teardown")
        <5>1. Left(g) = 0 /\ proc[g].task \in Removing /\ ~proc[g].slipped
          BY <2>3, <2>4, <4>1 DEF In, Left, Removing, Leaves
        <5>2. \A f \in Families : Done(g, f, 3) >= 2
          BY <5>1 DEF Done
        <5> QED BY <1>1, <2>3, <5>1, <5>2 DEF IInv, Alone, Holds, Flushed, Bare
      <4>2. CASE In(p, "repair") \/ In(p, "waiting")
        BY <2>3, <2>4, <4>2 DEF In, Leaves, Before
      <4> QED BY <2>1, <4>1, <4>2
    <3> QED BY <2>1, <2>2, <2>3, <2>4, <3>1 DEF Leaves, Bare
  <2>5. CASE p # g
    BY <1>1, <2>1, <2>2, <2>3, <2>5, LeavesStill
  <2> QED BY <2>4, <2>5
<1>12. ASSUME NEW r \in Repairs, Repair(r) PROVE StopInv(g)'
  <2>1. r \in Procs /\ Does(r, "repair", Program("repair")) /\ In(r, "off")
        /\ UNCHANGED <<table, meddled, failures, kills>>
    BY <1>6, <1>12 DEF Repair, Procs
  <2>2. /\ \A q \in Procs : q # r => proc'[q] = proc[q]
        /\ proc'[r].task = "repair" /\ proc'[r].slipped = FALSE
    BY <1>1, <1>5, <2>1, DoesIs
  <2>3. OthersRepair(g)'
    BY <2>2 DEF OthersRepair, StopInv
  <2> SUFFICES ASSUME Undisturbed' PROVE Leaves(g)'
    BY <2>3 DEF StopInv
  <2>4. Leaves(g)
    BY <2>1 DEF StopInv, Undisturbed
  <2>5. CASE r = g
    <3>1. proc[g].task \in Before /\ "repair" \in Before
      BY <2>1, <2>5 DEF In, Before
    <3> QED BY <1>4, <2>1, <2>2, <2>4, <2>5, <3>1
  <2>6. CASE r # g
    BY <1>1, <2>1, <2>2, <2>4, <2>6, LeavesStill
  <2> QED BY <2>5, <2>6
<1>13. ASSUME NEW h \in Guards, Start(h) \/ Runs(h) \/ Unhealthy(h) \/ Stop(h) PROVE StopInv(g)'
  <2>1. h = g
    OBVIOUS
  <2> QED BY <1>1, <1>9, <1>10, <1>11, <1>13, <2>1 DEF Runs
<1> QED BY <1>7, <1>8, <1>11, <1>12, <1>13 DEF Next, Procs

\* README.md:41-42 is true of the one guard of a machine whose kernel can redirect
\* IPv6 whenever it can redirect IPv4, as long as no command fails by chance, nothing
\* is killed, and no repair's command comes between the guard's own or the guard's
\* between a repair's (meddled): the guard that has ended, by a stop or a failure,
\* has left nothing redirected. (The run RedirectStop refutes the claim on a kernel
\* that can redirect IPv4 alone.)
THEOREM StopsCleanUndisturbed ==
  ASSUME NEW g, Guards = {g}, "v4" \in Supported => "v6" \in Supported
  PROVE  Spec => [](Undisturbed => StopTearsDown)
<1>1. g \in Procs
  BY DEF Procs
<1>2. Init => StopInv(g)
  BY <1>1, StopInit
<1>3. IInv /\ StopInv(g) /\ [Next]_vars => StopInv(g)'
  <2> SUFFICES ASSUME IInv, StopInv(g), [Next]_vars PROVE StopInv(g)'
    OBVIOUS
  <2>1. CASE UNCHANGED vars
    <3>1. Undisturbed' <=> Undisturbed
      BY <2>1 DEF vars, Undisturbed
    <3>2. Leaves(g) => Leaves(g)'
      BY <1>1, <2>1, LeavesStill DEF vars
    <3> QED BY <2>1, <3>1, <3>2 DEF vars, StopInv, OthersRepair
  <2>2. CASE Next
    BY <1>1, <2>2, StopSucceed, StopIgnored, StopMoves
  <2> QED BY <2>1, <2>2
<1>4. StopInv(g) => (Undisturbed => StopTearsDown)
  BY DEF StopInv, Leaves, StopTearsDown, In, Before, Redirects, Bare
<1> QED BY InvInit, InvStep, <1>2, <1>3, <1>4, PTL DEF Spec

=============================================================================
