--------------------------- MODULE DownloadProofs ---------------------------
(***************************************************************************)
(* Proofs about Download, for any number of launchers and services, any    *)
(* number of chunks and of faults, and any disk with enough files.         *)
(***************************************************************************)
EXTENDS Download, TLAPS

ProcType == [at : Stages, fd : Files \cup {NoFile}, wrote : 0 .. Chunks]

Others(p) == \A q \in Procs : q # p => proc'[q] = proc[q]

\* p goes to a stage at which it has no file open.
Moves(p, stage) ==
  /\ Others(p) /\ proc' \in [Procs -> ProcType]
  /\ proc'[p] = [at |-> stage, fd |-> NoFile, wrote |-> 0]

LEMMA Names3 == "cache" \in Names /\ "tmp" \in Names /\ "opa" \in Names
BY DEF Names

LEMMA GoesIs ==
  ASSUME TypeOK, NEW p \in Procs, NEW stage \in Stages, Goes(p, stage)
  PROVE  Moves(p, stage)
<1>1. [Idle EXCEPT !.at = stage] = [at |-> stage, fd |-> NoFile, wrote |-> 0]
  BY DEF Idle
<1>2. [at |-> stage, fd |-> NoFile, wrote |-> 0] \in ProcType
  BY BoundsAssumption DEF ProcType
<1>3. proc \in [Procs -> ProcType]
  BY DEF TypeOK, ProcType
<1> QED BY <1>1, <1>2, <1>3 DEF Goes, Moves, Others

LEMMA EndsIs ==
  ASSUME TypeOK, NEW p \in Procs, Ends(p)
  PROVE  Moves(p, "off")
<1>1. [at |-> "off", fd |-> NoFile, wrote |-> 0] \in ProcType
  BY BoundsAssumption DEF ProcType, Stages
<1>2. proc \in [Procs -> ProcType]
  BY DEF TypeOK, ProcType
<1> QED BY <1>1, <1>2 DEF Ends, Idle, Moves, Others

\* A file that nobody has anything to do with.
LEMMA FreeFile ==
  ASSUME TypeOK, NEW n \in Names, name[n] = NoFile
  PROVE  \E f \in Files : ~Used(f)
<1>1. PICK a \in Names, b \in Names : Names = {n, a, b}
  <2>1. CASE n = "cache" BY <2>1 DEF Names
  <2>2. CASE n = "tmp" BY <2>2 DEF Names
  <2>3. CASE n = "opa" BY <2>3 DEF Names
  <2> QED BY <2>1, <2>2, <2>3 DEF Names
<1> DEFINE named == [i \in 1 .. 2 |-> IF i = 1 THEN name[a] ELSE name[b]]
           open == [p \in Procs |-> proc[p].fd]
<1>2. named \in [1 .. 2 -> Files \cup {NoFile}] /\ open \in [Procs -> Files \cup {NoFile}]
  BY DEF TypeOK
<1>3. PICK f \in Files : (\A i \in 1 .. 2 : named[i] # f) /\ \A p \in Procs : open[p] # f
  <2> HIDE DEF named, open
  <2> QED BY <1>2, FilesAssumption
<1>4. name[a] # f /\ name[b] # f /\ name[n] # f
  <2>1. named[1] # f /\ named[2] # f
    BY <1>3
  <2> QED BY <2>1, FilesAssumption
<1>5. \A m \in Names : name[m] # f
  BY <1>1, <1>4
<1>6. \A p \in Procs : proc[p].fd # f
  BY <1>3
<1> QED BY <1>5, <1>6 DEF Used

\* p has opened f: the file of that name, if there was one, or else a fresh one.
Opened(p, stage, n, f) ==
  /\ name' = [name EXCEPT ![n] = f] /\ data' = [data EXCEPT ![f] = {}]
  /\ Others(p) /\ proc' \in [Procs -> ProcType]
  /\ proc'[p] = [at |-> stage, fd |-> f, wrote |-> 0]
  /\ name[n] # NoFile => f = name[n]
  /\ name[n] = NoFile => ~Used(f)

LEMMA OpensIs ==
  ASSUME TypeOK, NEW p \in Procs, NEW stage \in Stages, NEW n \in Names, Opens(p, stage, n)
  PROVE  \E f \in Files : Opened(p, stage, n, f)
<1> DEFINE f == IF name[n] = NoFile THEN CHOOSE g \in Files : ~Used(g) ELSE name[n]
<1>1. f \in Files /\ (name[n] # NoFile => f = name[n]) /\ (name[n] = NoFile => ~Used(f))
  BY FreeFile DEF TypeOK
<1>2. name' = [name EXCEPT ![n] = f] /\ data' = [data EXCEPT ![f] = {}]
      /\ proc' = [proc EXCEPT ![p] = [at |-> stage, fd |-> f, wrote |-> 0]]
  BY DEF Opens
<1> HIDE DEF f
<1>3. [at |-> stage, fd |-> f, wrote |-> 0] \in ProcType
  BY <1>1, BoundsAssumption DEF ProcType
<1>4. proc \in [Procs -> ProcType]
  BY DEF TypeOK, ProcType
<1>5. Others(p) /\ proc' \in [Procs -> ProcType] /\ proc'[p] = [at |-> stage, fd |-> f, wrote |-> 0]
  BY <1>2, <1>3, <1>4 DEF Others
<1> QED BY <1>1, <1>2, <1>5 DEF Opened

\* p has written its next chunk.
Wrote(p) ==
  /\ proc[p].wrote \in 0 .. Chunks - 1 /\ proc[p].fd \in Files /\ proc[p].at \in {"write", "copy"}
  /\ data' = [data EXCEPT ![proc[p].fd] = data[proc[p].fd] \cup {proc[p].wrote + 1}]
  /\ Others(p) /\ proc' \in [Procs -> ProcType]
  /\ proc'[p].at = proc[p].at /\ proc'[p].fd = proc[p].fd /\ proc'[p].wrote = proc[p].wrote + 1

LEMMA WriteIs ==
  ASSUME TypeOK, NEW p \in Procs, Write(p)
  PROVE  Wrote(p)
<1>1. proc \in [Procs -> ProcType] /\ proc[p] \in ProcType
  BY DEF TypeOK, ProcType
<1>2. proc[p].wrote \in 0 .. Chunks - 1 /\ proc[p].wrote + 1 \in 0 .. Chunks
  BY <1>1, BoundsAssumption DEF Write, ProcType
<1>3. proc[p].at \in {"write", "copy"} /\ proc[p].fd \in Files
  BY <1>1 DEF Write, At, TypeOK, ProcType
<1>4. proc' = [proc EXCEPT ![p] = [proc[p] EXCEPT !.wrote = proc[p].wrote + 1]]
  BY <1>1 DEF Write, ProcType
<1>5. [proc[p] EXCEPT !.wrote = proc[p].wrote + 1] \in ProcType
  BY <1>1, <1>2 DEF ProcType
<1>6. Others(p) /\ proc' \in [Procs -> ProcType] /\ proc'[p] = [proc[p] EXCEPT !.wrote = proc[p].wrote + 1]
  BY <1>1, <1>4, <1>5 DEF Others
<1>7. proc'[p].at = proc[p].at /\ proc'[p].fd = proc[p].fd /\ proc'[p].wrote = proc[p].wrote + 1
  BY <1>1, <1>6 DEF ProcType
<1> QED BY <1>2, <1>3, <1>6, <1>7 DEF Write, Wrote

-----------------------------------------------------------------------------
(* Types.                                                                  *)

LEMMA TypeInit == Init => TypeOK
<1> SUFFICES ASSUME Init PROVE TypeOK
  OBVIOUS
<1>1. Idle \in ProcType /\ Idle.fd = NoFile /\ Idle.at = "off"
  BY BoundsAssumption DEF Idle, ProcType, Stages
<1>2. proc \in [Procs -> ProcType] /\ \A p \in Procs : proc[p].fd # NoFile <=> proc[p].at \in {"write", "copy"}
  BY <1>1 DEF Init
<1>3. name \in [Names -> Files \cup {NoFile}] /\ data \in [Files -> SUBSET Whole]
  BY DEF Init
<1>4. marred \in BOOLEAN /\ cut \in BOOLEAN /\ faults = 0
  BY DEF Init
<1>5. 0 \in 0 .. MaxFaults
  BY BoundsAssumption
<1> QED BY <1>2, <1>3, <1>4, <1>5 DEF TypeOK, ProcType

\* The processes' part, and the rest.
LEMMA MovesType ==
  ASSUME TypeOK, NEW p \in Procs, NEW stage \in Stages \ {"write", "copy"}, Moves(p, stage),
         name' \in [Names -> Files \cup {NoFile}], data' \in [Files -> SUBSET Whole],
         marred' \in BOOLEAN, cut' \in BOOLEAN, faults' \in 0 .. MaxFaults
  PROVE  TypeOK'
BY DEF TypeOK, Moves, Others, ProcType

LEMMA OpensType ==
  ASSUME TypeOK, NEW p \in Procs, NEW stage \in {"write", "copy"}, NEW n \in Names,
         Opens(p, stage, n), UNCHANGED <<marred, cut, faults>>
  PROVE  TypeOK'
<1>1. stage \in Stages
  BY DEF Stages, Launching, Ensuring
<1>2. PICK f \in Files : Opened(p, stage, n, f)
  BY <1>1, OpensIs
<1>3. name' \in [Names -> Files \cup {NoFile}] /\ data' \in [Files -> SUBSET Whole]
  BY <1>2 DEF Opened, TypeOK
<1>4. \A q \in Procs : proc'[q].fd # NoFile <=> proc'[q].at \in {"write", "copy"}
  BY <1>2, FilesAssumption DEF Opened, Others, TypeOK
<1> QED BY <1>2, <1>3, <1>4 DEF Opened, TypeOK, ProcType

LEMMA WriteType == ASSUME TypeOK, NEW p \in Procs, Write(p) PROVE TypeOK'
<1>1. Wrote(p)
  BY WriteIs
<1>2. proc[p].wrote + 1 \in Whole
  BY <1>1, BoundsAssumption DEF Wrote, Whole
<1>3. data' \in [Files -> SUBSET Whole]
  BY <1>1, <1>2 DEF Wrote, TypeOK
<1>4. \A q \in Procs : proc'[q].fd # NoFile <=> proc'[q].at \in {"write", "copy"}
  BY <1>1 DEF Wrote, Others, TypeOK
<1> QED BY <1>1, <1>3, <1>4 DEF Wrote, Write, TypeOK, ProcType

LEMMA StagesAre ==
  /\ Stages = {"off", "running", "check", "request", "write", "verify", "exec", "find", "fetch", "copy", "rename"}
BY DEF Stages, Launching, Ensuring

LEMMA FaultType == TypeOK /\ Fault => faults' \in 0 .. MaxFaults
BY BoundsAssumption DEF TypeOK, Fault

LEMMA RemovesType == \A n \in Names : TypeOK /\ Removes(n) => name' \in [Names -> Files \cup {NoFile}]
BY DEF TypeOK, Removes

\* Every step but those that open a file or write to one, with what it does to p.
LEMMA Leaves ==
  ASSUME TypeOK, NEW p \in Procs,
         \/ Start(p) \/ Check(p) \/ Finish(p) \/ Verify(p) \/ Exec(p)
         \/ Find(p) \/ Copied(p) \/ Rename(p)
         \/ Fails(p) \/ CopyFails(p) \/ FetchFails(p) \/ Stop(p) \/ Kill(p)
  PROVE  /\ \E stage \in Stages \ {"write", "copy"} : Moves(p, stage)
         /\ TypeOK'
<1>1. ASSUME NEW stage \in Stages, Goes(p, stage) PROVE Moves(p, stage)
  BY <1>1, GoesIs
<1>2. ASSUME Ends(p) PROVE Moves(p, "off")
  BY <1>2, EndsIs
<1>3. \E stage \in Stages \ {"write", "copy"} : Moves(p, stage)
  <2>1. CASE Start(p)
    BY <2>1, <1>1, StagesAre DEF Start
  <2>2. CASE Check(p)
    BY <2>2, <1>1, StagesAre DEF Check
  <2>3. CASE Finish(p)
    BY <2>3, <1>1, StagesAre DEF Finish
  <2>4. CASE Verify(p)
    BY <2>4, <1>1, <1>2, StagesAre DEF Verify
  <2>5. CASE Exec(p)
    BY <2>5, <1>1, <1>2, StagesAre DEF Exec
  <2>6. CASE Find(p)
    BY <2>6, <1>1, StagesAre DEF Find
  <2>7. CASE Copied(p)
    BY <2>7, <1>1, StagesAre DEF Copied
  <2>8. CASE Rename(p)
    BY <2>8, <1>1, <1>2, StagesAre DEF Rename
  <2>9. CASE Fails(p) \/ CopyFails(p) \/ FetchFails(p) \/ Stop(p) \/ Kill(p)
    BY <2>9, <1>2, StagesAre DEF Fails, CopyFails, FetchFails, Stop, Kill
  <2> QED BY <2>1, <2>2, <2>3, <2>4, <2>5, <2>6, <2>7, <2>8, <2>9
<1>4. name' \in [Names -> Files \cup {NoFile}]
  <2>1. CASE Rename(p)
    BY <2>1 DEF Rename, TypeOK, Names
  <2>2. CASE ~Rename(p)
    BY <2>2, RemovesType, Names3 DEF TypeOK, Start, Check, Finish, Verify, Exec, Find, Copied, Fails, CopyFails, FetchFails, Stop, Kill
  <2> QED BY <2>1, <2>2
<1>5. data' = data
  BY DEF Start, Check, Finish, Verify, Exec, Find, Copied, Rename, Fails, CopyFails, FetchFails, Stop, Kill
<1>6. marred' \in BOOLEAN
  <2>1. CASE Finish(p)
    BY <2>1, Zenon DEF Finish, TypeOK
  <2>2. CASE Kill(p)
    BY <2>2, Zenon DEF Kill, TypeOK
  <2> QED BY <2>1, <2>2 DEF TypeOK, Start, Check, Verify, Exec, Find, Copied, Rename, Fails, CopyFails, FetchFails, Stop
<1>7. cut' \in BOOLEAN
  <2>1. CASE CopyFails(p)
    BY <2>1, Zenon DEF CopyFails, TypeOK
  <2>2. CASE Kill(p)
    BY <2>2, Zenon DEF Kill, TypeOK
  <2> QED BY <2>1, <2>2 DEF TypeOK, Start, Check, Finish, Verify, Exec, Find, Copied, Rename, Fails, FetchFails, Stop
<1>8. faults' \in 0 .. MaxFaults
  <2>1. CASE Finish(p) \/ Fails(p) \/ CopyFails(p) \/ FetchFails(p) \/ Kill(p)
    BY <2>1, FaultType DEF TypeOK, Finish, Fails, CopyFails, FetchFails, Kill
  <2> QED BY <2>1 DEF TypeOK, Start, Check, Verify, Exec, Find, Copied, Rename, Stop
<1>9. data' \in [Files -> SUBSET Whole]
  BY <1>5 DEF TypeOK
<1> QED BY <1>3, <1>4, <1>6, <1>7, <1>8, <1>9, MovesType

LEMMA TypeStep == TypeOK /\ [Next]_vars => TypeOK'
<1> SUFFICES ASSUME TypeOK, [Next]_vars PROVE TypeOK'
  OBVIOUS
<1>1. CASE UNCHANGED vars
  BY <1>1 DEF vars, TypeOK, At
<1>2. ASSUME NEW p \in Procs, Open(p) \/ OpenTmp(p) PROVE TypeOK'
  BY <1>2, OpensType, Names3 DEF Open, OpenTmp
<1> QED BY <1>1, <1>2, WriteType, Leaves DEF Next, Runs

\* The variables of Download have their types; in particular there is a file to be
\* had whenever one is opened.
THEOREM TypeCorrect == Spec => []TypeOK
BY TypeInit, TypeStep, PTL DEF Spec

-----------------------------------------------------------------------------
(* Who writes to what.                                                     *)

Copies(f) == \E p \in Procs : At(p, "copy") /\ proc[p].fd = f

Fetches(f) == \E p \in Procs : At(p, "write") /\ proc[p].fd = f

\* All that p has written is there: nobody has truncated the file since.
Whence(p, f) == proc[p].fd = f /\ 1 .. proc[p].wrote \subseteq data[f]

Apart ==
  /\ \A m, n \in Names : m # n /\ name[m] # NoFile => name[m] # name[n]
  /\ \A p \in Procs :
       /\ At(p, "write") => proc[p].fd # name["tmp"] /\ proc[p].fd # name["opa"] /\ ~Copies(proc[p].fd)
       /\ At(p, "copy") => proc[p].fd # name["cache"]

LEMMA ApartInit == Init => Apart
BY DEF Init, Apart, Idle, At

\* Nothing comes together when p has no file and names are only taken away.
LEMMA ApartLess ==
  ASSUME TypeOK, Apart, NEW p \in Procs, NEW stage \in Stages \ {"write", "copy"}, Moves(p, stage),
         \A n \in Names : name'[n] \in {name[n], NoFile}
  PROVE  Apart'
<1>1. \A m, n \in Names : m # n /\ name'[m] # NoFile => name'[m] # name'[n]
  BY DEF Apart
<1>2. ~At(p, "write")' /\ ~At(p, "copy")'
  BY DEF Moves, At
<1>3. \A q \in Procs, t \in {"write", "copy"} : At(q, t)' => q # p /\ At(q, t) /\ proc'[q].fd = proc[q].fd
  BY <1>2 DEF Moves, Others, At
<1>4. \A f : Copies(f)' => Copies(f)
  BY <1>3 DEF Copies
<1>5. \A q \in Procs, t \in {"write", "copy"} : At(q, t) => proc[q].fd # NoFile
  BY DEF TypeOK, At
<1>6. ASSUME NEW q \in Procs, At(q, "write")'
      PROVE  proc'[q].fd # name'["tmp"] /\ proc'[q].fd # name'["opa"] /\ ~Copies(proc[q].fd)' /\ proc'[q].fd = proc[q].fd
  BY <1>3, <1>4, <1>5, <1>6, Names3 DEF Apart
<1>7. ASSUME NEW q \in Procs, At(q, "copy")' PROVE proc'[q].fd # name'["cache"]
  BY <1>3, <1>5, <1>7, Names3 DEF Apart
<1> QED BY <1>1, <1>6, <1>7 DEF Apart, Copies, At

LEMMA ApartStep == TypeOK /\ Apart /\ [Next]_vars => Apart'
<1> SUFFICES ASSUME TypeOK, Apart, [Next]_vars PROVE Apart'
  OBVIOUS
<1>1. CASE UNCHANGED vars
  BY <1>1 DEF vars, Apart, Copies, At
<1>2. ASSUME NEW p \in Procs, Rename(p) PROVE Apart'
  <2>1. PICK stage \in Stages \ {"write", "copy"} : Moves(p, stage)
    BY <1>2, Leaves
  <2>2. CASE name["tmp"] = NoFile
    BY <1>2, <2>1, <2>2, ApartLess DEF Rename
  <2>3. CASE name["tmp"] # NoFile
    <3>1. /\ name'["cache"] = name["cache"] /\ name'["tmp"] = NoFile /\ name'["opa"] = name["tmp"]
      BY <1>2, <2>3 DEF Rename, TypeOK, Names
    <3>2. \A m, n \in Names : m # n /\ name'[m] # NoFile => name'[m] # name'[n]
      BY <3>1, <2>3, FilesAssumption DEF Apart, Names
    <3>3. \A q \in Procs, t \in {"write", "copy"} : At(q, t)' => q # p /\ At(q, t) /\ proc'[q].fd = proc[q].fd
      BY <2>1 DEF Moves, Others, At
    <3>4. \A q \in Procs : At(q, "write") => proc[q].fd # NoFile
      BY DEF TypeOK, At
    <3>5. ASSUME NEW q \in Procs
          PROVE  /\ At(q, "write")' => proc'[q].fd # name'["tmp"] /\ proc'[q].fd # name'["opa"] /\ ~Copies(proc[q].fd)'
                 /\ At(q, "copy")' => proc'[q].fd # name'["cache"]
      BY <3>1, <3>3, <3>4, Names3 DEF Apart, Copies
    <3> QED BY <3>2, <3>3, <3>5 DEF Apart, Copies, At
  <2> QED BY <2>2, <2>3
<1>3. ASSUME NEW p \in Procs,
             \/ Start(p) \/ Check(p) \/ Finish(p) \/ Verify(p) \/ Exec(p)
             \/ Find(p) \/ Copied(p)
             \/ Fails(p) \/ CopyFails(p) \/ FetchFails(p) \/ Stop(p) \/ Kill(p)
      PROVE  Apart'
  <2>1. PICK stage \in Stages \ {"write", "copy"} : Moves(p, stage)
    BY <1>3, Leaves
  <2>2. \A n \in Names : name'[n] \in {name[n], NoFile}
    BY <1>3 DEF TypeOK, Removes, Start, Check, Finish, Verify, Exec, Find, Copied, Fails, CopyFails, FetchFails, Stop, Kill
  <2> QED BY <2>1, <2>2, ApartLess
<1>4. ASSUME NEW p \in Procs, Write(p) PROVE Apart'
  <2>1. Wrote(p) /\ name' = name
    BY <1>4, WriteIs DEF Write
  <2>2. \A q \in Procs : proc'[q].at = proc[q].at /\ proc'[q].fd = proc[q].fd
    BY <2>1 DEF Wrote, Others
  <2> QED BY <2>1, <2>2 DEF Apart, Copies, At
<1>5. ASSUME NEW p \in Procs, Open(p) PROVE Apart'
  <2>1. PICK f \in Files : Opened(p, "write", "cache", f)
    BY <1>5, OpensIs, StagesAre, Names3 DEF Open
  <2>2. /\ name'["cache"] = f /\ name'["tmp"] = name["tmp"] /\ name'["opa"] = name["opa"]
        /\ f # name["tmp"] /\ f # name["opa"]
    <3>1. f # name["tmp"] /\ f # name["opa"]
      BY <2>1, FilesAssumption, Names3 DEF Opened, Apart, Used
    <3> QED BY <2>1, <3>1 DEF Opened, TypeOK, Names
  <2>3. \A q \in Procs : At(q, "copy") => proc[q].fd # f
    BY <2>1 DEF Opened, Apart, Used
  <2>4. \A q \in Procs : q # p => At(q, "write")' = At(q, "write") /\ At(q, "copy")' = At(q, "copy") /\ proc'[q] = proc[q]
    BY <2>1 DEF Opened, Others, At
  <2>5. At(p, "write")' /\ ~At(p, "copy")' /\ proc'[p].fd = f
    BY <2>1 DEF Opened, At
  <2>6. \A g : Copies(g)' => Copies(g)
    BY <2>4, <2>5 DEF Copies
  <2>7. ~Copies(f)
    BY <2>3 DEF Copies
  <2>8. \A m, n \in Names : m # n /\ name'[m] # NoFile => name'[m] # name'[n]
    BY <2>2 DEF Apart, Names
  <2>9. ASSUME NEW q \in Procs
        PROVE  /\ At(q, "write")' => proc'[q].fd # name'["tmp"] /\ proc'[q].fd # name'["opa"]
               /\ At(q, "write")' => \A g : g = proc'[q].fd => ~Copies(g)'
               /\ At(q, "copy")' => proc'[q].fd # name'["cache"]
    <3>1. CASE q = p
      BY <2>2, <2>5, <2>6, <2>7, <3>1
    <3>2. CASE q # p
      BY <2>2, <2>3, <2>4, <2>6, <3>2 DEF Apart
    <3> QED BY <3>1, <3>2
  <2> QED BY <2>8, <2>9 DEF Apart, Copies, At
<1>6. ASSUME NEW p \in Procs, OpenTmp(p) PROVE Apart'
  <2>1. PICK f \in Files : Opened(p, "copy", "tmp", f)
    BY <1>6, OpensIs, StagesAre, Names3 DEF OpenTmp
  <2>2. /\ name'["tmp"] = f /\ name'["cache"] = name["cache"] /\ name'["opa"] = name["opa"]
        /\ f # name["cache"] /\ f # name["opa"]
    <3>1. f # name["cache"] /\ f # name["opa"]
      BY <2>1, FilesAssumption, Names3 DEF Opened, Apart, Used
    <3> QED BY <2>1, <3>1 DEF Opened, TypeOK, Names
  <2>3. \A q \in Procs : At(q, "write") => proc[q].fd # f
    BY <2>1 DEF Opened, Apart, Used
  <2>4. \A q \in Procs : q # p => At(q, "write")' = At(q, "write") /\ At(q, "copy")' = At(q, "copy") /\ proc'[q] = proc[q]
    BY <2>1 DEF Opened, Others, At
  <2>5. At(p, "copy")' /\ ~At(p, "write")' /\ proc'[p].fd = f
    BY <2>1 DEF Opened, At
  <2>6. \A g : Copies(g)' => Copies(g) \/ g = f
    BY <2>4, <2>5 DEF Copies
  <2>7. \A m, n \in Names : m # n /\ name'[m] # NoFile => name'[m] # name'[n]
    BY <2>2 DEF Apart, Names
  <2>8. ASSUME NEW q \in Procs
        PROVE  /\ At(q, "write")' => proc'[q].fd # name'["tmp"] /\ proc'[q].fd # name'["opa"]
               /\ At(q, "write")' => \A g : g = proc'[q].fd => ~Copies(g)'
               /\ At(q, "copy")' => proc'[q].fd # name'["cache"]
    <3>1. CASE q = p
      BY <2>2, <2>5, <3>1
    <3>2. CASE q # p
      BY <2>2, <2>3, <2>4, <2>6, <3>2 DEF Apart
    <3> QED BY <3>1, <3>2
  <2> QED BY <2>7, <2>8 DEF Apart, Copies, At
<1> QED BY <1>1, <1>2, <1>3, <1>4, <1>5, <1>6 DEF Next, Runs

-----------------------------------------------------------------------------
(* The engine.  What is renamed is a whole file, or somebody writes to it  *)
(* who will have written all of it; `cut` says that such a one was lost.   *)

EngineInv ==
  ~cut =>
    /\ \A f \in Files : Copies(f) => \E p \in Procs : At(p, "copy") /\ Whence(p, f)
    /\ name["opa"] # NoFile => data[name["opa"]] = Whole \/ Copies(name["opa"])
    /\ name["tmp"] # NoFile /\ (\E p \in Procs : proc[p].at \in {"copy", "rename"}) =>
         data[name["tmp"]] = Whole \/ Copies(name["tmp"])

LEMMA EngineInit == Init => EngineInv
BY FilesAssumption, Names3 DEF Init, EngineInv, Copies, Idle, At

LEMMA EngineElse ==
  ASSUME TypeOK, EngineInv, ~cut' => ~cut, NEW p \in Procs, Others(p),
         proc[p].at \notin {"copy", "rename"}, proc'[p].at \notin {"copy", "rename"},
         name'["tmp"] = name["tmp"], name'["opa"] = name["opa"],
         \A f \in Files : Copies(f) \/ f = name["tmp"] \/ f = name["opa"] => data'[f] = data[f]
  PROVE  EngineInv'
<1> SUFFICES ASSUME ~cut' PROVE EngineInv'
  BY DEF EngineInv
<1>1. \A q \in Procs : At(q, "copy")' <=> At(q, "copy")
  BY DEF Others, At
<1>2. \A q \in Procs : At(q, "copy") => proc'[q] = proc[q]
  BY DEF Others, At
<1>3. \A q \in Procs : proc'[q].at \in {"copy", "rename"} => proc[q].at \in {"copy", "rename"}
  BY DEF Others
<1>4. \A f : Copies(f)' <=> Copies(f)
  BY <1>1, <1>2 DEF Copies
<1>5. \A f \in Files : Copies(f)' => \E q \in Procs : (At(q, "copy") /\ Whence(q, f))'
  BY <1>1, <1>2, <1>4 DEF EngineInv, Whence
<1>6. name["tmp"] \in Files \cup {NoFile} /\ name["opa"] \in Files \cup {NoFile}
  BY Names3 DEF TypeOK
<1> QED BY <1>3, <1>4, <1>5, <1>6 DEF EngineInv

LEMMA EngineWrites ==
  ASSUME TypeOK, EngineInv, NEW p \in Procs, At(p, "copy"), Write(p)
  PROVE  EngineInv'
<1> SUFFICES ASSUME ~cut PROVE EngineInv'
  BY DEF EngineInv, Write
<1>1. Wrote(p) /\ UNCHANGED <<name, cut>>
  BY WriteIs DEF Write
<1> DEFINE new == proc[p].wrote + 1
<1>2. \A q \in Procs : proc'[q].at = proc[q].at /\ proc'[q].fd = proc[q].fd
                       /\ proc'[q].wrote = IF q = p THEN new ELSE proc[q].wrote
  BY <1>1 DEF Wrote, Others
<1>3. new \in Whole /\ proc[p].wrote \in Nat
  BY <1>1, BoundsAssumption DEF Wrote, Whole
<1>4. \A f \in Files : data'[f] = IF f = proc[p].fd THEN data[f] \cup {new} ELSE data[f]
  BY <1>1 DEF Wrote, TypeOK
<1>5. \A f \in Files : data[f] = Whole => data'[f] = Whole
  BY <1>3, <1>4
<1>6. \A f : Copies(f)' <=> Copies(f)
  BY <1>2 DEF Copies, At
<1>7. \A q \in Procs, f \in Files : Whence(q, f) => Whence(q, f)'
  <2> SUFFICES ASSUME NEW q \in Procs, NEW f \in Files, Whence(q, f) PROVE Whence(q, f)'
    OBVIOUS
  <2>1. CASE q = p
    <3>1. f = proc[p].fd /\ data'[f] = data[f] \cup {new} /\ 1 .. proc[p].wrote \subseteq data[f]
      BY <1>4, <2>1 DEF Whence
    <3>2. 1 .. new = 1 .. proc[p].wrote \cup {new}
      BY <1>3
    <3> QED BY <1>2, <2>1, <3>1, <3>2 DEF Whence
  <2>2. CASE q # p
    BY <1>2, <1>4, <2>2 DEF Whence
  <2> QED BY <2>1, <2>2
<1>8. \A f \in Files : Copies(f)' => \E q \in Procs : (At(q, "copy") /\ Whence(q, f))'
  BY <1>2, <1>6, <1>7 DEF EngineInv, At
<1>9. name["tmp"] \in Files \cup {NoFile} /\ name["opa"] \in Files \cup {NoFile}
  BY Names3 DEF TypeOK
<1> QED BY <1>1, <1>2, <1>5, <1>6, <1>8, <1>9 DEF EngineInv

LEMMA EngineOpens ==
  ASSUME TypeOK, Apart, EngineInv, NEW p \in Procs, OpenTmp(p)
  PROVE  EngineInv'
<1> SUFFICES ASSUME ~cut PROVE EngineInv'
  BY DEF EngineInv, OpenTmp
<1>1. PICK f \in Files : Opened(p, "copy", "tmp", f)
  BY OpensIs, StagesAre, Names3 DEF OpenTmp
<1>2. f # name["opa"]
  BY <1>1, FilesAssumption, Names3 DEF Opened, Apart, Used
<1>3. name'["tmp"] = f /\ name'["opa"] = name["opa"] /\ data'[f] = {} /\ cut' = cut
      /\ \A g \in Files : g # f => data'[g] = data[g]
  BY <1>1 DEF Opened, TypeOK, Names, OpenTmp
<1>4. ~At(p, "copy") /\ At(p, "copy")' /\ proc'[p].fd = f /\ proc'[p].wrote = 0
  BY <1>1 DEF Opened, At, OpenTmp
<1>5. \A q \in Procs : q # p => (At(q, "copy")' <=> At(q, "copy")) /\ proc'[q] = proc[q]
  BY <1>1 DEF Opened, Others, At
<1>6. \A g : g # f => (Copies(g)' <=> Copies(g))
  BY <1>4, <1>5 DEF Copies
<1>7. Copies(f)' /\ Whence(p, f)'
  BY <1>4 DEF Copies, Whence
<1>8. \A g \in Files : Copies(g)' => \E q \in Procs : (At(q, "copy") /\ Whence(q, g))'
  <2> SUFFICES ASSUME NEW g \in Files, Copies(g)' PROVE \E q \in Procs : (At(q, "copy") /\ Whence(q, g))'
    OBVIOUS
  <2>1. CASE g = f
    BY <1>4, <1>7, <2>1
  <2>2. CASE g # f
    <3>1. PICK q \in Procs : At(q, "copy") /\ Whence(q, g)
      BY <1>6, <2>2 DEF EngineInv
    <3>2. q # p
      BY <1>4, <3>1
    <3> QED BY <1>3, <1>5, <2>2, <3>1, <3>2 DEF Whence
  <2> QED BY <2>1, <2>2
<1>9. name["opa"] \in Files \cup {NoFile}
  BY Names3 DEF TypeOK
<1> QED BY <1>2, <1>3, <1>6, <1>7, <1>8, <1>9 DEF EngineInv

\* A download that ends without success, when nobody shares its file.
LEMMA EngineLost ==
  ASSUME TypeOK, EngineInv, NEW p \in Procs, At(p, "copy"), Moves(p, "off"), ~cut' => ~cut /\ ~Shared(p),
         data' = data, name'["tmp"] \in {name["tmp"], NoFile}, name'["opa"] = name["opa"]
  PROVE  EngineInv'
<1> SUFFICES ASSUME ~cut' PROVE EngineInv'
  BY DEF EngineInv
<1>1. proc[p].fd # name["opa"] /\ \A q \in Procs : q # p => proc[q].at \notin {"copy", "rename"}
  BY DEF Shared
<1>2. \A q \in Procs : proc'[q].at \notin {"copy", "rename"}
  BY <1>1 DEF Moves, Others
<1>3. \A f : ~Copies(f)'
  BY <1>2 DEF Copies, At
<1>4. ~Copies(name["opa"])
  BY <1>1 DEF Copies, At
<1> QED BY <1>2, <1>3, <1>4 DEF EngineInv

LEMMA EngineCopied ==
  ASSUME TypeOK, EngineInv, NEW p \in Procs, Copied(p)
  PROVE  EngineInv'
<1> SUFFICES ASSUME ~cut PROVE EngineInv'
  BY DEF EngineInv, Copied
<1>1. Moves(p, "rename") /\ UNCHANGED <<name, data, cut>>
  BY GoesIs, StagesAre DEF Copied
<1> DEFINE f == proc[p].fd
<1>2. f \in Files /\ At(p, "copy") /\ proc[p].wrote = Chunks
  BY DEF Copied, TypeOK, At
<1>3. \A q \in Procs : q # p => (At(q, "copy")' <=> At(q, "copy")) /\ proc'[q] = proc[q]
  BY <1>1 DEF Moves, Others, At
<1>4. ~At(p, "copy")'
  BY <1>1 DEF Moves, At
<1>5. \A g : Copies(g)' => Copies(g)
  BY <1>3, <1>4 DEF Copies
<1>6. \A g \in Files : data[g] \subseteq Whole /\ (Whence(p, g) => data[g] = Whole)
  BY <1>2 DEF Whence, TypeOK, Whole
<1>7. \A q \in Procs, g \in Files : data[g] = Whole /\ proc[q].fd = g => Whence(q, g)
  <2> SUFFICES ASSUME NEW q \in Procs, NEW g \in Files, data[g] = Whole, proc[q].fd = g PROVE Whence(q, g)
    OBVIOUS
  <2>1. proc[q].wrote \in 0 .. Chunks
    BY DEF TypeOK
  <2>2. 1 .. proc[q].wrote \subseteq Whole
    BY <2>1, BoundsAssumption DEF Whole
  <2> QED BY <2>2 DEF Whence
<1>8. \A g \in Files : Copies(g)' => \E q \in Procs : (At(q, "copy") /\ Whence(q, g))'
  <2> SUFFICES ASSUME NEW g \in Files, Copies(g)' PROVE \E q \in Procs : (At(q, "copy") /\ Whence(q, g))'
    OBVIOUS
  <2>1. PICK q \in Procs : At(q, "copy") /\ Whence(q, g)
    BY <1>5 DEF EngineInv
  <2>2. CASE q # p
    BY <1>1, <1>3, <2>1, <2>2 DEF Whence
  <2>3. CASE q = p
    <3>1. PICK r \in Procs : At(r, "copy")' /\ proc'[r].fd = g
      BY DEF Copies
    <3>2. r # p /\ At(r, "copy") /\ proc[r].fd = g /\ proc'[r] = proc[r]
      BY <1>3, <1>4, <3>1
    <3>3. Whence(r, g)
      BY <1>6, <1>7, <2>1, <2>3, <3>2
    <3> QED BY <1>1, <3>1, <3>2, <3>3 DEF Whence
  <2> QED BY <2>2, <2>3
<1>9. \A g \in Files : data[g] = Whole \/ Copies(g) => data[g] = Whole \/ Copies(g)'
  <2> SUFFICES ASSUME NEW g \in Files, Copies(g), ~Copies(g)' PROVE data[g] = Whole
    OBVIOUS
  <2>1. PICK q \in Procs : At(q, "copy") /\ Whence(q, g)
    BY DEF EngineInv
  <2>2. q = p
    BY <1>3, <2>1 DEF Copies, Whence
  <2> QED BY <1>6, <2>1, <2>2
<1>10. name["tmp"] \in Files \cup {NoFile} /\ name["opa"] \in Files \cup {NoFile}
  BY Names3 DEF TypeOK
<1>11. name["opa"] # NoFile => data[name["opa"]] = Whole \/ Copies(name["opa"])'
  BY <1>1, <1>9, <1>10 DEF EngineInv, Copies
<1>12. name["tmp"] # NoFile => data[name["tmp"]] = Whole \/ Copies(name["tmp"])'
  BY <1>1, <1>2, <1>9, <1>10 DEF EngineInv, At, Copies
<1> QED BY <1>1, <1>8, <1>11, <1>12 DEF EngineInv, Copies

LEMMA EngineRenamed ==
  ASSUME TypeOK, EngineInv, NEW p \in Procs, Rename(p)
  PROVE  EngineInv'
<1> SUFFICES ASSUME ~cut PROVE EngineInv'
  BY DEF EngineInv, Rename
<1>1. UNCHANGED <<data, cut>> /\ \E stage \in {"off", "running"} : Moves(p, stage)
  BY GoesIs, EndsIs, StagesAre DEF Rename
<1>2. At(p, "rename")
  BY DEF Rename
<1>3. \A q \in Procs : (At(q, "copy")' <=> At(q, "copy")) /\ (At(q, "copy") => proc'[q] = proc[q])
  BY <1>1, <1>2 DEF Moves, Others, At
<1>4. \A f : Copies(f)' <=> Copies(f)
  BY <1>3 DEF Copies
<1>5. \A f \in Files : Copies(f)' => \E q \in Procs : (At(q, "copy") /\ Whence(q, f))'
  BY <1>1, <1>3, <1>4 DEF EngineInv, Whence
<1>6. CASE name["tmp"] = NoFile
  BY <1>1, <1>4, <1>5, <1>6 DEF Rename, EngineInv
<1>7. CASE name["tmp"] # NoFile
  <2>1. name'["opa"] = name["tmp"] /\ name'["tmp"] = NoFile
    BY <1>7 DEF Rename, TypeOK, Names
  <2>2. data[name["tmp"]] = Whole \/ Copies(name["tmp"])
    BY <1>2, <1>7 DEF EngineInv, At
  <2> QED BY <1>1, <1>4, <1>5, <2>1, <2>2 DEF EngineInv
<1> QED BY <1>6, <1>7

\* Killed between the download and the renaming.
LEMMA EngineUnrenamed ==
  ASSUME TypeOK, EngineInv, NEW p \in Procs, At(p, "rename"), Moves(p, "off"), UNCHANGED <<name, data>>, ~cut' => ~cut
  PROVE  EngineInv'
<1> SUFFICES ASSUME ~cut' PROVE EngineInv'
  BY DEF EngineInv
<1>1. \A q \in Procs : /\ At(q, "copy")' <=> At(q, "copy")
                       /\ At(q, "copy") => proc'[q] = proc[q]
                       /\ proc'[q].at \in {"copy", "rename"} => proc[q].at \in {"copy", "rename"}
  BY DEF Moves, Others, At
<1>2. \A f : Copies(f)' <=> Copies(f)
  BY <1>1 DEF Copies
<1>3. \A f \in Files : Copies(f)' => \E q \in Procs : (At(q, "copy") /\ Whence(q, f))'
  BY <1>1, <1>2 DEF EngineInv, Whence
<1> QED BY <1>1, <1>2, <1>3 DEF EngineInv

LEMMA EngineStep == TypeOK /\ Apart /\ EngineInv /\ [Next]_vars => EngineInv'
<1> SUFFICES ASSUME TypeOK, Apart, EngineInv, [Next]_vars PROVE EngineInv'
  OBVIOUS
<1>1. CASE UNCHANGED vars
  BY <1>1 DEF vars, EngineInv, Copies, Whence, At
<1>2. ASSUME NEW p \in Procs, Write(p) PROVE EngineInv'
  <2>1. CASE At(p, "copy")
    BY <1>2, <2>1, EngineWrites
  <2>2. CASE At(p, "write")
    <3>1. Wrote(p) /\ UNCHANGED <<name, cut>>
      BY <1>2, WriteIs DEF Write
    <3>2. proc[p].fd # name["tmp"] /\ proc[p].fd # name["opa"] /\ ~Copies(proc[p].fd)
      BY <2>2 DEF Apart
    <3>3. \A f \in Files : Copies(f) \/ f = name["tmp"] \/ f = name["opa"] => data'[f] = data[f]
      BY <3>1, <3>2 DEF Wrote, TypeOK
    <3> QED BY <2>2, <3>1, <3>3, EngineElse DEF Wrote, At
  <2> QED BY <1>2, <2>1, <2>2 DEF Write
<1>3. ASSUME NEW p \in Procs, Open(p) PROVE EngineInv'
  <2>1. PICK f \in Files : Opened(p, "write", "cache", f)
    BY <1>3, OpensIs, StagesAre, Names3 DEF Open
  <2>2. f # name["tmp"] /\ f # name["opa"] /\ ~Copies(f)
    <3>1. f # name["tmp"] /\ f # name["opa"]
      BY <2>1, FilesAssumption, Names3 DEF Opened, Apart, Used
    <3>2. \A q \in Procs : At(q, "copy") => proc[q].fd # f
      BY <2>1 DEF Opened, Apart, Used
    <3> QED BY <3>1, <3>2 DEF Copies
  <2>3. \A g \in Files : Copies(g) \/ g = name["tmp"] \/ g = name["opa"] => data'[g] = data[g]
    BY <2>1, <2>2 DEF Opened, TypeOK
  <2>4. name'["tmp"] = name["tmp"] /\ name'["opa"] = name["opa"] /\ cut' = cut
    BY <1>3, <2>1 DEF Opened, TypeOK, Names, Open
  <2>5. proc[p].at \notin {"copy", "rename"} /\ proc'[p].at \notin {"copy", "rename"} /\ Others(p)
    BY <1>3, <2>1 DEF Open, At, Opened
  <2> QED BY <2>3, <2>4, <2>5, EngineElse
<1>4. ASSUME NEW p \in Procs,
             \/ Start(p) \/ Check(p) \/ Finish(p) \/ Verify(p) \/ Exec(p)
             \/ Find(p) \/ Fails(p) \/ FetchFails(p) \/ Stop(p)
      PROVE  EngineInv'
  <2>1. PICK stage \in Stages : Moves(p, stage) /\ stage \notin {"copy", "rename"}
    <3>1. ASSUME NEW stage \in Stages, Goes(p, stage) PROVE Moves(p, stage)
      BY <3>1, GoesIs
    <3>2. ASSUME Ends(p) PROVE Moves(p, "off")
      BY <3>2, EndsIs
    <3> QED BY <1>4, <3>1, <3>2, StagesAre DEF Start, Check, Finish, Verify, Exec, Find, Fails, FetchFails, Stop
  <2>2. name'["tmp"] = name["tmp"] /\ name'["opa"] = name["opa"] /\ cut' = cut /\ data' = data
    BY <1>4 DEF Removes, TypeOK, Names, Start, Check, Finish, Verify, Exec, Find, Fails, FetchFails, Stop
  <2>3. proc[p].at \notin {"copy", "rename"}
    BY <1>4 DEF At, Start, Check, Finish, Verify, Exec, Find, Fails, FetchFails, Stop
  <2> QED BY <2>1, <2>2, <2>3, EngineElse DEF Moves
<1>5. ASSUME NEW p \in Procs, CopyFails(p) PROVE EngineInv'
  <2>1. cut' = (cut \/ Shared(p)) /\ At(p, "copy") /\ Moves(p, "off")
    BY <1>5, EndsIs DEF CopyFails
  <2>2. ~cut' => ~cut /\ ~Shared(p)
    BY <2>1, Zenon
  <2>3. data' = data /\ name'["tmp"] \in {name["tmp"], NoFile} /\ name'["opa"] = name["opa"]
    BY <1>5 DEF CopyFails, Removes, TypeOK, Names
  <2> QED BY <2>1, <2>2, <2>3, EngineLost
<1>6. ASSUME NEW p \in Procs, Kill(p) PROVE EngineInv'
  <2>1. cut' = (cut \/ (At(p, "copy") /\ Shared(p))) /\ Moves(p, "off") /\ UNCHANGED <<name, data>>
    BY <1>6, EndsIs DEF Kill
  <2>2. ~cut' => ~cut /\ ~(At(p, "copy") /\ Shared(p))
    BY <2>1, Zenon
  <2>3. CASE At(p, "copy")
    BY <2>1, <2>2, <2>3, EngineLost
  <2>4. CASE At(p, "rename")
    BY <2>1, <2>2, <2>4, EngineUnrenamed
  <2>5. CASE ~At(p, "copy") /\ ~At(p, "rename")
    BY <2>1, <2>2, <2>5, EngineElse DEF Moves, At
  <2> QED BY <2>3, <2>4, <2>5
<1>7. ASSUME NEW p \in Procs, OpenTmp(p) \/ Copied(p) \/ Rename(p) PROVE EngineInv'
  BY <1>7, EngineOpens, EngineCopied, EngineRenamed
<1> QED BY <1>1, <1>2, <1>3, <1>4, <1>5, <1>6, <1>7 DEF Next, Runs

\* For any number of downloads at a time, and however they end: the engine in
\* place is whole, or is being made so (opa.go:97-122).
THEOREM EngineInPlace == Spec => []EngineWhole
<1>1. EngineInv => EngineWhole
  BY FilesAssumption DEF EngineInv, EngineWhole, Content, Copies, Written
<1> QED BY TypeInit, TypeStep, ApartInit, ApartStep, EngineInit, EngineStep, <1>1, PTL DEF Spec

-----------------------------------------------------------------------------
(* The launcher's cache.  A file that is not being written to and has its  *)
(* last chunk is whole; `marred` says that one was left that is not.       *)

CacheOf(c) ==
  /\ Fetches(c) => \E p \in Procs : At(p, "write") /\ Whence(p, c)
  /\ Chunks \in data[c] => data[c] = Whole \/ Fetches(c)
  /\ data[c] # {} => data[c] = Whole \/ Fetches(c) \/ \E p \in Procs : At(p, "verify")

CacheInv == ~marred /\ name["cache"] # NoFile => CacheOf(name["cache"])

LEMMA CacheInit == Init => CacheInv
BY Names3 DEF Init, CacheInv

LEMMA CacheElse ==
  ASSUME TypeOK, CacheInv, ~marred' => ~marred, NEW p \in Procs, Others(p),
         proc[p].at \notin {"write", "verify"}, proc'[p].at # "write",
         name'["cache"] = name["cache"], name["cache"] # NoFile => data'[name["cache"]] = data[name["cache"]]
  PROVE  CacheInv'
<1> SUFFICES ASSUME ~marred', NEW c \in Files, c = name["cache"] PROVE CacheOf(c)'
  BY Names3 DEF CacheInv, TypeOK
<1>1. CacheOf(c) /\ data'[c] = data[c]
  BY FilesAssumption DEF CacheInv
<1>2. \A q \in Procs : /\ At(q, "write")' <=> At(q, "write")
                       /\ At(q, "verify") => At(q, "verify")'
                       /\ At(q, "write") => proc'[q] = proc[q]
  BY DEF Others, At
<1>3. Fetches(c)' <=> Fetches(c)
  BY <1>2 DEF Fetches
<1>4. Fetches(c)' => \E q \in Procs : (At(q, "write") /\ Whence(q, c))'
  BY <1>1, <1>2, <1>3 DEF CacheOf, Whence
<1> QED BY <1>1, <1>2, <1>3, <1>4 DEF CacheOf

LEMMA CacheWrites ==
  ASSUME TypeOK, CacheInv, NEW p \in Procs, At(p, "write"), Write(p)
  PROVE  CacheInv'
<1> SUFFICES ASSUME ~marred, NEW c \in Files, c = name["cache"] PROVE CacheOf(c)'
  BY Names3 DEF CacheInv, TypeOK, Write
<1>1. Wrote(p) /\ name' = name /\ CacheOf(c)
  BY WriteIs, FilesAssumption DEF Write, CacheInv
<1> DEFINE new == proc[p].wrote + 1
<1>2. \A q \in Procs : proc'[q].at = proc[q].at /\ proc'[q].fd = proc[q].fd
                       /\ proc'[q].wrote = IF q = p THEN new ELSE proc[q].wrote
  BY <1>1 DEF Wrote, Others
<1>3. new \in Whole /\ proc[p].wrote \in Nat
  BY <1>1, BoundsAssumption DEF Wrote, Whole
<1>4. Fetches(c)' <=> Fetches(c)
  BY <1>2 DEF Fetches, At
<1>5. CASE proc[p].fd = c
  <2>1. data'[c] = data[c] \cup {new}
    BY <1>1, <1>5 DEF Wrote, TypeOK
  <2>2. Fetches(c)'
    BY <1>2, <1>5 DEF Fetches, At
  <2>3. PICK q \in Procs : At(q, "write") /\ Whence(q, c)
    BY <1>1, <1>4, <2>2 DEF CacheOf
  <2>4. (At(q, "write") /\ Whence(q, c))'
    <3>1. 1 .. proc[q].wrote \subseteq data[c] /\ proc[q].fd = c
      BY <2>3 DEF Whence
    <3>2. 1 .. new = 1 .. proc[p].wrote \cup {new}
      BY <1>3
    <3>3. 1 .. proc'[q].wrote \subseteq data'[c]
      BY <1>2, <2>1, <3>1, <3>2
    <3> QED BY <1>2, <2>3, <3>1, <3>3 DEF Whence, At
  <2> QED BY <2>2, <2>4 DEF CacheOf
<1>6. CASE proc[p].fd # c
  <2>1. data'[c] = data[c]
    BY <1>1, <1>6 DEF Wrote, TypeOK
  <2>2. \A q \in Procs : Whence(q, c) => q # p
    BY <1>6 DEF Whence
  <2>3. Fetches(c)' => \E q \in Procs : (At(q, "write") /\ Whence(q, c))'
    BY <1>1, <1>2, <1>4, <2>1, <2>2 DEF CacheOf, Whence, At
  <2> QED BY <1>1, <1>2, <1>4, <2>1, <2>3 DEF CacheOf, At
<1> QED BY <1>5, <1>6

LEMMA CacheOpens ==
  ASSUME TypeOK, NEW p \in Procs, Open(p)
  PROVE  CacheInv'
<1>1. PICK f \in Files : Opened(p, "write", "cache", f)
  BY OpensIs, StagesAre, Names3 DEF Open
<1>2. name'["cache"] = f /\ data'[f] = {}
  BY <1>1, Names3 DEF Opened, TypeOK
<1>3. At(p, "write")' /\ proc'[p].fd = f /\ proc'[p].wrote = 0
  BY <1>1 DEF Opened, At
<1>4. Fetches(f)' /\ Whence(p, f)'
  BY <1>3 DEF Fetches, Whence
<1>5. CacheOf(f)'
  BY <1>2, <1>3, <1>4 DEF CacheOf
<1> QED BY <1>2, <1>5 DEF CacheInv

\* p is done with its file, for one reason or another.
LEMMA CacheLeft ==
  ASSUME TypeOK, CacheInv, NEW p \in Procs, At(p, "write"), NEW stage \in Stages \ {"write"}, Moves(p, stage),
         UNCHANGED <<name, data>>,
         ~marred' => /\ ~marred
                     /\ \/ data[proc[p].fd] = Whole
                        \/ proc[p].wrote = Chunks
                        \/ /\ Chunks \notin data[proc[p].fd]
                           /\ ~Joint(p)
                           /\ (stage = "verify" \/ data[proc[p].fd] = {})
  PROVE  CacheInv'
<1> SUFFICES ASSUME ~marred', NEW c \in Files, c = name["cache"] PROVE CacheOf(c)'
  BY Names3 DEF CacheInv, TypeOK
<1>1. CacheOf(c) /\ data' = data
  BY FilesAssumption DEF CacheInv
<1>2. ~At(p, "write")' /\ (At(p, "verify")' <=> stage = "verify") /\ ~At(p, "verify")
  BY DEF Moves, At
<1>3. \A q \in Procs : q # p => /\ proc'[q] = proc[q]
                                /\ At(q, "write")' <=> At(q, "write")
                                /\ At(q, "verify")' <=> At(q, "verify")
  BY DEF Moves, Others, At
<1>4. Fetches(c)' => \E q \in Procs : q # p /\ At(q, "write") /\ proc[q].fd = c
  BY <1>2, <1>3 DEF Fetches
<1>5. ASSUME NEW q \in Procs, q # p, At(q, "write"), Whence(q, c) PROVE CacheOf(c)'
  <2>1. (At(q, "write") /\ Whence(q, c))'
    BY <1>1, <1>3, <1>5 DEF Whence
  <2>2. Fetches(c)'
    BY <2>1 DEF Fetches, Whence
  <2> QED BY <2>1, <2>2 DEF CacheOf
<1>6. ASSUME data[c] = Whole PROVE CacheOf(c)'
  <2>1. ASSUME NEW q \in Procs, proc[q].fd = c PROVE Whence(q, c)
    <3>1. proc[q].wrote \in 0 .. Chunks
      BY DEF TypeOK
    <3>2. 1 .. proc[q].wrote \subseteq Whole
      BY <3>1, BoundsAssumption DEF Whole
    <3> QED BY <1>6, <2>1, <3>2 DEF Whence
  <2>2. CASE Fetches(c)'
    BY <1>4, <1>5, <2>1, <2>2
  <2>3. CASE ~Fetches(c)'
    BY <1>1, <1>6, <2>3 DEF CacheOf
  <2> QED BY <2>2, <2>3
<1>7. CASE proc[p].fd # c
  <2>1. Fetches(c)' <=> Fetches(c)
    BY <1>2, <1>3, <1>7 DEF Fetches
  <2>2. CASE Fetches(c)
    <3>1. PICK q \in Procs : At(q, "write") /\ Whence(q, c)
      BY <1>1, <2>2 DEF CacheOf
    <3> QED BY <1>5, <1>7, <3>1 DEF Whence
  <2>3. CASE ~Fetches(c)
    BY <1>1, <1>2, <1>3, <2>1, <2>3 DEF CacheOf
  <2> QED BY <2>2, <2>3
<1>8. CASE proc[p].fd = c /\ proc[p].wrote = Chunks
  <2>1. PICK q \in Procs : At(q, "write") /\ Whence(q, c)
    BY <1>1, <1>8 DEF CacheOf, Fetches
  <2>2. CASE q = p
    <3>1. data[c] \subseteq Whole
      BY DEF TypeOK
    <3>2. data[c] = Whole
      BY <1>8, <2>1, <2>2, <3>1 DEF Whence, Whole
    <3> QED BY <1>6, <3>2
  <2>3. CASE q # p
    BY <1>5, <2>1, <2>3
  <2> QED BY <2>2, <2>3
<1>9. CASE proc[p].fd = c /\ Chunks \notin data[c] /\ ~Joint(p) /\ (stage = "verify" \/ data[c] = {})
  <2>1. ~Fetches(c)'
    BY <1>4, <1>9 DEF Joint
  <2> QED BY <1>1, <1>2, <1>9, <2>1 DEF CacheOf
<1> QED BY <1>6, <1>7, <1>8, <1>9

\* p has found the file long enough; or is killed before it could tell.
LEMMA CacheVerified ==
  ASSUME TypeOK, CacheInv, NEW p \in Procs, At(p, "verify"), NEW stage \in Stages \ {"write"}, Moves(p, stage),
         UNCHANGED <<name, data>>,
         ~marred' => ~marred /\ (FullLength(Content("cache")) \/ Content("cache") \in {{}, Whole})
  PROVE  CacheInv'
<1> SUFFICES ASSUME ~marred', NEW c \in Files, c = name["cache"] PROVE CacheOf(c)'
  BY Names3 DEF CacheInv, TypeOK
<1>1. CacheOf(c) /\ data' = data /\ (Chunks \in data[c] \/ data[c] \in {{}, Whole})
  BY FilesAssumption DEF CacheInv, FullLength, Content
<1>2. \A q \in Procs : (At(q, "write")' <=> At(q, "write")) /\ (At(q, "write") => proc'[q] = proc[q])
  BY DEF Moves, Others, At
<1>3. Fetches(c)' <=> Fetches(c)
  BY <1>2 DEF Fetches
<1>4. Fetches(c)' => \E q \in Procs : (At(q, "write") /\ Whence(q, c))'
  BY <1>1, <1>2, <1>3 DEF CacheOf, Whence
<1> QED BY <1>1, <1>3, <1>4 DEF CacheOf

LEMMA CacheStep == TypeOK /\ Apart /\ CacheInv /\ [Next]_vars => CacheInv'
<1> SUFFICES ASSUME TypeOK, Apart, CacheInv, [Next]_vars PROVE CacheInv'
  OBVIOUS
<1>1. CASE UNCHANGED vars
  BY <1>1 DEF vars, CacheInv, CacheOf, Fetches, Whence, At
<1>2. ASSUME NEW p \in Procs, Write(p) PROVE CacheInv'
  <2>1. CASE At(p, "write")
    BY <1>2, <2>1, CacheWrites
  <2>2. CASE At(p, "copy")
    <3>1. Wrote(p) /\ UNCHANGED <<name, marred>>
      BY <1>2, WriteIs DEF Write
    <3>2. name["cache"] # NoFile => data'[name["cache"]] = data[name["cache"]]
      BY <2>2, <3>1, Names3 DEF Apart, Wrote, TypeOK
    <3> QED BY <2>2, <3>1, <3>2, CacheElse DEF Wrote, At
  <2> QED BY <1>2, <2>1, <2>2 DEF Write
<1>3. ASSUME NEW p \in Procs, OpenTmp(p) PROVE CacheInv'
  <2>1. PICK f \in Files : Opened(p, "copy", "tmp", f)
    BY <1>3, OpensIs, StagesAre, Names3 DEF OpenTmp
  <2>2. f # name["cache"]
    BY <2>1, FilesAssumption, Names3 DEF Opened, Apart, Used
  <2>3. name["cache"] # NoFile => data'[name["cache"]] = data[name["cache"]]
    BY <2>1, <2>2, Names3 DEF Opened, TypeOK
  <2>4. name'["cache"] = name["cache"] /\ marred' = marred
    BY <1>3, <2>1 DEF Opened, TypeOK, Names, OpenTmp
  <2>5. proc[p].at \notin {"write", "verify"} /\ proc'[p].at # "write" /\ Others(p)
    BY <1>3, <2>1 DEF OpenTmp, At, Opened
  <2> QED BY <2>3, <2>4, <2>5, CacheElse
<1>4. ASSUME NEW p \in Procs,
             \/ Start(p) \/ Check(p) \/ Exec(p) \/ Find(p) \/ Copied(p) \/ Rename(p)
             \/ CopyFails(p) \/ FetchFails(p) \/ Stop(p)
      PROVE  CacheInv'
  <2>1. PICK stage \in Stages \ {"write", "copy"} : Moves(p, stage)
    BY <1>4, Leaves
  <2>2. name'["cache"] = name["cache"] /\ marred' = marred /\ data' = data
    BY <1>4 DEF Removes, TypeOK, Names, Start, Check, Exec, Find, Copied, Rename, CopyFails, FetchFails, Stop
  <2>3. proc[p].at \notin {"write", "verify"}
    BY <1>4 DEF At, Start, Check, Exec, Find, Copied, Rename, CopyFails, FetchFails, Stop
  <2> QED BY <2>1, <2>2, <2>3, CacheElse DEF Moves
<1>5. ASSUME NEW p \in Procs, Finish(p) PROVE CacheInv'
  <2>1. Moves(p, "verify") /\ At(p, "write") /\ UNCHANGED <<name, data>>
    BY <1>5, GoesIs, StagesAre DEF Finish
  <2>2. CASE proc[p].wrote = Chunks /\ UNCHANGED <<marred, faults>>
    BY <2>1, <2>2, CacheLeft, StagesAre
  <2>3. CASE marred' = (marred \/ (data[proc[p].fd] # Whole /\ (Chunks \in data[proc[p].fd] \/ Joint(p))))
    <3>1. ~marred' => ~marred /\ (data[proc[p].fd] = Whole \/ (Chunks \notin data[proc[p].fd] /\ ~Joint(p)))
      BY <2>3, Zenon
    <3> QED BY <2>1, <3>1, CacheLeft, StagesAre
  <2> QED BY <1>5, <2>2, <2>3 DEF Finish
<1>6. ASSUME NEW p \in Procs, Verify(p) PROVE CacheInv'
  <2>1. CASE FullLength(Content("cache"))
    <3>1. Moves(p, "exec") /\ At(p, "verify") /\ UNCHANGED <<name, data, marred>>
      BY <1>6, <2>1, GoesIs, StagesAre DEF Verify
    <3> QED BY <2>1, <3>1, CacheVerified, StagesAre
  <2>2. CASE ~FullLength(Content("cache"))
    <3>1. name'["cache"] = NoFile
      BY <1>6, <2>2, Names3 DEF Verify, Removes, TypeOK
    <3> QED BY <3>1 DEF CacheInv
  <2> QED BY <2>1, <2>2
<1>7. ASSUME NEW p \in Procs, Fails(p) PROVE CacheInv'
  <2>1. name'["cache"] = NoFile
    BY <1>7, Names3 DEF Fails, Removes, TypeOK
  <2> QED BY <2>1 DEF CacheInv
<1>8. ASSUME NEW p \in Procs, Kill(p) PROVE CacheInv'
  <2>1. Moves(p, "off") /\ UNCHANGED <<name, data>> /\ marred' = (marred \/ LeavesPart(p))
    BY <1>8, EndsIs DEF Kill
  <2>2. ~marred' => ~marred /\ ~LeavesPart(p)
    BY <2>1, Zenon
  <2>3. CASE At(p, "write")
    <3>1. ~marred' => ~marred /\ (data[proc[p].fd] = Whole \/ (data[proc[p].fd] = {} /\ ~Joint(p)))
      BY <2>2, <2>3 DEF LeavesPart
    <3> QED BY <2>1, <2>3, <3>1, CacheLeft, StagesAre
  <2>4. CASE At(p, "verify")
    <3>1. ~marred' => ~marred /\ Content("cache") \in {{}, Whole}
      BY <2>2, <2>4 DEF LeavesPart
    <3> QED BY <2>1, <2>4, <3>1, CacheVerified, StagesAre
  <2>5. CASE ~At(p, "write") /\ ~At(p, "verify")
    BY <2>1, <2>2, <2>5, CacheElse DEF Moves, At
  <2> QED BY <2>3, <2>4, <2>5
<1>9. ASSUME NEW p \in Procs, Open(p) PROVE CacheInv'
  BY <1>9, CacheOpens
<1> QED BY <1>1, <1>2, <1>3, <1>4, <1>5, <1>6, <1>7, <1>8, <1>9 DEF Next, Runs

\* For any number of launchers: what is in the cache is whole, or will be checked
\* or written on, or is too short to be run (aarvion-guard.js:34-84).
THEOREM CacheInPlace == Spec => []CacheWhole
<1>1. CacheInv => CacheWhole
  BY DEF CacheInv, CacheOf, CacheWhole, BigEnough, Content, Fetches, Written
<1> QED BY TypeInit, TypeStep, ApartInit, ApartStep, CacheInit, CacheStep, <1>1, PTL DEF Spec

=============================================================================
