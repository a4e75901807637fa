------------------------------ MODULE Download ------------------------------
(***************************************************************************)
(* How the two programs get on the machine: the launcher (npm/bin) fetches *)
(* the guard into a cache and runs it from there; the guard fetches the    *)
(* policy engine (opa.EnsureBinary) under a temporary name and renames it. *)
(* The boot service runs the cached guard, too.  No process knows of the   *)
(* others, and each may be killed at any step.                             *)
(*                                                                         *)
(* A name leads to a file, and whoever has a file open goes on writing to  *)
(* it whatever becomes of its name.  The content of a file is the set of   *)
(* the chunks written since it was truncated; all downloads are of the     *)
(* same release.                                                           *)
(***************************************************************************)
EXTENDS Naturals

CONSTANTS
  Users,      \* the processes that a user starts, by the launcher
  Services,   \* those that the boot service starts, from the cache
  Files,      \* files on the disk, enough of them
  NoFile,     \* no file
  Chunks,     \* a download is written in chunks 1 .. Chunks, each of a megabyte or more
  MaxFaults   \* bound on the downloads that fail and the processes that are killed

Procs == Users \cup Services

Whole == 1 .. Chunks

\* When one of the three names is free, so is a file.
ASSUME FilesAssumption ==
  /\ NoFile \notin Files
  /\ \A named \in [1 .. 2 -> Files \cup {NoFile}], open \in [Procs -> Files \cup {NoFile}] :
       \E f \in Files : (\A i \in 1 .. 2 : named[i] # f) /\ \A p \in Procs : open[p] # f
ASSUME BoundsAssumption == Chunks \in Nat \ {0} /\ MaxFaults \in Nat

VARIABLES
  name,          \* the files behind the guard's cache, the engine's temporary name, the engine
  data,          \* the chunks in each file
  proc,          \* each process: where it is, the file it has open, how many chunks it wrote
  marred, cut,   \* history: see CacheWhole and EngineWhole
  faults

vars == <<name, data, proc, marred, cut, faults>>

Names == {"cache", "tmp", "opa"}

Launching == {"check", "request", "write", "verify", "exec"}
Ensuring == {"find", "fetch", "copy", "rename"}
Stages == {"off", "running"} \cup Launching \cup Ensuring

Idle == [at |-> "off", fd |-> NoFile, wrote |-> 0]

At(p, stage) == proc[p].at = stage

Init ==
  /\ name = [n \in Names |-> NoFile]
  /\ data = [f \in Files |-> {}]
  /\ proc = [p \in Procs |-> Idle]
  /\ marred = FALSE /\ cut = FALSE /\ faults = 0

-----------------------------------------------------------------------------
(* The file system.                                                        *)

Used(f) == f \in {name[n] : n \in Names} \cup {proc[p].fd : p \in Procs}

Written(f) == \E p \in Procs : proc[p].fd = f

\* What is in a file that has a name; nothing if there is none.
Content(n) == IF name[n] = NoFile THEN {} ELSE data[name[n]]

Goes(p, stage) == proc' = [proc EXCEPT ![p] = [Idle EXCEPT !.at = stage]]

Ends(p) == proc' = [proc EXCEPT ![p] = Idle]

Removes(n) == name' = [name EXCEPT ![n] = NoFile]

\* O_CREATE and O_TRUNC.
Opens(p, stage, n) ==
  LET f == IF name[n] = NoFile THEN CHOOSE g \in Files : ~Used(g) ELSE name[n]
  IN /\ name' = [name EXCEPT ![n] = f]
     /\ data' = [data EXCEPT ![f] = {}]
     /\ proc' = [proc EXCEPT ![p] = [at |-> stage, fd |-> f, wrote |-> 0]]

Fault == faults < MaxFaults /\ faults' = faults + 1

-----------------------------------------------------------------------------
(* The launcher.                                                           *)

Start(p) ==
  /\ At(p, "off")
  /\ \/ p \in Users /\ Goes(p, "check")
     \/ p \in Services /\ Goes(p, "exec")
  /\ UNCHANGED <<name, data, marred, cut, faults>>

Any(chunks) == TRUE

\* main: a file of a megabyte or more is taken for the guard.
BigEnough(chunks) == chunks # {}

Check(p) ==
  /\ At(p, "check")
  /\ Goes(p, IF name["cache"] # NoFile /\ BigEnough(Content("cache")) THEN "exec" ELSE "request")
  /\ UNCHANGED <<name, data, marred, cut, faults>>

\* download: after a 200, the file is written in place.
Open(p) ==
  /\ At(p, "request")
  /\ Opens(p, "write", "cache")
  /\ UNCHANGED <<marred, cut, faults>>

\* fail: no answer or an error status, an error of the stream or of the file.
Fails(p) ==
  /\ At(p, "request") \/ At(p, "write")
  /\ Fault
  /\ Removes("cache") /\ Ends(p)
  /\ UNCHANGED <<data, marred, cut>>

\* A chunk of either download.
Write(p) ==
  /\ At(p, "write") \/ At(p, "copy")
  /\ proc[p].wrote < Chunks
  /\ data' = [data EXCEPT ![proc[p].fd] = @ \cup {proc[p].wrote + 1}]
  /\ proc' = [proc EXCEPT ![p].wrote = @ + 1]
  /\ UNCHANGED <<name, marred, cut, faults>>

\* The length that was announced; what matters for it is the last chunk.
FullLength(chunks) == Chunks \in chunks

\* Another process writes to the same file.
Joint(p) == \E q \in Procs \ {p} : proc[q].fd = proc[p].fd

\* The stream finishes, or ends early without an error.
Finish(p) ==
  /\ At(p, "write")
  /\ \/ proc[p].wrote = Chunks /\ UNCHANGED <<marred, faults>>
     \/ /\ proc[p].wrote < Chunks /\ Fault
        /\ marred' = (marred \/ (data[proc[p].fd] # Whole /\ (Chunks \in data[proc[p].fd] \/ Joint(p))))
  /\ Goes(p, "verify")
  /\ UNCHANGED <<name, data, cut>>

Verify(p) ==
  /\ At(p, "verify")
  /\ IF FullLength(Content("cache"))
     THEN Goes(p, "exec") /\ UNCHANGED name
     ELSE Removes("cache") /\ Ends(p)
  /\ UNCHANGED <<data, marred, cut, faults>>

\* What is there is run; if it is not the whole guard, it does not get far.  A
\* system may refuse to run a file that is being written to.
Exec(p) ==
  /\ At(p, "exec")
  /\ \/ Content("cache") = Whole /\ Goes(p, "find")
     \/ Content("cache") # Whole /\ Ends(p)
     \/ Written(name["cache"]) /\ Ends(p)
  /\ UNCHANGED <<name, data, marred, cut, faults>>

-----------------------------------------------------------------------------
(* EnsureBinary.                                                           *)

\* Binary: any file of that name will do.
Find(p) ==
  /\ At(p, "find")
  /\ Goes(p, IF name["opa"] # NoFile THEN "running" ELSE "fetch")
  /\ UNCHANGED <<name, data, marred, cut, faults>>

OpenTmp(p) ==
  /\ At(p, "fetch")
  /\ Opens(p, "copy", "tmp")
  /\ UNCHANGED <<marred, cut, faults>>

\* Another process is at the same download, or p writes to the engine's own file.
Shared(p) ==
  \/ \E q \in Procs \ {p} : proc[q].at \in {"copy", "rename"}
  \/ proc[p].fd = name["opa"]

\* io.Copy fails, or the checksum differs: the temporary name is removed.
CopyFails(p) ==
  /\ At(p, "copy") /\ Fault
  /\ cut' = (cut \/ Shared(p))
  /\ Removes("tmp") /\ Ends(p)
  /\ UNCHANGED <<data, marred>>

\* No answer, or an error status.
FetchFails(p) ==
  /\ At(p, "fetch") /\ Fault
  /\ Ends(p)
  /\ UNCHANGED <<name, data, marred, cut>>

CopiedAtAll(p) ==
  /\ At(p, "copy") /\ Goes(p, "rename")
  /\ UNCHANGED <<name, data, marred, cut, faults>>

CopiedNotClosed(p) ==
  /\ At(p, "copy") /\ proc[p].wrote = Chunks
  /\ proc' = [proc EXCEPT ![p].at = "rename"]
  /\ UNCHANGED <<name, data, marred, cut, faults>>

Copied(p) ==
  /\ At(p, "copy") /\ proc[p].wrote = Chunks
  /\ Goes(p, "rename")
  /\ UNCHANGED <<name, data, marred, cut, faults>>

Rename(p) ==
  /\ At(p, "rename")
  /\ IF name["tmp"] = NoFile
     THEN Ends(p) /\ UNCHANGED name
     ELSE name' = [name EXCEPT !["opa"] = name["tmp"], !["tmp"] = NoFile] /\ Goes(p, "running")
  /\ UNCHANGED <<data, marred, cut, faults>>

-----------------------------------------------------------------------------

Stop(p) ==
  /\ At(p, "running")
  /\ Ends(p)
  /\ UNCHANGED <<name, data, marred, cut, faults>>

\* A launcher's file as it is when the launcher is killed.
LeavesPart(p) ==
  \/ At(p, "write") /\ data[proc[p].fd] # Whole /\ (data[proc[p].fd] # {} \/ Joint(p))
  \/ At(p, "verify") /\ Content("cache") \notin {{}, Whole}

\* A kill leaves behind what was written.
Kill(p) ==
  /\ ~At(p, "off") /\ Fault
  /\ marred' = (marred \/ LeavesPart(p))
  /\ cut' = (cut \/ (At(p, "copy") /\ Shared(p)))
  /\ Ends(p)
  /\ UNCHANGED <<name, data>>

Runs(p) ==
  \/ Start(p) \/ Check(p) \/ Open(p) \/ Write(p) \/ Finish(p) \/ Verify(p) \/ Exec(p)
  \/ Find(p) \/ OpenTmp(p) \/ Copied(p) \/ Rename(p)

Next ==
  \E p \in Procs :
    Runs(p) \/ Fails(p) \/ CopyFails(p) \/ FetchFails(p) \/ Stop(p) \/ Kill(p)

Spec == Init /\ [][Next]_vars

\* The service manager and the users try again, and what runs goes on.
Fairness == \A p \in Procs : WF_vars(Runs(p))

FairSpec == Spec /\ Fairness

-----------------------------------------------------------------------------
(* Properties.                                                             *)

TypeOK ==
  /\ name \in [Names -> Files \cup {NoFile}]
  /\ data \in [Files -> SUBSET Whole]
  /\ proc \in [Procs -> [at : Stages, fd : Files \cup {NoFile}, wrote : 0 .. Chunks]]
  /\ \A p \in Procs : proc[p].fd # NoFile <=> proc[p].at \in {"write", "copy"}
  /\ marred \in BOOLEAN /\ cut \in BOOLEAN /\ faults \in 0 .. MaxFaults

\* The engine that is in place is whole, or becomes so by a process that still
\* writes to it: killed and failed downloads leave no part of one under its name
\* (opa.go:97-122), but for those cut short while another process was at the same
\* download under the same temporary name.
EngineWhole ==
  ~cut /\ name["opa"] # NoFile => Content("opa") = Whole \/ Written(name["opa"])

\* The cached guard is whole, is not checked yet, or is too short to be taken for
\* one: "never leaves a partial/empty file behind" (aarvion-guard.js:34-36), but
\* for a launcher that is killed, and a stream that ends early while another
\* launcher downloads.
CacheWhole ==
  ~marred /\ BigEnough(Content("cache")) =>
    Content("cache") = Whole \/ Written(name["cache"]) \/ \E p \in Procs : At(p, "verify")

Racing == \E p, q \in Procs : p # q /\ {proc[p].at, proc[q].at} \subseteq {"request", "write", "verify"}

\* "A poisoned cache can't block future runs" (aarvion-guard.js:34-36): whoever
\* starts the guard by the launcher gets it and the engine in the end, whatever
\* downloads failed before, unless a file was spoiled or launchers undo each
\* other's downloads for ever.  (A boot service only waits for a user to do so.)
GetsGoing ==
  \A p \in Users \ Services : []<>(At(p, "running") \/ marred \/ cut \/ Racing)
=============================================================================
