------------------------------ MODULE Recorder ------------------------------
(***************************************************************************)
(* internal/decisions: the recorder of egress decisions.  Request handlers *)
(* call Add from any goroutine; one goroutine, RunPush, flushes the queue  *)
(* to the control plane and saves the chain cursor in chain.json; a        *)
(* restart resumes the chain from that file.                               *)
(*                                                                         *)
(* The process may die at any step: main returns without waiting for       *)
(* RunPush, and os.Exit and a kill do not wait either.  A push may be lost, *)
(* or reach the control plane after the client has given up on it.         *)
(***************************************************************************)
EXTENDS HashChain, Functions

CONSTANTS
  Sigs,           \* what "method host path" tells apart (decisions.go:150)
  Outcomes,       \* the decisions that handlers record
  MaxDecisions,   \* bound on the calls of Add, over all lives of the process
  MaxStarts,      \* bound on the lives of the process
  MaxErrors       \* where the errors counter stops counting

Outcome == [sig : Sigs, decision : {"allow", "deny"}, redacted : BOOLEAN]

ASSUME OutcomesAssumption == Outcomes \subseteq Outcome
ASSUME BoundsAssumption == MaxDecisions \in Nat /\ MaxStarts \in Nat /\ MaxErrors \in Nat

VARIABLES
  alive, starts,           \* the process, and how often it was started
  ctxDone,                 \* the context of RunPush has ended
  seq, prev,               \* the end of the chain: last sequence number, last hash
  pending, sampled,        \* rows to push; signatures of the allows queued in this window
  total, denies, errors,   \* counters the heartbeat reports
  push, final, batch,      \* RunPush: where it is, whether in its last flush, and with which rows
  chain,                   \* the cursor chain.json holds, Genesis' if it holds none
  cp, late,                \* rows the control plane holds; pushes that may still arrive there
  clock,                   \* the timestamps: one tick per Add
  refused, forked          \* history: rows refused but treated as received; chain re-used

memory  == <<seq, prev, pending, sampled, total, denies>>
process == <<alive, starts, ctxDone>>
pusher  == <<push, final, batch>>
remote  == <<cp, late>>
history == <<clock, refused, forked>>
vars == <<process, memory, errors, pusher, chain, remote, history>>

Row == [seq : Nat, hash : Nat, prev : Nat, what : Outcomes]

Cursor == [seq : Nat, prev : Nat]

\* No chain.json, or one that does not parse.
NoCursor == [seq |-> 0, prev |-> Genesis]

CursorOf(r) == [seq |-> r.seq, prev |-> r.hash]

\* The rows of this life that the process does not know to be received, in order.
Unsaved == batch \o pending

Sent == cp \cup UNION late

Init ==
  /\ alive = FALSE /\ starts = 0 /\ ctxDone = FALSE
  /\ seq = 0 /\ prev = Genesis /\ pending = <<>> /\ sampled = {}
  /\ total = 0 /\ denies = 0 /\ errors = 0
  /\ push = "wait" /\ final = FALSE /\ batch = <<>>
  /\ chain = NoCursor
  /\ cp = {} /\ late = {}
  /\ clock = 0 /\ refused = {} /\ forked = FALSE

-----------------------------------------------------------------------------
(* Lives of the process.                                                   *)

ResumeGenesis(c) == NoCursor
ResumeBefore(c) == [seq |-> c.seq - 1, prev |-> c.prev]

\* New: where a restarted recorder continues the chain.
Resume(c) == [seq |-> c.seq, prev |-> c.prev]

\* cmdRun makes a recorder and starts RunPush.  The chain forks if a row that
\* was sent already hangs from the cursor the new life continues from.
Start ==
  /\ ~alive /\ starts < MaxStarts
  /\ alive' = TRUE /\ starts' = starts + 1
  /\ seq' = Resume(chain).seq /\ prev' = Resume(chain).prev
  /\ forked' = (forked \/ \E r \in Sent : r.prev = chain.prev)
  /\ UNCHANGED <<ctxDone, pending, sampled, total, denies, errors, pusher, chain, remote, clock, refused>>

\* SIGINT or SIGTERM, or a supervisor that gave up: the context ends.
Cancel ==
  /\ alive /\ ~ctxDone
  /\ ctxDone' = TRUE
  /\ UNCHANGED <<alive, starts, memory, errors, pusher, chain, remote, history>>

\* The process ends, by a crash or because main returns.  os.WriteFile truncates
\* before it writes, so a save cut short leaves a file that does not parse; a
\* push cut short may be under way.
Die ==
  /\ alive
  /\ alive' = FALSE /\ ctxDone' = FALSE
  /\ seq' = 0 /\ prev' = Genesis /\ pending' = <<>> /\ sampled' = {}
  /\ total' = 0 /\ denies' = 0 /\ errors' = 0
  /\ push' = "wait" /\ final' = FALSE /\ batch' = <<>>
  /\ chain' \in {chain} \cup IF push = "answered" THEN {NoCursor} ELSE {}
  /\ late' \in {late} \cup IF push = "posting" THEN {late \cup {Range(batch)}} ELSE {}
  /\ UNCHANGED <<starts, cp, history>>

-----------------------------------------------------------------------------
(* Add, under the mutex.                                                   *)

Collapses(o) == o.decision = "allow" /\ o.sig \in sampled

NewRow(o) == [seq |-> seq + 1, hash |-> clock + 1, prev |-> prev, what |-> o]

Sampled(o) == IF o.decision = "allow" THEN sampled \cup {o.sig} ELSE sampled

Enqueue(o) ==
  /\ ~Collapses(o)
  /\ sampled' = Sampled(o)
  /\ pending' = Append(pending, NewRow(o))
  /\ seq' = seq + 1
  /\ prev' = NewRow(o).hash

Collapse(o) ==
  /\ Collapses(o)
  /\ UNCHANGED <<sampled, pending, seq, prev>>

Add(o) ==
  /\ alive /\ clock < MaxDecisions
  /\ clock' = clock + 1
  /\ total' = total + 1
  /\ denies' = IF o.decision = "deny" THEN denies + 1 ELSE denies
  /\ Enqueue(o) \/ Collapse(o)
  /\ UNCHANGED <<process, errors, pusher, chain, remote, refused, forked>>

-----------------------------------------------------------------------------
(* RunPush and flush.                                                      *)

KeepSampled == IF pending = <<>> THEN {} ELSE sampled

\* Both ways through the head of flush start a new sampling window.
NewWindow == {}

\* flush takes the whole queue, or returns if it is empty.
Flush(isFinal) ==
  /\ alive /\ push = "wait"
  /\ sampled' = NewWindow
  /\ final' = isFinal
  /\ IF pending = <<>>
     THEN push' = (IF isFinal THEN "done" ELSE "wait") /\ UNCHANGED <<batch, pending>>
     ELSE push' = "posting" /\ batch' = pending /\ pending' = <<>>
  /\ UNCHANGED <<process, seq, prev, total, denies, errors, chain, remote, history>>

\* The ticker may win the select after the context has ended, too.
Tick == Flush(FALSE)

LastFlush == ctxDone /\ Flush(TRUE)

\* flush returns: RunPush waits for the next tick, or is over.
Returned == IF final THEN "done" ELSE "wait"

\* A request made with the ended context gets no answer.
Answerable == alive /\ push = "posting" /\ (ctxDone => final)

\* The control plane stores the rows and answers.
Stored ==
  /\ Answerable
  /\ cp' = cp \cup Range(batch)
  /\ push' = "answered"
  /\ UNCHANGED <<process, memory, errors, final, batch, chain, late, history>>

\* The control plane answers with an error status and stores nothing.  The
\* status is not looked at: the flush goes on as after a success.
Refused ==
  /\ Answerable
  /\ refused' = refused \cup Range(batch)
  /\ push' = "answered"
  /\ UNCHANGED <<process, memory, errors, final, batch, chain, remote, clock, forked>>

RequeueLast(rows) == pending \o rows
RequeueNone(rows) == pending

Requeue(rows) == rows \o pending

\* The client times out, loses the connection or has its context ended.  The
\* push may still reach the control plane.
Failed ==
  /\ alive /\ push = "posting"
  /\ errors' = IF errors < MaxErrors THEN errors + 1 ELSE errors
  /\ pending' = Requeue(batch)
  /\ batch' = <<>>
  /\ push' = Returned
  /\ late' \in {late, late \cup {Range(batch)}}
  /\ UNCHANGED <<process, seq, prev, sampled, total, denies, final, chain, cp, history>>

SavedFirst == CursorOf(batch[1])
SavedEnd == [seq |-> seq, prev |-> prev]

\* The cursor saved after a push: its last row.
SavedCursor == CursorOf(batch[Len(batch)])

\* saveState ignores errors: the file is written, untouched, or truncated.
Save ==
  /\ alive /\ push = "answered"
  /\ chain' \in {SavedCursor, chain, NoCursor}
  /\ batch' = <<>>
  /\ push' = Returned
  /\ UNCHANGED <<process, memory, errors, final, remote, history>>

\* A push the client has given up on is received after all.
Arrive(rows) ==
  /\ cp' = cp \cup rows
  /\ late' = late \ {rows}
  /\ UNCHANGED <<process, memory, errors, pusher, chain, history>>

Next ==
  \/ Start \/ Cancel \/ Die
  \/ \E o \in Outcomes : Add(o)
  \/ Tick \/ LastFlush
  \/ Stored \/ Refused \/ Failed
  \/ Save
  \/ \E rows \in late : Arrive(rows)

Spec == Init /\ [][Next]_vars

\* The ticker and the scheduler run the pusher; every request ends within its
\* timeout; select picks at random among ready cases; and the control plane is
\* not out of reach for ever.
Fairness ==
  /\ WF_vars(Tick) /\ SF_vars(LastFlush)
  /\ WF_vars(Stored \/ Refused \/ Failed) /\ SF_vars(Stored)
  /\ WF_vars(Save)

FairSpec == Spec /\ Fairness

-----------------------------------------------------------------------------
(* Properties.                                                             *)

TypeOK ==
  /\ alive \in BOOLEAN /\ starts \in 0 .. MaxStarts /\ ctxDone \in BOOLEAN
  /\ seq \in Nat /\ prev \in Nat
  /\ pending \in Seq(Row) /\ sampled \subseteq Sigs
  /\ total \in Nat /\ denies \in Nat /\ errors \in 0 .. MaxErrors
  /\ push \in {"wait", "posting", "answered", "done"} /\ final \in BOOLEAN
  /\ batch \in Seq(Row)
  /\ chain \in Cursor
  /\ cp \subseteq Row /\ late \subseteq SUBSET Row
  /\ clock \in 0 .. MaxDecisions
  /\ refused \subseteq Row /\ forked \in BOOLEAN

\* The rows in flight and in the queue are one unbroken stretch of the chain
\* that ends where the next row will be added: a failed push that is queued
\* again and rows added meanwhile keep their order (decisions.go:239-245), so
\* no decision of this life is skipped, doubled or overtaken.
QueueLinked ==
  /\ Contiguous(Unsaved)
  /\ alive /\ Unsaved # <<>> => CursorOf(Unsaved[Len(Unsaved)]) = [seq |-> seq, prev |-> prev]

\* An allow is collapsed only while a row with an allow of the same method, host
\* and path is queued (decisions.go:138-139), whatever flushes, failures and
\* retries come between.  What was redacted is not compared: see RedactsQueued.
CollapsedIsQueued ==
  \A s \in sampled :
    \E i \in DOMAIN pending : pending[i].what.sig = s /\ pending[i].what.decision = "allow"

\* The rows the control plane holds verify as a chain (decisions.go:40-44),
\* unless a push it refused was taken for received, or the process restarted
\* from a cursor behind a row it had sent.  Lost, repeated and late pushes,
\* crashes and failed saves alone never break it.
ChainVerifies == refused = {} /\ ~forked => Verifies(cp)

\* decisions.go:125-126: the saved cursor is "the last row the CP actually
\* received".
CursorReceived == chain.prev \in Hashes(cp) \cup {Genesis}

\* decisions.go:138: "Denies/redacts are always queued".  Handlers pass a
\* redacted request as an allow with its redactions (mitm.go:104).
RedactsQueued ==
  [][\A o \in Outcomes :
       Add(o) /\ (o.decision = "deny" \/ o.redacted) => Len(pending') = Len(pending) + 1]_vars

\* A row leaves the memory of a living process only when the control plane has
\* received it or refused it: whatever Add, a flush and a failed push do to the
\* two queues, and in whatever order, no decision is dropped between them
\* (decisions.go:223-224, 239-245).
NothingDropped == [][alive' => Range(Unsaved) \subseteq Range(Unsaved') \cup cp' \cup refused']_vars

\* The cursor in chain.json only moves forward, unless a save is cut short and
\* leaves none: a restart never continues from an older row than one saved
\* before (decisions.go:248-249).
CursorAdvances == [][chain' \in {chain, NoCursor} \/ chain'.seq > chain.seq]_vars

Audit == INSTANCE AuditChain WITH log <- cp, broken <- (refused # {} \/ forked)

\* The recorder keeps the promise of AuditChain.
ImplementsAuditChain == Audit!Spec

\* Every row that enters the queue reaches the control plane, is refused by it,
\* or goes down with the process: failing pushes alone lose nothing
\* (decisions.go:239-245).
Queued(h) == h \in Hashes(Range(pending))

Settled(h) == h \in Hashes(cp \cup refused) \/ ~alive \/ push = "done"

QueuedRowSettles == \A h \in 1 .. MaxDecisions : Queued(h) ~> Settled(h)
=============================================================================
