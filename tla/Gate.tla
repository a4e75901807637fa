-------------------------------- MODULE Gate --------------------------------
(***************************************************************************)
(* What the data path of the guard promises, whatever way a request takes, *)
(* whatever handshakes fail and whatever hosts are learned or blocked:     *)
(* a request is asked about, decided once, recorded with that decision and *)
(* only then let through or refused, and a connection that carries bytes   *)
(* freely was let through for a request of that kind.  A request is the    *)
(* host and the method it names; where it is sent is not said here.        *)
(***************************************************************************)
CONSTANTS
  Conns,      \* connections
  Requests,   \* the requests there are
  Tunnels     \* those that ask for a tunnel

VARIABLES
  permitted,  \* the requests the policy now permits
  gate        \* each connection: the request at hand, and how far it is

gvars == <<permitted, gate>>

Free == [at |-> "free"]

\* ok: the policy permitted the request at some time since it was asked.
Asked(q, ok) == [at |-> "asked", what |-> q, ok |-> ok]

Verdict(stage, q, v) == [at |-> stage, what |-> q, verdict |-> v]

Init == permitted \subseteq Requests /\ gate = [c \in Conns |-> Free]

-----------------------------------------------------------------------------
(* What may become of one connection: h follows g.                         *)

Ask(g, h) ==
  g = Free /\ h.at = "asked" /\ h.what \in Requests /\ h = Asked(h.what, h.what \in permitted)

\* A denial needs no reason: the engine may be down, or up without a bundle.
Decide(g, h) ==
  /\ g.at = "asked"
  /\ \E v \in {"allow", "deny"} : h = Verdict("decided", g.what, v) /\ (v = "allow" => g.ok)

\* The recorder has the decision.
Log(g, h) ==
  /\ g.at = "decided"
  /\ h = Verdict(IF g.verdict = "allow" THEN "passing" ELSE "refusing", g.what, g.verdict)

\* The request has been sent and answered, or refused; or the tunnel is closed.
Finish(g, h) == g.at \in {"passing", "refusing", "open"} /\ h = Free

Tunnel(g, h) == g.at = "passing" /\ g.what \in Tunnels /\ h = Verdict("open", g.what, "allow")

-----------------------------------------------------------------------------
Step(c) ==
  /\ LET g == gate[c]
         h == gate'[c]
     IN  Ask(g, h) \/ Decide(g, h) \/ Log(g, h) \/ Finish(g, h) \/ Tunnel(g, h)
  /\ \A d \in Conns \ {c} : gate'[d] = gate[d]
  /\ UNCHANGED permitted

\* The policy, or its engine's health, changes.
Change ==
  /\ permitted' \subseteq Requests
  /\ gate' = [c \in Conns |->
       IF gate[c].at = "asked" /\ gate[c].what \in permitted'
       THEN Asked(gate[c].what, TRUE) ELSE gate[c]]

\* The guard is restarted, and its connections are gone.
Restart == gate' = [c \in Conns |-> Free] /\ UNCHANGED permitted

Next == Change \/ (\E c \in Conns : Step(c)) \/ Restart

Spec == Init /\ [][Next]_gvars
=============================================================================
