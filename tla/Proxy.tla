------------------------------- MODULE Proxy -------------------------------
(***************************************************************************)
(* The data path of the guard: internal/proxy (forward mode), tproxy       *)
(* (transparent mode), mitm, policy.Eval and the leaf cache of ca.  Every  *)
(* connection is a goroutine of its own; they share the sets of learned    *)
(* and blocked hosts, the leaf cache and the policy engine, which may go    *)
(* down, come back or change its bundle between any two steps.             *)
(*                                                                         *)
(* A host name is a spelling: the proxy compares names as the client wrote *)
(* them, the policy fallback lowercases them first.  A connection that the *)
(* guard terminates leads to the host it was opened to, whatever name the  *)
(* TLS handshake and the requests on it give.                              *)
(***************************************************************************)
CONSTANTS
  Conns,        \* connections, reused
  Names,        \* host names, as spelled by clients
  Lower,        \* strings.ToLower
  Essential,    \* essentialHosts
  Passthrough,  \* passthrough_hosts
  Pinned,       \* names whose clients accept no certificate but the host's own
  Methods,      \* methods of the requests
  OpaStates     \* what the policy engine may be like

AllMethods == Methods \cup {"CONNECT"}

\* up: requests reach the engine and are answered in time, with a status of 200.
\* The bundle is the set of requests it allows.
OpaState == [up : BOOLEAN, loaded : BOOLEAN, allows : SUBSET (Names \X AllMethods)]

ASSUME NamesAssumption ==
  /\ Names # {}
  /\ Lower \in [Names -> Names] /\ \A n \in Names : Lower[Lower[n]] = Lower[n]
  /\ Essential \subseteq Names /\ Passthrough \subseteq Names /\ Pinned \subseteq Names
ASSUME ListsAreLowercase == \A n \in Essential \cup Passthrough : Lower[n] = n
ASSUME OpaAssumption == OpaStates \subseteq OpaState

VARIABLES
  mode, inspect,      \* guard.json
  conn,               \* the goroutine of each connection
  learned, blocked,   \* hosts that rejected inspection
  leaf,               \* the leaf cache: each name's certificate
  opa                 \* the policy engine

config == <<mode, inspect>>
hosts == <<learned, blocked>>
vars == <<config, conn, hosts, leaf, opa>>

Stages == {"idle", "connect", "route", "handshake", "rejected", "serving",
           "deciding", "answering", "decided", "allowed", "refused", "tunnel"}

\* How requests come: inside a tunnel it terminated, on a raw connection, as a
\* CONNECT for a raw tunnel, or with an absolute URL.
Ways == {"tls", "plain", "splice", "http"}

\* to is the host that is dialled; name and method are those of the request at hand, said is the
\* answer of the engine, dec the decision, row what was recorded of it.  right is history: whether
\* the policy permitted the request at any time between its arrival and its decision.
Conn == [stage : Stages, via : Ways, to : Names, name : Names, method : AllMethods,
         said : {"none", "allow", "deny"}, dec : {"none", "allow", "deny"}, row : {"none", "allow", "deny"}, right : BOOLEAN]

At(c, s) == conn[c].stage = s

\* The connection with its request done, in another stage.
Fresh(stage, via, to) ==
  [stage |-> stage, via |-> via, to |-> to, name |-> to, method |-> "CONNECT",
   said |-> "none", dec |-> "none", row |-> "none", right |-> FALSE]

\* What the policy permits: what the bundle allows, and essential hosts while
\* the engine is down.
Permitted(o) ==
  IF o.up THEN (IF o.loaded THEN o.allows ELSE {})
  ELSE {n \in Names : Lower[n] \in Essential} \X AllMethods

\* A request arrives.
Asks(via, to, name, method) ==
  [stage |-> "deciding", via |-> via, to |-> to, name |-> name, method |-> method,
   said |-> "none", dec |-> "none", row |-> "none", right |-> <<name, method>> \in Permitted(opa)]

\* Eval has not returned.
Waits(r) == r.stage \in {"deciding", "answering"}

Becomes(c, r) == conn' = [conn EXCEPT ![c] = r]
Moves(c, s) == conn' = [conn EXCEPT ![c].stage = s]

\* No connection.
Idle == Fresh("idle", "tls", CHOOSE n \in Names : TRUE)

\* The goroutine waits for the next request, or has nothing more to do.
Answered(c) ==
  IF conn[c].via \in {"tls", "plain"} THEN Fresh("serving", conn[c].via, conn[c].to) ELSE Idle

\* inspect is looked at in forward mode only.
Init ==
  /\ mode \in {"forward", "transparent"} /\ inspect \in BOOLEAN
  /\ mode = "transparent" => inspect
  /\ conn = [c \in Conns |-> Idle]
  /\ learned = {} /\ blocked = {}
  /\ leaf = [n \in Names |-> "none"]
  /\ opa \in OpaStates

-----------------------------------------------------------------------------
(* Connections arrive.                                                     *)

\* handle, handleConnect: a CONNECT in forward mode.
Connect(c, n) ==
  /\ mode = "forward" /\ At(c, "idle")
  /\ Becomes(c, Fresh("connect", "tls", n))
  /\ UNCHANGED <<config, hosts, leaf, opa>>

\* handle, handleHTTP: a request with an absolute URL, whose host is the one named.
AbsoluteURL(c, n, m) ==
  /\ mode = "forward" /\ At(c, "idle")
  /\ Becomes(c, Asks("http", n, n, m))
  /\ UNCHANGED <<config, hosts, leaf, opa>>

\* tproxy handle: a redirected connection, to port 443 or to port 80.
Redirected(c, n) ==
  /\ mode = "transparent" /\ At(c, "idle")
  /\ \/ Becomes(c, Fresh("handshake", "tls", n))
     \/ Becomes(c, Fresh("serving", "plain", n))
  /\ UNCHANGED <<config, hosts, leaf, opa>>

\* isBlocked, under the mutex.
CheckBlocked(c) ==
  /\ At(c, "connect")
  /\ IF conn[c].to \in blocked THEN Becomes(c, Idle) ELSE Moves(c, "route")
  /\ UNCHANGED <<config, hosts, leaf, opa>>

SplicesListed(n) == ~inspect \/ n \in Passthrough

ShouldSplice(n) == ~inspect \/ n \in Passthrough \cup learned

\* shouldSplice, under the mutex again: a raw tunnel, or one the guard ends.
Route(c) ==
  /\ At(c, "route")
  /\ IF ShouldSplice(conn[c].to)
     THEN Becomes(c, Asks("splice", conn[c].to, conn[c].to, "CONNECT"))
     ELSE Moves(c, "handshake")
  /\ UNCHANGED <<config, hosts, leaf, opa>>

-----------------------------------------------------------------------------
(* Inspection.                                                             *)

\* GetCertificate mints a leaf for 90 days, once.
Minted(n) == [leaf EXCEPT ![n] = IF leaf[n] = "none" THEN "valid" ELSE leaf[n]]

Accepts(n) == n \notin Pinned /\ Minted(n)[n] = "valid"

\* ServeTLS: the handshake.  Without a server name there is no leaf; with one,
\* n, the client may refuse it, or break off.
Handshake(c, n) ==
  /\ At(c, "handshake")
  /\ \/ leaf' = leaf /\ Moves(c, "rejected")
     \/ leaf' = Minted(n) /\ Moves(c, "rejected")
     \/ leaf' = Minted(n) /\ Accepts(n) /\ Moves(c, "serving")
  /\ UNCHANGED <<config, hosts, opa>>

Learns(n) == learned' = learned \cup {n} /\ UNCHANGED blocked
Blocks(n) == blocked' = blocked \cup {n} /\ UNCHANGED learned

FallbackLearn(n) == Learns(n)

\* learn or block, once inspection has failed.
Fallback(n) == IF n \in Essential \cup Passthrough THEN Learns(n) ELSE Blocks(n)

RejectedFallsBack(c) ==
  /\ At(c, "rejected")
  /\ Fallback(conn[c].to)
  /\ Becomes(c, Idle)
  /\ UNCHANGED <<config, leaf, opa>>

\* handleConnect falls back; the transparent server only drops the connection.
Rejected(c) ==
  /\ At(c, "rejected")
  /\ IF mode = "forward" THEN Fallback(conn[c].to) ELSE UNCHANGED hosts
  /\ Becomes(c, Idle)
  /\ UNCHANGED <<config, leaf, opa>>

-----------------------------------------------------------------------------
(* Requests.                                                               *)

\* serve: the next request on a connection the guard terminates.  It is decided
\* by the host it names, and forwarded to the one the connection leads to.
Request(c, n, m) ==
  /\ At(c, "serving")
  /\ Becomes(c, Asks(conn[c].via, conn[c].to, n, m))
  /\ UNCHANGED <<config, hosts, leaf, opa>>

\* The engine evaluates the request with the bundle it has.  Without one it
\* answers, too, with no result, which reads as a denial.
Evaluate(c) ==
  LET r == conn[c]
  IN  /\ At(c, "deciding") /\ opa.up
      /\ Becomes(c, [r EXCEPT !.stage = "answering", !.said =
                       IF opa.loaded /\ <<r.name, r.method>> \in opa.allows THEN "allow" ELSE "deny"])
      /\ UNCHANGED <<config, hosts, leaf, opa>>

\* Decide: the answer of the engine, whatever has become of it since.
Decide(c) ==
  /\ At(c, "answering")
  /\ Becomes(c, [conn[c] EXCEPT !.stage = "decided", !.dec = conn[c].said])
  /\ UNCHANGED <<config, hosts, leaf, opa>>

OutageOpen(n) == "allow"

\* Decide without an answer: closed, but for essential hosts.
Outage(n) == IF Lower[n] \in Essential THEN "allow" ELSE "deny"

UnansweredAgain(c) ==
  /\ conn[c].stage \in {"deciding", "answering", "refused"} /\ ~opa.up
  /\ Becomes(c, [conn[c] EXCEPT !.stage = "decided", !.dec = Outage(conn[c].name)])
  /\ UNCHANGED <<config, hosts, leaf, opa>>

\* The engine is down, or goes down with the answer.
Unanswered(c) ==
  /\ Waits(conn[c]) /\ ~opa.up
  /\ Becomes(c, [conn[c] EXCEPT !.stage = "decided", !.dec = Outage(conn[c].name)])
  /\ UNCHANGED <<config, hosts, leaf, opa>>

\* An allowed request goes on, a denied one is answered.
After(d) == IF d = "allow" THEN "allowed" ELSE "refused"

RecordDenies(c) ==
  /\ At(c, "decided")
  /\ LET d == conn[c].dec
     IN  Becomes(c, [conn[c] EXCEPT !.stage = After(d), !.row = IF d = "deny" THEN d ELSE "none"])
  /\ UNCHANGED <<config, hosts, leaf, opa>>

\* Rec.Add, with the decision.
Record(c) ==
  /\ At(c, "decided")
  /\ LET d == conn[c].dec IN Becomes(c, [conn[c] EXCEPT !.stage = After(d), !.row = d])
  /\ UNCHANGED <<config, hosts, leaf, opa>>

\* A denied request is answered with its status and reason.
Refuse(c) ==
  /\ At(c, "refused")
  /\ Becomes(c, Answered(c))
  /\ UNCHANGED <<config, hosts, leaf, opa>>

\* RoundTrip or ReverseProxy: upstream's answer, or a 502.
Forward(c) ==
  /\ At(c, "allowed") /\ conn[c].via # "splice"
  /\ Becomes(c, Answered(c))
  /\ UNCHANGED <<config, hosts, leaf, opa>>

\* splice dials, and pipes bytes unless that or the hijack fails.
Dial(c) ==
  /\ At(c, "allowed") /\ conn[c].via = "splice"
  /\ Moves(c, "tunnel") \/ Becomes(c, Idle)
  /\ UNCHANGED <<config, hosts, leaf, opa>>

-----------------------------------------------------------------------------
(* What happens around.                                                    *)

Hangup(c) ==
  /\ conn[c].stage \in {"serving", "tunnel"}
  /\ Becomes(c, Idle)
  /\ UNCHANGED <<config, hosts, leaf, opa>>

\* The engine stops, is restarted, or activates a bundle.
OpaChange ==
  /\ opa' \in OpaStates \ {opa}
  /\ conn' = [c \in Conns |->
       LET r == conn[c]
       IN  IF Waits(r) /\ <<r.name, r.method>> \in Permitted(opa')
           THEN [r EXCEPT !.right = TRUE] ELSE r]
  /\ UNCHANGED <<config, hosts, leaf>>

\* Ninety days go by.
Expire ==
  /\ \E n \in Names : leaf[n] = "valid"
  /\ leaf' = [n \in Names |-> IF leaf[n] = "valid" THEN "expired" ELSE leaf[n]]
  /\ UNCHANGED <<config, conn, hosts, opa>>

\* The guard is restarted: what it learned, blocked and minted is gone.
Restart ==
  /\ conn' = [c \in Conns |-> Idle]
  /\ learned' = {} /\ blocked' = {}
  /\ leaf' = [n \in Names |-> "none"]
  /\ UNCHANGED <<config, opa>>

Step(c) ==
  \/ CheckBlocked(c) \/ Route(c)
  \/ Rejected(c)
  \/ Evaluate(c) \/ Decide(c) \/ Unanswered(c)
  \/ Record(c)
  \/ Refuse(c) \/ Forward(c) \/ Dial(c)

Next ==
  \/ \E c \in Conns :
       \/ \E n \in Names : Connect(c, n) \/ Redirected(c, n)
       \/ \E n \in Names, m \in Methods : AbsoluteURL(c, n, m) \/ Request(c, n, m)
       \/ \E n \in Names : Handshake(c, n)
       \/ Step(c)
       \/ Hangup(c)
  \/ OpaChange \/ Expire \/ Restart

Spec == Init /\ [][Next]_vars

TunnelTo(n) == \E c \in Conns : At(c, "tunnel") /\ conn[c].to = n

\* The scheduler runs every goroutine, and the waits of a handler are bounded
\* (policy.go:32, mitm.go:73, proxy.go:153).  The rest is asked of the world:
\* clients finish their handshakes, keep trying to reach essential hosts and
\* hang up at last, and these hosts can be dialled.
Fairness ==
  /\ \A c \in Conns : WF_vars(Step(c)) /\ WF_vars(\E n \in Names : Handshake(c, n)) /\ SF_vars(Hangup(c))
  /\ \A n \in Essential :
       /\ SF_vars(\E c \in Conns : Connect(c, n))
       /\ \A c \in Conns : SF_vars(Dial(c) /\ TunnelTo(n)')

FairSpec == Spec /\ Fairness

-----------------------------------------------------------------------------
(* Properties.                                                             *)

TypeOK ==
  /\ mode \in {"forward", "transparent"} /\ inspect \in BOOLEAN
  /\ conn \in [Conns -> Conn]
  /\ learned \subseteq Names /\ blocked \subseteq Names
  /\ mode = "transparent" => learned = {} /\ blocked = {}
  /\ leaf \in [Names -> {"none", "valid", "expired"}]
  /\ opa \in OpaStates

\* With inspection on, bytes flow uninspected only to hosts the user or the
\* guard lists: whatever handshakes fail in which order, a governed host is
\* never downgraded, and a blocked one is never tunnelled (proxy.go:127-137).
UninspectedByRule ==
  \A c \in Conns :
    At(c, "tunnel") /\ inspect =>
      conn[c].to \in (Essential \cup Passthrough) \ blocked

\* A request goes upstream only if the engine, as it was at some time between
\* its arrival and its decision, permits it, or was down and the host it names is
\* essential: neither an answer that arrives after the engine has changed, nor
\* an earlier request on the same connection, nor what was learned of the host
\* stands in for a permission (mitm.go:70-83).  The host it names is the one it
\* is sent to, except on a connection that the guard terminates (mitm.go:96, 143-148).
VerdictInForce ==
  \A c \in Conns :
    conn[c].stage \in {"allowed", "tunnel"} =>
      conn[c].right /\ (conn[c].to = conn[c].name \/ conn[c].via \in {"tls", "plain"})

\* Nothing is answered or sent upstream before its decision is with the
\* recorder (proxy.go:147-152, 177-182; mitm.go:99-104).
RecordedFirst ==
  \A c \in Conns :
    conn[c].stage \in {"allowed", "refused", "tunnel"} => conn[c].row = conn[c].dec /\ conn[c].row # "none"

\* A rejected leaf on an essential host "falls back to a host-level tunnel so the
\* agent keeps working" (proxy.go:127-128): from when it is learned, tunnels to it
\* are made again and again, provided that the guard is not restarted for ever and
\* that the policy does not go on denying them.
LearnedIsServed ==
  \A n \in Essential :
    <>[](n \in learned /\ <<n, "CONNECT">> \in Permitted(opa)) => []<>TunnelTo(n)

\* What of a connection concerns Gate: the request at hand.
GateOf(r) ==
  LET q == <<r.name, r.method>>
      Is(stage, v) == [at |-> stage, what |-> q, verdict |-> v]
  IN  CASE Waits(r)            -> [at |-> "asked", what |-> q, ok |-> r.right]
        [] r.stage = "decided" -> Is("decided", r.dec)
        [] r.stage = "allowed" -> Is("passing", r.row)
        [] r.stage = "refused" -> Is("refusing", r.row)
        [] r.stage = "tunnel"  -> Is("open", r.row)
        [] OTHER               -> [at |-> "free"]

Promise == INSTANCE Gate WITH
  Requests <- Names \X AllMethods,
  Tunnels <- Names \X {"CONNECT"},
  permitted <- Permitted(opa),
  gate <- [c \in Conns |-> GateOf(conn[c])]

\* All of the data path, inspection and its fallbacks included, lets through
\* what a Gate would: each request by a verdict of its own on the host and method
\* it names, given while the policy allowed them, recorded before and spent by it,
\* and raw bytes only for a CONNECT (proxy.go:106-198, mitm.go:44-107).  A Gate
\* knows nothing of the host that is dialled.
ImplementsGate == Promise!Spec

\* proxy.go:69-71: block marks a host "that rejected inspection".
OnlyRejectingBlocked == blocked \subseteq Pinned
=============================================================================
