---------------------------- MODULE ProxyProofs ----------------------------
(***************************************************************************)
(* Proofs about Proxy, for every number of connections, every set of names *)
(* and every behaviour of the policy engine.                               *)
(***************************************************************************)
EXTENDS Proxy, TLAPS

Listed == Essential \cup Passthrough

\* Only listed hosts are learned, and none of them is ever blocked.
HostsInv == learned \subseteq Listed /\ blocked \cap Listed = {}

\* The stages without a request at hand.
Simple == {"idle", "connect", "route", "handshake", "rejected", "serving"}

\* Raw tunnels come of a CONNECT and are for listed hosts, unless inspection is
\* off.  They, and requests with an absolute URL, go to the host they name.
SplicedInv(r) ==
  /\ r.stage = "tunnel" => r.via = "splice"
  /\ r.via = "splice" => r.method = "CONNECT"
  /\ r.stage \in Simple => r.via \in {"tls", "plain"}
  /\ r.via = "splice" /\ inspect => r.to \in Listed
  /\ r.to = r.name \/ r.via \in {"tls", "plain"}

\* While a request waits, right knows of the engine's present state; the answer
\* and the decision are ones the policy permitted.
RightInv(o, r) ==
  /\ Waits(r) /\ <<r.name, r.method>> \in Permitted(o) => r.right
  /\ r.said = "allow" \/ r.dec = "allow" => r.right

\* A request is decided, then recorded, then answered or sent.
RecordInv(r) ==
  /\ r.stage = "answering" => r.said # "none"
  /\ r.stage \in {"decided", "allowed", "refused", "tunnel"} => r.dec # "none"
  /\ r.stage \in {"allowed", "refused", "tunnel"} => r.row = r.dec
  /\ r.stage \in {"allowed", "tunnel"} => r.dec = "allow"

ConnInv(r) == r \in Conn /\ SplicedInv(r) /\ RightInv(opa, r) /\ RecordInv(r)

SharedOK ==
  /\ mode \in {"forward", "transparent"} /\ inspect \in BOOLEAN
  /\ learned \subseteq Names /\ blocked \subseteq Names
  /\ mode = "transparent" => learned = {} /\ blocked = {}
  /\ leaf \in [Names -> {"none", "valid", "expired"}]
  /\ opa \in OpaStates

IInv ==
  /\ SharedOK /\ HostsInv
  /\ DOMAIN conn = Conns /\ conn = [c \in Conns |-> conn[c]]
  /\ \A c \in Conns : ConnInv(conn[c])

USE DEF AllMethods

\* The state of a connection between requests.
LEMMA FreshInv ==
  ASSUME NEW s \in Simple, NEW v \in {"tls", "plain"}, NEW n \in Names
  PROVE  ConnInv(Fresh(s, v, n)) /\ Fresh(s, v, n).stage = s
BY DEF ConnInv, Conn, Stages, Ways, Fresh, SplicedInv, RightInv, RecordInv, Waits, Simple

LEMMA IdleInv == ConnInv(Idle)
<1>1. (CHOOSE n \in Names : TRUE) \in Names
  BY NamesAssumption
<1>2. "idle" \in Simple
  BY DEF Simple
<1> QED BY <1>1, <1>2, FreshInv DEF Idle

\* A request that has just arrived.
LEMMA AsksInv ==
  ASSUME NEW v \in Ways, NEW t \in Names, NEW n \in Names, NEW m \in AllMethods,
         v = "splice" => m = "CONNECT" /\ (inspect => t \in Listed),
         t = n \/ v \in {"tls", "plain"}
  PROVE  ConnInv(Asks(v, t, n, m))
<1> DEFINE p == (<<n, m>> \in Permitted(opa))
<1>1. p \in BOOLEAN
  OBVIOUS
<1>2. Asks(v, t, n, m) = [stage |-> "deciding", via |-> v, to |-> t, name |-> n, method |-> m,
                       said |-> "none", dec |-> "none", row |-> "none", right |-> p]
  BY DEF Asks
<1>3. Asks(v, t, n, m) \in Conn
  BY <1>1, <1>2 DEF Conn, Stages, Ways
<1>4. SplicedInv(Asks(v, t, n, m)) /\ RecordInv(Asks(v, t, n, m))
  BY <1>2 DEF SplicedInv, RecordInv, Simple
<1>5. RightInv(opa, Asks(v, t, n, m))
  <2> DEFINE r == Asks(v, t, n, m)
  <2>1. r.right = p /\ r.name = n /\ r.method = m /\ r.dec = "none"
    BY <1>2
  <2>2. <<r.name, r.method>> \in Permitted(opa) => r.right
    BY <2>1, Zenon
  <2>3. r.said # "allow" /\ r.dec # "allow"
    BY <1>2
  <2> QED BY <2>2, <2>3, Zenon DEF RightInv
<1> QED BY <1>3, <1>4, <1>5 DEF ConnInv

\* A step that changes one connection, and neither the engine nor inspect,
\* keeps the invariant of the others.
LEMMA OneConn ==
  ASSUME IInv, NEW c \in Conns, NEW r, ConnInv(r), Becomes(c, r), UNCHANGED <<inspect, opa>>
  PROVE  /\ DOMAIN conn' = Conns /\ conn' = [d \in Conns |-> conn'[d]]
         /\ \A d \in Conns : ConnInv(conn[d])'
<1>1. \A d \in Conns : conn'[d] = IF d = c THEN r ELSE conn[d]
  BY DEF IInv, Becomes
<1>2. \A d \in Conns : ConnInv(conn'[d])
  BY <1>1 DEF IInv
<1>3. \A d \in Conns : ConnInv(conn[d])'
  BY <1>2 DEF ConnInv, SplicedInv, RightInv, RecordInv
<1> QED BY <1>3 DEF IInv, Becomes

-----------------------------------------------------------------------------
(* Init, and one step per action.                                          *)

\* A stage without a request at hand asks nothing of the connection.
LEMMA MovesInv ==
  ASSUME NEW r \in Conn, ConnInv(r), r.stage \in Simple, NEW s \in Simple
  PROVE  ConnInv([r EXCEPT !.stage = s])
<1> DEFINE q == [r EXCEPT !.stage = s]
<1>1. q \in Conn /\ q.stage = s /\ q.via = r.via /\ q.to = r.to /\ q.name = r.name /\ q.method = r.method
      /\ q.said = r.said /\ q.dec = r.dec /\ q.right = r.right
  BY DEF Conn, Stages, Simple
<1> HIDE DEF q
<1>2. ConnInv(q)
  BY <1>1 DEF ConnInv, SplicedInv, RightInv, RecordInv, Simple, Waits
<1> QED BY <1>2 DEF q

\* A connection that has had its answer.
LEMMA AnsweredInv ==
  ASSUME IInv, NEW c \in Conns
  PROVE  ConnInv(Answered(c))
<1>1. conn[c].via \in Ways /\ conn[c].to \in Names
  BY DEF IInv, ConnInv, Conn
<1>2. CASE conn[c].via \in {"tls", "plain"}
  BY <1>1, <1>2, FreshInv DEF Answered, Simple
<1>3. CASE conn[c].via \notin {"tls", "plain"}
  BY <1>3, IdleInv DEF Answered
<1> QED BY <1>2, <1>3

LEMMA Initial == Init => IInv
BY IdleInv DEF Init, IInv, SharedOK, HostsInv

\* What a handler does to its own connection keeps the invariant, whatever it
\* does to the leaf cache, and if it learns or blocks as Fallback does.
LEMMA Local ==
  ASSUME IInv, NEW c \in Conns, NEW r, ConnInv(r), Becomes(c, r),
         UNCHANGED <<mode, inspect, opa>>,
         leaf' \in [Names -> {"none", "valid", "expired"}],
         UNCHANGED hosts \/ (mode = "forward" /\ \E n \in Names : Fallback(n))
  PROVE  IInv'
<1>1. learned' \subseteq Names /\ blocked' \subseteq Names /\ HostsInv'
  BY DEF IInv, SharedOK, HostsInv, hosts, Fallback, Learns, Blocks, Listed
<1>2. mode = "transparent" => learned' = {} /\ blocked' = {}
  BY DEF IInv, SharedOK, hosts
<1>3. SharedOK'
  BY <1>1, <1>2 DEF IInv, SharedOK
<1> QED BY <1>1, <1>3, OneConn DEF IInv

\* The engine changes: what it now permits is noted for the waiting requests.
LEMMA OpaChangeStep == IInv /\ OpaChange => IInv'
<1> SUFFICES ASSUME IInv, OpaChange PROVE IInv'
  OBVIOUS
<1>1. SharedOK' /\ HostsInv'
  BY DEF OpaChange, IInv, SharedOK, HostsInv, config, hosts
<1>2. ASSUME NEW c \in Conns PROVE ConnInv(conn[c])'
  <2> DEFINE r == conn[c]
             noted == Waits(r) /\ <<r.name, r.method>> \in Permitted(opa')
             q == conn'[c]
  <2>1. ConnInv(r) /\ inspect' = inspect
    BY DEF IInv, OpaChange, config
  <2>2. CASE noted
    <3>1. q = [r EXCEPT !.right = TRUE]
      BY <2>2 DEF OpaChange
    <3>2. /\ q \in Conn /\ q.right = TRUE /\ q.stage = r.stage /\ q.via = r.via
          /\ q.to = r.to /\ q.name = r.name /\ q.method = r.method /\ q.said = r.said /\ q.dec = r.dec /\ q.row = r.row
      BY <2>1, <3>1 DEF ConnInv, Conn
    <3> HIDE DEF q, r
    <3>3. SplicedInv(q) /\ RecordInv(q) /\ RightInv(opa', q)
      BY <2>1, <3>2 DEF ConnInv, SplicedInv, RecordInv, RightInv
    <3> QED BY <2>1, <3>2, <3>3 DEF ConnInv, SplicedInv, RecordInv, RightInv, q
  <2>3. CASE ~noted
    <3>1. q = r
      BY <2>3 DEF OpaChange
    <3>2. Waits(r) => <<r.name, r.method>> \notin Permitted(opa')
      BY <2>3
    <3> QED BY <2>1, <3>1, <3>2 DEF ConnInv, SplicedInv, RecordInv, RightInv
  <2> QED BY <2>2, <2>3
<1>3. DOMAIN conn' = Conns /\ conn' = [c \in Conns |-> conn'[c]]
  BY DEF OpaChange
<1> QED BY <1>1, <1>2, <1>3 DEF IInv

\* The engine's answer is what it permits now.
LEMMA EvaluateStep == ASSUME IInv, NEW c \in Conns, Evaluate(c) PROVE IInv'
<1> DEFINE r == conn[c]
           v == IF opa.loaded /\ <<r.name, r.method>> \in opa.allows THEN "allow" ELSE "deny"
           q == [r EXCEPT !.stage = "answering", !.said = v]
<1>1. ConnInv(r) /\ r \in Conn /\ r.stage = "deciding" /\ r.name \in Names /\ r.method \in AllMethods
  BY DEF IInv, Evaluate, At, ConnInv, Conn
<1>2. v \in {"allow", "deny"} /\ (v = "allow" => <<r.name, r.method>> \in Permitted(opa))
  BY DEF Evaluate, Permitted
<1>3. Becomes(c, q)
  BY DEF Evaluate
<1> HIDE DEF v
<1>4. /\ q \in Conn /\ q.stage = "answering" /\ q.said = v /\ q.dec = r.dec /\ q.right = r.right
      /\ q.via = r.via /\ q.to = r.to /\ q.name = r.name /\ q.method = r.method
  BY <1>1, <1>2 DEF Conn, Stages
<1> HIDE DEF q, r
<1>5. ConnInv(q)
  BY <1>1, <1>2, <1>4 DEF ConnInv, SplicedInv, RightInv, RecordInv, Waits, Simple
<1> QED BY <1>3, <1>5, Local DEF Evaluate, config, hosts, IInv, SharedOK

\* A decision that the policy permitted.
LEMMA Decided ==
  ASSUME IInv, NEW c \in Conns, NEW d \in {"allow", "deny"}, d = "allow" => conn[c].right,
         Waits(conn[c])
  PROVE  ConnInv([conn[c] EXCEPT !.stage = "decided", !.dec = d])
<1> DEFINE r == conn[c]
           q == [r EXCEPT !.stage = "decided", !.dec = d]
<1>1. ConnInv(r) /\ r \in Conn
  BY DEF IInv, ConnInv
<1>2. /\ q \in Conn /\ q.stage = "decided" /\ q.dec = d /\ q.said = r.said /\ q.right = r.right
      /\ q.via = r.via /\ q.to = r.to /\ q.name = r.name /\ q.method = r.method
  BY <1>1 DEF Conn, Stages
<1>3. d = "allow" => r.right
  OBVIOUS
<1> HIDE DEF q, r
<1>4. ConnInv(q)
  BY <1>1, <1>2, <1>3 DEF ConnInv, SplicedInv, RightInv, RecordInv, Waits, Simple
<1> QED BY <1>4 DEF q, r

LEMMA DecideStep == ASSUME IInv, NEW c \in Conns, Decide(c) PROVE IInv'
<1>1. ConnInv(conn[c]) /\ conn[c] \in Conn /\ At(c, "answering") /\ Waits(conn[c])
  BY DEF IInv, Decide, ConnInv, At, Waits
<1>2. conn[c].said \in {"allow", "deny"} /\ (conn[c].said = "allow" => conn[c].right)
  BY <1>1 DEF ConnInv, Conn, RecordInv, RightInv, At
<1>3. ConnInv([conn[c] EXCEPT !.stage = "decided", !.dec = conn[c].said])
  BY <1>1, <1>2, Decided
<1> QED BY <1>3, Local DEF Decide, config, hosts, IInv, SharedOK

\* Without an answer, right knows of the outage.
LEMMA UnansweredStep == ASSUME IInv, NEW c \in Conns, Unanswered(c) PROVE IInv'
<1>1. ConnInv(conn[c]) /\ conn[c].name \in Names /\ conn[c].method \in AllMethods
  BY DEF IInv, ConnInv, Conn
<1>2. Waits(conn[c]) /\ ~opa.up
  BY DEF Unanswered
<1>3. Outage(conn[c].name) = "allow" => <<conn[c].name, conn[c].method>> \in Permitted(opa)
  BY <1>1, <1>2 DEF Outage, Permitted
<1>4. Outage(conn[c].name) = "allow" => conn[c].right
  BY <1>1, <1>2, <1>3 DEF ConnInv, RightInv
<1>5. ConnInv([conn[c] EXCEPT !.stage = "decided", !.dec = Outage(conn[c].name)])
  BY <1>2, <1>4, Decided DEF Outage
<1> QED BY <1>5, Local DEF Unanswered, config, hosts, IInv, SharedOK

LEMMA RecordStep == ASSUME IInv, NEW c \in Conns, Record(c) PROVE IInv'
<1> DEFINE r == conn[c]
           q == [r EXCEPT !.stage = After(r.dec), !.row = r.dec]
<1>1. ConnInv(r) /\ r.stage = "decided"
  BY DEF IInv, Record, At
<1>2. Becomes(c, q)
  BY DEF Record
<1>3. r \in Conn /\ r.dec \in {"none", "allow", "deny"}
  BY <1>1 DEF ConnInv, Conn
<1>4. /\ q \in Conn /\ q.stage = After(r.dec) /\ q.row = r.dec /\ q.dec = r.dec
      /\ q.said = r.said /\ q.right = r.right /\ q.via = r.via /\ q.to = r.to /\ q.name = r.name /\ q.method = r.method
  BY <1>3 DEF Conn, Stages, After
<1> HIDE DEF q, r
<1>5. ConnInv(q)
  BY <1>1, <1>3, <1>4 DEF ConnInv, SplicedInv, RightInv, RecordInv, After, Waits, Simple
<1> QED BY <1>2, <1>5, Local DEF Record, config, hosts, IInv, SharedOK

\* splice: the tunnel inherits the decision on its CONNECT.
LEMMA DialStep == ASSUME IInv, NEW c \in Conns, Dial(c) PROVE IInv'
<1> DEFINE r == conn[c]
           q == [r EXCEPT !.stage = "tunnel"]
<1>1. ConnInv(r) /\ r.stage = "allowed" /\ r.via = "splice" /\ r \in Conn
  BY DEF IInv, Dial, At, ConnInv
<1>2. /\ q \in Conn /\ q.stage = "tunnel" /\ q.row = r.row /\ q.dec = r.dec
      /\ q.said = r.said /\ q.right = r.right /\ q.via = r.via /\ q.to = r.to /\ q.name = r.name /\ q.method = r.method
  BY <1>1 DEF Conn, Stages
<1>3. Becomes(c, q) \/ Becomes(c, Idle)
  BY DEF Dial, Moves, Becomes
<1> HIDE DEF q, r
<1>4. ConnInv(q)
  BY <1>1, <1>2 DEF ConnInv, SplicedInv, RightInv, RecordInv, Waits, Simple
<1>5. ConnInv(Idle)
  BY IdleInv
<1>6. UNCHANGED <<mode, inspect, opa, hosts>> /\ leaf' \in [Names -> {"none", "valid", "expired"}]
  BY DEF Dial, config, IInv, SharedOK
<1> QED BY <1>3, <1>4, <1>5, <1>6, Local

\* A handler that only moves its connection to another stage without a request.
LEMMA Moved ==
  ASSUME IInv, NEW c \in Conns, conn[c].stage \in Simple, NEW s \in Simple, Moves(c, s),
         UNCHANGED <<mode, inspect, opa, hosts>>,
         leaf' \in [Names -> {"none", "valid", "expired"}]
  PROVE  IInv'
<1>1. conn[c] \in Conn /\ ConnInv(conn[c])
  BY DEF IInv, ConnInv
<1>2. Becomes(c, [conn[c] EXCEPT !.stage = s])
  BY DEF Moves, Becomes
<1>3. ConnInv([conn[c] EXCEPT !.stage = s])
  BY <1>1, MovesInv
<1> QED BY <1>2, <1>3, Local

\* What Next does, one action at a time.
LEMMA Inductive == IInv /\ [Next]_vars => IInv'
<1> SUFFICES ASSUME IInv, [Next]_vars PROVE IInv'
  OBVIOUS
<1>l. leaf \in [Names -> {"none", "valid", "expired"}]
  BY DEF IInv, SharedOK
<1>m. ASSUME NEW n \in Names PROVE Minted(n) \in [Names -> {"none", "valid", "expired"}]
  BY <1>l DEF Minted
<1>c. ASSUME NEW c \in Conns
      PROVE  conn[c].to \in Names /\ conn[c].via \in Ways /\ ConnInv(conn[c])
  BY DEF IInv, ConnInv, Conn
<1>1. ASSUME NEW c \in Conns, NEW n \in Names, Connect(c, n) PROVE IInv'
  <2>1. ConnInv(Fresh("connect", "tls", n))
    BY FreshInv DEF Ways, Simple
  <2> QED BY <1>1, <1>l, <2>1, Local DEF Connect, config
<1>2. ASSUME NEW c \in Conns, NEW n \in Names, Redirected(c, n) PROVE IInv'
  <2>1. ConnInv(Fresh("handshake", "tls", n)) /\ ConnInv(Fresh("serving", "plain", n))
    BY FreshInv DEF Ways, Simple
  <2> QED BY <1>2, <1>l, <2>1, Local DEF Redirected, config
<1>3. ASSUME NEW c \in Conns, NEW n \in Names, NEW m \in Methods, AbsoluteURL(c, n, m)
      PROVE  IInv'
  <2>1. ConnInv(Asks("http", n, n, m))
    BY AsksInv DEF Ways
  <2> QED BY <1>3, <1>l, <2>1, Local DEF AbsoluteURL, config
<1>4. ASSUME NEW c \in Conns, CheckBlocked(c) PROVE IInv'
  <2>1. UNCHANGED <<mode, inspect, opa, hosts, leaf>> /\ (Becomes(c, Idle) \/ Moves(c, "route"))
    BY <1>4 DEF CheckBlocked, config
  <2>2. conn[c].stage \in Simple /\ "route" \in Simple
    BY <1>4 DEF CheckBlocked, At, Simple
  <2> QED BY <1>l, <2>1, <2>2, IdleInv, Local, Moved
<1>5. ASSUME NEW c \in Conns, Route(c) PROVE IInv'
  <2>1. UNCHANGED <<mode, inspect, opa, hosts, leaf>>
    BY <1>5 DEF Route, config
  <2>2. CASE ShouldSplice(conn[c].to)
    <3>1. inspect => conn[c].to \in Listed
      BY <2>2 DEF ShouldSplice, IInv, HostsInv, Listed
    <3>2. ConnInv(Asks("splice", conn[c].to, conn[c].to, "CONNECT"))
      BY <1>c, <3>1, AsksInv DEF Ways
    <3> QED BY <1>5, <1>l, <2>1, <2>2, <3>2, Local DEF Route
  <2>3. CASE ~ShouldSplice(conn[c].to)
    <3>1. conn[c].stage \in Simple /\ "handshake" \in Simple
      BY <1>5 DEF Route, At, Simple
    <3> QED BY <1>5, <1>l, <2>1, <2>3, <3>1, Moved DEF Route
  <2> QED BY <2>2, <2>3
<1>6. ASSUME NEW c \in Conns, NEW n \in Names, Handshake(c, n) PROVE IInv'
  <2>1. UNCHANGED <<mode, inspect, opa, hosts>>
    BY <1>6 DEF Handshake, config
  <2>2. leaf' \in [Names -> {"none", "valid", "expired"}]
    BY <1>6, <1>l, <1>m DEF Handshake
  <2>3. Moves(c, "rejected") \/ Moves(c, "serving")
    BY <1>6 DEF Handshake
  <2>4. conn[c].stage \in Simple /\ "rejected" \in Simple /\ "serving" \in Simple
    BY <1>6 DEF Handshake, At, Simple
  <2> QED BY <2>1, <2>2, <2>3, <2>4, Moved
<1>7. ASSUME NEW c \in Conns, Rejected(c) PROVE IInv'
  <2>1. UNCHANGED <<mode, inspect, opa, leaf>> /\ Becomes(c, Idle)
    BY <1>7 DEF Rejected, config
  <2>2. UNCHANGED hosts \/ (mode = "forward" /\ \E n \in Names : Fallback(n))
    BY <1>7, <1>c DEF Rejected
  <2> QED BY <1>l, <2>1, <2>2, IdleInv, Local
<1>8. ASSUME NEW c \in Conns, NEW n \in Names, NEW m \in Methods, Request(c, n, m) PROVE IInv'
  <2>1. At(c, "serving") /\ UNCHANGED <<mode, inspect, opa, leaf, hosts>>
        /\ Becomes(c, Asks(conn[c].via, conn[c].to, n, m))
    BY <1>8 DEF Request, config
  <2>2. conn[c].via \in {"tls", "plain"}
    BY <1>c, <2>1 DEF ConnInv, SplicedInv, At, Simple
  <2>3. ConnInv(Asks(conn[c].via, conn[c].to, n, m))
    BY <1>c, <2>2, AsksInv
  <2> QED BY <1>l, <2>1, <2>3, Local
<1>9. ASSUME NEW c \in Conns, Refuse(c) \/ Forward(c) \/ Hangup(c) PROVE IInv'
  <2>1. UNCHANGED <<mode, inspect, opa, leaf, hosts>> /\ (Becomes(c, Answered(c)) \/ Becomes(c, Idle))
    BY <1>9 DEF Refuse, Forward, Hangup, config
  <2> QED BY <1>l, <2>1, AnsweredInv, IdleInv, Local
<1>10. ASSUME Expire PROVE IInv'
  <2>1. SharedOK' /\ HostsInv'
    BY <1>10 DEF Expire, IInv, SharedOK, HostsInv, config, hosts
  <2>2. UNCHANGED <<conn, opa, inspect>>
    BY <1>10 DEF Expire, config
  <2> QED BY <2>1, <2>2 DEF IInv, ConnInv, SplicedInv, RightInv, RecordInv
<1>11. ASSUME Restart PROVE IInv'
  <2>1. SharedOK' /\ HostsInv'
    BY <1>11 DEF Restart, IInv, SharedOK, HostsInv, config
  <2>2. UNCHANGED <<opa, inspect>> /\ conn' = [c \in Conns |-> Idle]
    BY <1>11 DEF Restart, config
  <2>3. \A c \in Conns : ConnInv(conn[c])'
    BY <2>2, IdleInv DEF ConnInv, SplicedInv, RightInv, RecordInv
  <2> QED BY <2>1, <2>2, <2>3 DEF IInv
<1>12. CASE UNCHANGED vars
  BY <1>12 DEF vars, config, hosts, IInv, SharedOK, HostsInv, ConnInv, SplicedInv, RightInv, RecordInv
<1> QED
  BY <1>1, <1>2, <1>3, <1>4, <1>5, <1>6, <1>7, <1>8, <1>9, <1>10, <1>11, <1>12,
     EvaluateStep, DecideStep, UnansweredStep, RecordStep, DialStep, OpaChangeStep DEF Next, Step

LEMMA AlwaysIInv == Spec => []IInv
BY Initial, Inductive, PTL DEF Spec

-----------------------------------------------------------------------------
(* What follows.                                                           *)

\* Every state is well formed (the fields of proxy.Server, and the stages of a
\* connection).
THEOREM TypeCorrect == Spec => []TypeOK
<1>1. IInv => TypeOK
  BY DEF IInv, SharedOK, ConnInv, TypeOK
<1> QED BY <1>1, AlwaysIInv, PTL

\* With inspection on, only hosts the user or the guard lists are tunnelled
\* without it, however many handshakes race (proxy.go:106-139).
THEOREM OnlyListedUninspected == Spec => []UninspectedByRule
<1>1. IInv => UninspectedByRule
  BY DEF IInv, ConnInv, SplicedInv, HostsInv, UninspectedByRule, Listed, At
<1> QED BY <1>1, AlwaysIInv, PTL

\* Nothing goes upstream that the policy did not permit since it was asked for,
\* whatever the engine does meanwhile (mitm.go:70-83).
THEOREM VerdictStaysInForce == Spec => []VerdictInForce
<1>1. IInv => VerdictInForce
  BY DEF IInv, ConnInv, SplicedInv, RightInv, RecordInv, VerdictInForce
<1> QED BY <1>1, AlwaysIInv, PTL

\* Nothing is answered or sent upstream before its decision is recorded
\* (proxy.go:147-152, 177-182; mitm.go:99-104).
THEOREM RecordedBeforeEffect == Spec => []RecordedFirst
<1>1. IInv => RecordedFirst
  BY DEF IInv, ConnInv, RecordInv, RecordedFirst
<1> QED BY <1>1, AlwaysIInv, PTL

-----------------------------------------------------------------------------
(* The data path implements Gate.                                          *)

Seen == [c \in Conns |-> GateOf(conn[c])]

LEMMA PermittedType == ASSUME opa \in OpaStates PROVE Permitted(opa) \subseteq Names \X AllMethods
BY OpaAssumption DEF Permitted, OpaState

LEMMA SimpleSeen == ASSUME NEW r, r.stage \in Simple PROVE GateOf(r) = Promise!Free
BY DEF GateOf, Simple, Waits, Promise!Free

\* A step of one connection that Gate makes, too, or does not see.
LEMMA OneSeen ==
  ASSUME IInv, NEW c \in Conns, NEW r, Becomes(c, r), UNCHANGED opa,
         NEW g, g = GateOf(conn[c]), NEW h, h = GateOf(r),
         \/ h = g
         \/ Promise!Ask(g, h) \/ Promise!Decide(g, h) \/ Promise!Log(g, h)
         \/ Promise!Finish(g, h) \/ Promise!Tunnel(g, h)
  PROVE  Promise!Next \/ UNCHANGED <<Permitted(opa), Seen>>
<1>1. \A d \in Conns : conn'[d] = IF d = c THEN r ELSE conn[d]
  BY DEF IInv, Becomes
<1>2. Seen[c] = g /\ Seen'[c] = h /\ \A d \in Conns \ {c} : Seen'[d] = Seen[d]
  BY <1>1 DEF Seen
<1>3. UNCHANGED Permitted(opa)
  BY DEF Permitted
<1>4. CASE h = g
  <2>1. \A d \in Conns : GateOf(conn'[d]) = GateOf(conn[d])
    BY <1>1, <1>4
  <2>2. Seen' = Seen
    BY <2>1 DEF Seen
  <2> QED BY <1>3, <2>2
<1>5. CASE \/ Promise!Ask(g, h) \/ Promise!Decide(g, h) \/ Promise!Log(g, h)
           \/ Promise!Finish(g, h) \/ Promise!Tunnel(g, h)
  <2>1. Promise!Step(c)
    BY <1>2, <1>3, <1>5 DEF Promise!Step, Seen
  <2> QED BY <2>1 DEF Promise!Next
<1> QED BY <1>4, <1>5

\* A request that has just arrived is asked about.
LEMMA AsksSeen ==
  ASSUME NEW c \in Conns, conn[c].stage \in Simple, NEW v, NEW t, NEW n \in Names, NEW m \in AllMethods
  PROVE  Promise!Ask(GateOf(conn[c]), GateOf(Asks(v, t, n, m)))
<1> DEFINE p == (<<n, m>> \in Permitted(opa))
<1>0. p \in BOOLEAN
  OBVIOUS
<1>a. Asks(v, t, n, m) = [stage |-> "deciding", via |-> v, to |-> t, name |-> n, method |-> m,
                       said |-> "none", dec |-> "none", row |-> "none", right |-> p]
  BY DEF Asks
<1> HIDE DEF p
<1>1. GateOf(Asks(v, t, n, m)) = [at |-> "asked", what |-> <<n, m>>, ok |-> p]
  BY <1>0, <1>a DEF GateOf, Waits
<1> USE DEF p
<1>2. GateOf(conn[c]) = Promise!Free
  BY SimpleSeen
<1>3. <<n, m>> \in Names \X AllMethods
  OBVIOUS
<1> QED BY <1>1, <1>2, <1>3 DEF Promise!Ask, Promise!Asked

\* One that waited is decided, allowed only if the policy permitted it.
LEMMA DecidedSeen ==
  ASSUME NEW r \in Conn, Waits(r), NEW d \in {"allow", "deny"}, d = "allow" => r.right
  PROVE  Promise!Decide(GateOf(r), GateOf([r EXCEPT !.stage = "decided", !.dec = d]))
<1> DEFINE q == [r EXCEPT !.stage = "decided", !.dec = d]
           w == <<r.name, r.method>>
<1>1. GateOf(r) = [at |-> "asked", what |-> w, ok |-> r.right]
  BY DEF GateOf, Waits
<1>2. q.stage = "decided" /\ q.dec = d /\ <<q.name, q.method>> = w
  BY DEF Conn
<1>3. GateOf(q) = [at |-> "decided", what |-> w, verdict |-> d]
  BY <1>2 DEF GateOf, Waits
<1> QED BY <1>1, <1>3 DEF Promise!Decide, Promise!Verdict

\* A decision is recorded as it was taken, and its effect is under way.
LEMMA RecordedSeen ==
  ASSUME NEW r \in Conn, r.stage = "decided"
  PROVE  Promise!Log(GateOf(r), GateOf([r EXCEPT !.stage = After(r.dec), !.row = r.dec]))
<1> DEFINE q == [r EXCEPT !.stage = After(r.dec), !.row = r.dec]
           w == <<r.name, r.method>>
           s == IF r.dec = "allow" THEN "passing" ELSE "refusing"
<1>1. GateOf(r) = [at |-> "decided", what |-> w, verdict |-> r.dec]
  BY DEF GateOf, Waits
<1>2. q.stage = After(r.dec) /\ q.row = r.dec /\ <<q.name, q.method>> = w
  BY DEF Conn
<1>3. GateOf(q) = [at |-> s, what |-> w, verdict |-> r.dec]
  BY <1>2 DEF GateOf, Waits, After
<1> QED BY <1>1, <1>3 DEF Promise!Log, Promise!Verdict

\* The request at hand is done, and nothing is left of it.
LEMMA DoneSeen ==
  ASSUME NEW r, r.stage \in {"allowed", "refused", "tunnel"}, NEW q, q.stage \in Simple
  PROVE  Promise!Finish(GateOf(r), GateOf(q))
<1>1. GateOf(q) = Promise!Free
  BY SimpleSeen
<1>2. GateOf(r).at \in {"passing", "refusing", "open"}
  BY DEF GateOf, Waits
<1> QED BY <1>1, <1>2 DEF Promise!Finish

LEMMA AnsweredSimple == ASSUME NEW c \in Conns PROVE Answered(c).stage \in Simple /\ Idle.stage \in Simple
BY DEF Answered, Idle, Fresh, Simple

\* A raw tunnel is for the CONNECT that was allowed.
LEMMA TunnelSeen ==
  ASSUME NEW r \in Conn, ConnInv(r), r.stage = "allowed", r.via = "splice"
  PROVE  Promise!Tunnel(GateOf(r), GateOf([r EXCEPT !.stage = "tunnel"]))
<1> DEFINE q == [r EXCEPT !.stage = "tunnel"]
           w == <<r.name, r.method>>
<1>1. r.method = "CONNECT" /\ r.row = "allow" /\ r.name \in Names
  BY DEF ConnInv, SplicedInv, RecordInv, Conn
<1>2. GateOf(r) = [at |-> "passing", what |-> w, verdict |-> "allow"]
  BY <1>1 DEF GateOf, Waits
<1>3. q.stage = "tunnel" /\ q.row = r.row /\ <<q.name, q.method>> = w
  BY DEF Conn
<1>4. GateOf(q) = [at |-> "open", what |-> w, verdict |-> "allow"]
  BY <1>1, <1>3 DEF GateOf, Waits
<1> QED BY <1>1, <1>2, <1>4 DEF Promise!Tunnel, Promise!Verdict

\* The engine changes, and those that wait have what it now permits.
LEMMA ChangeSeen == ASSUME IInv, OpaChange PROVE Promise!Change
<1>1. Permitted(opa)' \subseteq Names \X AllMethods
  <2>1. opa' \in OpaStates
    BY DEF OpaChange
  <2> QED BY <2>1, OpaAssumption DEF Permitted, OpaState
<1>2. ASSUME NEW c \in Conns
      PROVE  GateOf(conn'[c]) =
               IF GateOf(conn[c]).at = "asked" /\ GateOf(conn[c]).what \in Permitted(opa)'
               THEN Promise!Asked(GateOf(conn[c]).what, TRUE) ELSE GateOf(conn[c])
  <2> DEFINE r == conn[c]
             q == conn'[c]
             w == <<r.name, r.method>>
  <2>1. r \in Conn
    BY DEF IInv, ConnInv
  <2>2. CASE ~Waits(r)
    <3>1. q = r
      BY <2>2 DEF OpaChange
    <3>2. GateOf(r).at # "asked"
      BY <2>2 DEF GateOf
    <3> QED BY <3>1, <3>2
  <2>3. CASE Waits(r) /\ w \in Permitted(opa')
    <3>1. q = [r EXCEPT !.right = TRUE]
      BY <2>3 DEF OpaChange
    <3>2. q.stage = r.stage /\ <<q.name, q.method>> = w /\ q.right = TRUE
      BY <2>1, <3>1 DEF Conn
    <3>3. GateOf(r) = [at |-> "asked", what |-> w, ok |-> r.right]
      BY <2>3 DEF GateOf, Waits
    <3>4. GateOf(q) = [at |-> "asked", what |-> w, ok |-> TRUE]
      BY <2>3, <3>2 DEF GateOf, Waits
    <3>5. w \in Permitted(opa)'
      BY <2>3 DEF Permitted
    <3> QED BY <3>3, <3>4, <3>5 DEF Promise!Asked
  <2>4. CASE Waits(r) /\ w \notin Permitted(opa')
    <3>1. q = r
      BY <2>4 DEF OpaChange
    <3>2. GateOf(r).what = w
      BY <2>4 DEF GateOf, Waits
    <3>3. w \notin Permitted(opa)'
      BY <2>4 DEF Permitted
    <3> QED BY <3>1, <3>2, <3>3
  <2> QED BY <2>2, <2>3, <2>4
<1>3. Seen' = [c \in Conns |-> IF Seen[c].at = "asked" /\ Seen[c].what \in Permitted(opa)'
                               THEN Promise!Asked(Seen[c].what, TRUE) ELSE Seen[c]]
  BY <1>2 DEF Seen
<1> QED BY <1>1, <1>3 DEF Promise!Change, Seen

\* Every step of the data path is one of Gate or unseen there.
LEMMA StepSeen ==
  ASSUME IInv, [Next]_vars
  PROVE  Promise!Next \/ UNCHANGED <<Permitted(opa), Seen>>
<1> DEFINE Done == Promise!Next \/ UNCHANGED <<Permitted(opa), Seen>>
<1>c. ASSUME NEW c \in Conns
      PROVE  conn[c] \in Conn /\ conn[c].name \in Names /\ conn[c].to \in Names /\ conn[c].via \in Ways /\ ConnInv(conn[c])
  BY DEF IInv, ConnInv, Conn
<1>i. Idle.stage \in Simple
  BY DEF Idle, Fresh, Simple
<1>q. ASSUME NEW c \in Conns, conn[c].stage \in Simple, NEW r, r.stage \in Simple,
             Becomes(c, r), UNCHANGED opa
      PROVE  Done
  BY <1>q, SimpleSeen, OneSeen
<1>a. ASSUME NEW c \in Conns, conn[c].stage \in Simple, NEW v, NEW t, NEW n \in Names,
             NEW m \in AllMethods, Becomes(c, Asks(v, t, n, m)), UNCHANGED opa
      PROVE  Done
  BY <1>a, AsksSeen, OneSeen
<1>d. ASSUME NEW c \in Conns, conn[c].stage \in {"allowed", "refused", "tunnel"}, NEW r,
             r.stage \in Simple, Becomes(c, r), UNCHANGED opa
      PROVE  Done
  BY <1>d, DoneSeen, OneSeen
<1>m. ASSUME NEW c \in Conns, conn[c].stage \in Simple, NEW s \in Simple, Moves(c, s),
             UNCHANGED opa
      PROVE  Done
  <2>1. [conn[c] EXCEPT !.stage = s].stage \in Simple
    BY <1>c DEF Conn
  <2>2. Becomes(c, [conn[c] EXCEPT !.stage = s])
    BY <1>m DEF Moves, Becomes
  <2> QED BY <1>m, <1>q, <2>1, <2>2
<1>1. ASSUME NEW c \in Conns, NEW n \in Names, Connect(c, n) \/ Redirected(c, n) PROVE Done
  <2>1. conn[c].stage \in Simple /\ UNCHANGED opa
    BY <1>1 DEF Connect, Redirected, At, Simple
  <2>2. \E r : r.stage \in Simple /\ Becomes(c, r)
    <3>1. \A s, v : s \in Simple => Fresh(s, v, n).stage \in Simple
      BY DEF Fresh
    <3> QED BY <1>1, <3>1 DEF Connect, Redirected, Simple
  <2> QED BY <1>q, <2>1, <2>2
<1>2. ASSUME NEW c \in Conns, NEW n \in Names, NEW m \in Methods, AbsoluteURL(c, n, m) PROVE Done
  <2>1. conn[c].stage \in Simple
    BY <1>2 DEF AbsoluteURL, At, Simple
  <2> QED BY <1>2, <1>a, <2>1 DEF AbsoluteURL
<1>3. ASSUME NEW c \in Conns, CheckBlocked(c) PROVE Done
  <2>1. conn[c].stage \in Simple /\ "route" \in Simple
    BY <1>3 DEF CheckBlocked, At, Simple
  <2> QED BY <1>3, <1>i, <1>q, <1>m, <2>1 DEF CheckBlocked
<1>4. ASSUME NEW c \in Conns, Route(c) PROVE Done
  <2>1. conn[c].stage \in Simple /\ "handshake" \in Simple /\ "CONNECT" \in AllMethods
    BY <1>4 DEF Route, At, Simple
  <2> QED BY <1>4, <1>a, <1>m, <1>c, <2>1 DEF Route
<1>5. ASSUME NEW c \in Conns, NEW n \in Names, Handshake(c, n) PROVE Done
  <2>1. conn[c].stage \in Simple /\ "rejected" \in Simple /\ "serving" \in Simple
    BY <1>5 DEF Handshake, At, Simple
  <2> QED BY <1>5, <1>m, <2>1 DEF Handshake
<1>6. ASSUME NEW c \in Conns, Rejected(c) PROVE Done
  <2>1. conn[c].stage \in Simple
    BY <1>6 DEF Rejected, At, Simple
  <2> QED BY <1>6, <1>i, <1>q, <2>1 DEF Rejected
<1>7. ASSUME NEW c \in Conns, NEW n \in Names, NEW m \in Methods, Request(c, n, m) PROVE Done
  <2>1. conn[c].stage \in Simple
    BY <1>7 DEF Request, At, Simple
  <2> QED BY <1>7, <1>a, <1>c, <2>1 DEF Request
<1>8. ASSUME NEW c \in Conns, Evaluate(c) PROVE Done
  <2> DEFINE r == conn[c]
             v == IF opa.loaded /\ <<r.name, r.method>> \in opa.allows THEN "allow" ELSE "deny"
             q == [r EXCEPT !.stage = "answering", !.said = v]
  <2>1. r.stage = "deciding" /\ Becomes(c, q) /\ UNCHANGED opa
    BY <1>8 DEF Evaluate, At
  <2>2. q.stage = "answering" /\ <<q.name, q.method>> = <<r.name, r.method>> /\ q.right = r.right
    BY <1>c DEF Conn
  <2> HIDE DEF q
  <2>3. GateOf(q) = GateOf(r)
    BY <2>1, <2>2 DEF GateOf, Waits
  <2> QED BY <2>1, <2>3, OneSeen
<1>9. ASSUME NEW c \in Conns, Decide(c) PROVE Done
  <2>1. Waits(conn[c]) /\ conn[c].said \in {"allow", "deny"} /\ (conn[c].said = "allow" => conn[c].right)
    BY <1>9, <1>c DEF Decide, At, Waits, ConnInv, Conn, RecordInv, RightInv
  <2> QED BY <1>9, <1>c, <2>1, DecidedSeen, OneSeen DEF Decide
<1>10. ASSUME NEW c \in Conns, Unanswered(c) PROVE Done
  <2>1. Waits(conn[c]) /\ ~opa.up /\ conn[c].method \in AllMethods
    BY <1>10, <1>c DEF Unanswered, Conn
  <2>2. Outage(conn[c].name) = "allow" => <<conn[c].name, conn[c].method>> \in Permitted(opa)
    BY <1>c, <2>1 DEF Outage, Permitted
  <2>3. Outage(conn[c].name) \in {"allow", "deny"} /\ (Outage(conn[c].name) = "allow" => conn[c].right)
    BY <1>c, <2>1, <2>2 DEF Outage, ConnInv, RightInv
  <2> QED BY <1>10, <1>c, <2>1, <2>3, DecidedSeen, OneSeen DEF Unanswered
<1>11. ASSUME NEW c \in Conns, Record(c) PROVE Done
  <2>1. conn[c].stage = "decided"
    BY <1>11 DEF Record, At
  <2> QED BY <1>11, <1>c, <2>1, RecordedSeen, OneSeen DEF Record
<1>12. ASSUME NEW c \in Conns, Refuse(c) \/ Forward(c) PROVE Done
  <2>1. conn[c].stage \in {"allowed", "refused", "tunnel"} /\ Becomes(c, Answered(c)) /\ UNCHANGED opa
    BY <1>12 DEF Refuse, Forward, At
  <2> QED BY <1>d, <2>1, AnsweredSimple
<1>13. ASSUME NEW c \in Conns, Dial(c) PROVE Done
  <2>1. conn[c].stage = "allowed" /\ conn[c].via = "splice" /\ UNCHANGED opa
    BY <1>13 DEF Dial, At
  <2>2. CASE Becomes(c, Idle)
    BY <1>d, <1>i, <2>1, <2>2
  <2>3. CASE Moves(c, "tunnel")
    <3>1. Becomes(c, [conn[c] EXCEPT !.stage = "tunnel"])
      BY <2>3 DEF Moves, Becomes
    <3> QED BY <1>c, <2>1, <3>1, TunnelSeen, OneSeen
  <2> QED BY <1>13, <2>2, <2>3 DEF Dial
<1>14. ASSUME NEW c \in Conns, Hangup(c) PROVE Done
  <2>1. conn[c].stage \in Simple \/ conn[c].stage \in {"allowed", "refused", "tunnel"}
    BY <1>14 DEF Hangup, Simple
  <2> QED BY <1>14, <1>d, <1>i, <1>q, <2>1 DEF Hangup
<1>15. CASE OpaChange
  BY <1>15, ChangeSeen DEF Promise!Next
<1>16. CASE Expire \/ UNCHANGED vars
  <2>1. UNCHANGED <<conn, opa>>
    BY <1>16 DEF Expire, vars
  <2> QED BY <2>1 DEF Permitted, Seen, GateOf, Waits
<1>17. CASE Restart
  <2>1. \A c \in Conns : GateOf(conn'[c]) = Promise!Free
    BY <1>17, <1>i, SimpleSeen DEF Restart
  <2>2. Seen' = [c \in Conns |-> Promise!Free] /\ UNCHANGED Permitted(opa)
    BY <1>17, <2>1 DEF Restart, Seen, Permitted
  <2> QED BY <2>2 DEF Promise!Next, Promise!Restart, Seen
<1> QED
  BY <1>1, <1>2, <1>3, <1>4, <1>5, <1>6, <1>7, <1>8, <1>9, <1>10, <1>11, <1>12, <1>13, <1>14,
     <1>15, <1>16, <1>17 DEF Next, Step

\* The data path implements Gate: whatever is inspected, learned or blocked,
\* each request is let through or refused by a verdict of its own, recorded
\* before (proxy.go:106-198, mitm.go:44-107).
THEOREM ProxyImplementsGate == Spec => ImplementsGate
<1>1. Init => Promise!Init
  <2> SUFFICES ASSUME Init PROVE Promise!Init
    OBVIOUS
  <2>1. Permitted(opa) \subseteq Names \X AllMethods
    BY PermittedType DEF Init
  <2>2. \A c \in Conns : GateOf(conn[c]) = Promise!Free
    <3>1. Idle.stage \in Simple
      BY DEF Idle, Fresh, Simple
    <3>2. \A c \in Conns : conn[c] = Idle
      BY DEF Init
    <3> QED BY <3>1, <3>2, SimpleSeen
  <2> QED BY <2>1, <2>2 DEF Promise!Init
<1>2. IInv /\ [Next]_vars => [Promise!Next]_<<Permitted(opa), Seen>>
  BY StepSeen
<1> QED BY <1>1, <1>2, AlwaysIInv, PTL DEF Spec, ImplementsGate, Promise!Spec, Promise!gvars, Seen

-----------------------------------------------------------------------------
(* When only hosts that reject inspection are blocked.                     *)

\* A client that accepts the leaf of its host neither breaks off nor leaves out the
\* name, or gives another one.
Completed ==
  \A c \in Conns : At(c, "handshake") /\ conn'[c].stage = "rejected" => ~Accepts(conn[c].to)

BlockInv ==
  /\ \A n \in Names : leaf[n] # "expired"
  /\ \A c \in Conns : At(c, "rejected") => conn[c].to \in Pinned
  /\ blocked \subseteq Pinned

\* A connection gets to its fallback by a failed handshake.
LEMMA ByHandshake ==
  ASSUME IInv, Next, NEW d \in Conns, conn'[d].stage = "rejected"
  PROVE  (At(d, "rejected") /\ conn'[d].to = conn[d].to) \/ \E n \in Names : Handshake(d, n)
<1>1. ASSUME NEW c \in Conns, NEW r, Becomes(c, r), r.stage # "rejected"
      PROVE  At(d, "rejected") /\ conn'[d].to = conn[d].to
  BY <1>1 DEF IInv, Becomes, At
<1>2. Idle.stage # "rejected" /\ \A c \in Conns : Answered(c).stage # "rejected"
  BY DEF Idle, Answered, Fresh
<1>3. ASSUME NEW c \in Conns, NEW t \in Stages, Moves(c, t), t # "rejected"
      PROVE  At(d, "rejected") /\ conn'[d].to = conn[d].to
  <2>1. conn[c] \in Conn /\ Becomes(c, [conn[c] EXCEPT !.stage = t])
    BY <1>3 DEF IInv, ConnInv, Moves, Becomes
  <2>2. [conn[c] EXCEPT !.stage = t].stage = t
    BY <2>1 DEF Conn
  <2> QED BY <1>1, <1>3, <2>1, <2>2
<1>4. ASSUME NEW c \in Conns, NEW n \in Names, Handshake(c, n), c # d
      PROVE  At(d, "rejected") /\ conn'[d].to = conn[d].to
  <2>1. conn'[d] = conn[d]
    BY <1>4 DEF Handshake, Moves, IInv
  <2> QED BY <2>1 DEF At
<1>5. ASSUME NEW c \in Conns, NEW n \in Names, Connect(c, n) \/ Redirected(c, n)
      PROVE  At(d, "rejected") /\ conn'[d].to = conn[d].to
  BY <1>1, <1>5 DEF Connect, Redirected, Fresh
<1>6. ASSUME NEW c \in Conns, NEW n, NEW m, NEW v, NEW t, Becomes(c, Asks(v, t, n, m))
      PROVE  At(d, "rejected") /\ conn'[d].to = conn[d].to
  BY <1>1, <1>6 DEF Asks
<1>7. ASSUME NEW c \in Conns, CheckBlocked(c) \/ Route(c) \/ Dial(c)
      PROVE  At(d, "rejected") /\ conn'[d].to = conn[d].to
  <2>1. Becomes(c, Idle) \/ Becomes(c, Asks("splice", conn[c].to, conn[c].to, "CONNECT"))
        \/ \E t \in Stages \ {"rejected"} : Moves(c, t)
    BY <1>7 DEF CheckBlocked, Route, Dial, Stages
  <2> QED BY <1>1, <1>2, <1>3, <1>6, <2>1
<1>8. ASSUME NEW c \in Conns, Evaluate(c) \/ Decide(c) \/ Unanswered(c) \/ Record(c)
      PROVE  At(d, "rejected") /\ conn'[d].to = conn[d].to
  <2>1. conn[c] \in Conn
    BY DEF IInv, ConnInv
  <2>2. CASE Evaluate(c)
    <3> DEFINE r == [conn[c] EXCEPT !.stage = "answering", !.said =
                 IF opa.loaded /\ <<conn[c].name, conn[c].method>> \in opa.allows THEN "allow" ELSE "deny"]
    <3>1. Becomes(c, r) /\ r.stage = "answering"
      BY <2>1, <2>2 DEF Evaluate, Conn
    <3> QED BY <1>1, <3>1
  <2>3. CASE Decide(c) \/ Unanswered(c)
    <3>1. \E w \in {"none", "allow", "deny"} : Becomes(c, [conn[c] EXCEPT !.stage = "decided", !.dec = w])
      BY <2>1, <2>3 DEF Decide, Unanswered, Outage, Conn
    <3>2. \A w : [conn[c] EXCEPT !.stage = "decided", !.dec = w].stage = "decided"
      BY <2>1 DEF Conn
    <3> QED BY <1>1, <3>1, <3>2
  <2>4. CASE Record(c)
    <3> DEFINE r == [conn[c] EXCEPT !.stage = After(conn[c].dec), !.row = conn[c].dec]
    <3>1. Becomes(c, r) /\ r.stage = After(conn[c].dec)
      BY <2>1, <2>4 DEF Record, Conn
    <3>2. After(conn[c].dec) # "rejected"
      BY DEF After
    <3> HIDE DEF r
    <3> QED BY <1>1, <3>1, <3>2
  <2> QED BY <1>8, <2>2, <2>3, <2>4
<1>9. ASSUME NEW c \in Conns, Rejected(c) \/ Refuse(c) \/ Forward(c) \/ Hangup(c)
      PROVE  At(d, "rejected") /\ conn'[d].to = conn[d].to
  BY <1>1, <1>2, <1>9 DEF Rejected, Refuse, Forward, Hangup
<1>10. ASSUME NEW c \in Conns, NEW n \in Names, NEW m \in Methods, AbsoluteURL(c, n, m) \/ Request(c, n, m)
       PROVE  At(d, "rejected") /\ conn'[d].to = conn[d].to
  BY <1>6, <1>10 DEF AbsoluteURL, Request
<1>11. ASSUME OpaChange
       PROVE  At(d, "rejected") /\ conn'[d].to = conn[d].to
  <2>1. conn[d] \in Conn /\ conn'[d] \in {conn[d], [conn[d] EXCEPT !.right = TRUE]}
    BY <1>11 DEF OpaChange, IInv, ConnInv
  <2>2. \A r \in {conn[d], [conn[d] EXCEPT !.right = TRUE]} : r.stage = conn[d].stage /\ r.to = conn[d].to
    BY <2>1 DEF Conn
  <2> QED BY <2>1, <2>2 DEF At
<1>12. CASE Expire
  BY <1>12 DEF Expire, At
<1>13. CASE Restart
  BY <1>2, <1>13 DEF Restart
<1> QED
  BY <1>4, <1>5, <1>7, <1>8, <1>9, <1>10, <1>11, <1>12, <1>13, NamesAssumption DEF Next, Step

LEMMA BlockStep ==
  ASSUME IInv, BlockInv, [Next]_vars, [Completed]_vars, [~Expire]_vars
  PROVE  BlockInv'
<1>1. CASE UNCHANGED vars
  BY <1>1 DEF vars, BlockInv, At, hosts
<1>2. CASE Next /\ ~UNCHANGED vars
  <2>1. ~Expire /\ Completed
    BY <1>2
  <2>2. \A n \in Names : leaf'[n] # "expired"
    <3>1. UNCHANGED leaf \/ (\E n \in Names : leaf' = Minted(n)) \/ leaf' = [n \in Names |-> "none"]
      <4>1. \A c \in Conns : conn[c].to \in Names
        BY DEF IInv, ConnInv, Conn
      <4> QED
        BY <1>2, <2>1, <4>1 DEF Next, Step, Connect, Redirected, AbsoluteURL, Request, Handshake,
          CheckBlocked, Route, Rejected, Evaluate, Decide, Unanswered, Record, Refuse, Forward, Dial,
          Hangup, OpaChange, Restart
    <3>2. leaf \in [Names -> {"none", "valid", "expired"}]
      BY DEF IInv, SharedOK
    <3> QED BY <3>1, <3>2 DEF BlockInv, Minted
  <2>3. ASSUME NEW d \in Conns, conn'[d].stage = "rejected" PROVE conn'[d].to \in Pinned
    <3>1. CASE At(d, "rejected") /\ conn'[d].to = conn[d].to
      BY <3>1 DEF BlockInv
    <3>2. CASE \E n \in Names : Handshake(d, n)
      <4>1. conn[d] \in Conn /\ conn[d].to \in Names /\ At(d, "handshake")
        BY <3>2 DEF IInv, ConnInv, Conn, Handshake
      <4>2. \A t : [conn EXCEPT ![d].stage = t][d].to = conn[d].to
        BY <4>1 DEF IInv, Conn
      <4>3. conn'[d].to = conn[d].to
        BY <3>2, <4>2 DEF Handshake, Moves
      <4>4. ~Accepts(conn[d].to)
        BY <2>1, <2>3, <4>1 DEF Completed
      <4>5. Minted(conn[d].to)[conn[d].to] = "valid"
        <5>1. leaf \in [Names -> {"none", "valid", "expired"}] /\ leaf[conn[d].to] # "expired"
          BY <4>1 DEF IInv, SharedOK, BlockInv
        <5> QED BY <4>1, <5>1 DEF Minted
      <4> QED BY <4>3, <4>4, <4>5 DEF Accepts
    <3> QED BY <1>2, <2>3, <3>1, <3>2, ByHandshake
  <2>4. blocked' \subseteq Pinned
    <3>1. UNCHANGED blocked \/ blocked' = {} \/ \E c \in Conns : At(c, "rejected") /\ blocked' = blocked \cup {conn[c].to}
      BY <1>2 DEF Next, Step, Connect, Redirected, AbsoluteURL, Request, Handshake, hosts,
        CheckBlocked, Route, Rejected, Fallback, Learns, Blocks, Evaluate, Decide, Unanswered, Record,
        Refuse, Forward, Dial, Hangup, OpaChange, Expire, Restart
    <3> QED BY <3>1 DEF BlockInv
  <2> QED BY <2>2, <2>3, <2>4 DEF BlockInv, At
<1> QED BY <1>1, <1>2

\* What proxy.go:69-71 says of block is true as long as no client that accepts the
\* leaf breaks its handshake off and no leaf outlives its 90 days: however
\* connections interleave, no other host is blocked. (The run ProxyBlocked refutes
\* it without these two.)
THEOREM BlockedRejectedInspection ==
  Spec /\ [][Completed]_vars /\ [][~Expire]_vars => []OnlyRejectingBlocked
<1>1. Init => BlockInv
  BY DEF Init, BlockInv, At, Idle, Fresh
<1>2. IInv /\ BlockInv /\ [Next]_vars /\ [Completed]_vars /\ [~Expire]_vars => BlockInv'
  BY BlockStep
<1>3. BlockInv => OnlyRejectingBlocked
  BY DEF BlockInv, OnlyRejectingBlocked
<1> QED BY <1>1, <1>2, <1>3, AlwaysIInv, PTL DEF Spec
=============================================================================
