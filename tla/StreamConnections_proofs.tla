----------------------- MODULE StreamConnections_proofs -----------------------
(***************************************************************************)
(* Proofs about StreamConnections for any number of services.  Sound says  *)
(* of one service what its methods and callbacks keep up, whatever order   *)
(* they come in; Inv adds what the panel knows about all of them, and      *)
(* FitInv that what a WebSocket panel shows fits the service it knows.     *)
(***************************************************************************)
EXTENDS StreamConnections, TLAPS

Sound(s) ==
    /\ s.phase # "used" => s.socket = "none" /\ ~s.echo /\ ~s.retry /\ ~s.ack
    /\ s.echo => s.socket = "none" /\ kind # "ws"
    /\ s.ack => kind = "gql" /\ s.socket = "open" /\ ~s.acked
    /\ s.acked => kind = "gql" /\ s.socket # "connecting"
    /\ s.retry => kind # "gql" /\ s.socket \notin {"connecting", "open"}
    /\ s.retry /\ kind = "ws" => s.socket = "ended"
    /\ s.socket = "cut" => kind = "sse"
    /\ kind = "ws" => s.socket # "closing" /\ (s.socket = "failing" => s.intent)

\* A service that is alive or will be.
Alive(s) == s.retry \/ s.socket \in {"connecting", "open"} \/ s.phase = "awaiting"

Inv ==
    /\ TypeOK
    /\ \A g \in Services : Sound(svc[g])
    /\ kind # "sse" /\ ~raced => \A g \in Services : Alive(svc[g]) => g = current /\ wanted
    /\ ConnectedIsLive

-----------------------------------------------------------------------------
\* What disconnect() leaves of a service.
LEMMA Disconnected ==
  ASSUME NEW s \in ServiceState, Sound(s), kind \in {"ws", "sse", "gql"}
  PROVE  LET d == Disconnect(s) IN
         /\ d \in ServiceState /\ Sound(d)
         /\ d.status = "disconnected" /\ d.phase = s.phase /\ d.auto = s.auto
         /\ ~d.retry /\ ~d.ack /\ d.socket \in {"none", "closing"}
         /\ s.phase # "used" => d.socket = "none"
         /\ s.socket # "connecting" => d.echo = s.echo
         /\ s.socket = "none" => d.socket = "none"
<1> DEFINE d == Disconnect(s)
<1>1. /\ d.phase = s.phase /\ d.auto = s.auto /\ d.status = "disconnected"
      /\ d.socket = (IF kind = "gql" /\ s.socket \in {"open", "closing", "failing"}
                     THEN "closing" ELSE "none")
      /\ d.echo = (s.echo \/ (kind # "ws" /\ s.socket = "connecting"))
      /\ d.intent = (s.intent \/ (kind # "sse" /\ s.socket # "none"))
      /\ d.retry = FALSE /\ d.ack = FALSE /\ d.acked = s.acked
  BY DEF Disconnect, ClearsTimers, ServiceState
<1>2. d \in ServiceState
  BY DEF Disconnect, ClearsTimers, ServiceState, Sockets, Statuses
<1>3. Sound(d)
  BY <1>1 DEF Sound, ServiceState
<1>4. s.phase # "used" => d.socket = "none"
  BY <1>1 DEF Sound
<1>5. s.socket # "connecting" => d.echo = s.echo
  BY <1>1 DEF ServiceState
<1> QED
  BY <1>1, <1>2, <1>3, <1>4, <1>5

\* What connect() makes of a service whose socket is neither connecting nor open.
LEMMA Connects ==
  ASSUME NEW s \in ServiceState, Sound(s), kind \in {"ws", "sse", "gql"},
         ~s.echo, s.socket # "connecting",
         NEW c \in {[Connect(s) EXCEPT !.phase = "used"], [Refused(s) EXCEPT !.phase = "used"]}
  PROVE  /\ c \in ServiceState /\ Sound(c)
         /\ c.status \in {"connecting", "error"} /\ c.phase = "used"
<1> DEFINE d == Disconnect(s)
<1>1. /\ d \in ServiceState /\ Sound(d) /\ ~d.retry /\ ~d.ack /\ ~d.echo
      /\ d.socket \in {"none", "closing"}
  BY Disconnected
<1> HIDE DEF d
<1>2. CASE c = [d EXCEPT !.status = "connecting", !.socket = "connecting",
                         !.intent = FALSE, !.acked = FALSE, !.phase = "used"]
  <2>1. /\ c.phase = "used" /\ c.status = "connecting" /\ c.socket = "connecting"
        /\ c.acked = FALSE /\ c.echo = d.echo /\ c.retry = d.retry /\ c.ack = d.ack
    BY <1>1, <1>2 DEF ServiceState
  <2>2. c \in ServiceState
    BY <1>1, <1>2 DEF ServiceState, Sockets, Statuses
  <2> QED
    BY <1>1, <2>1, <2>2 DEF Sound
<1>3. CASE c = [d EXCEPT !.status = "error", !.intent = FALSE, !.phase = "used"]
  <2>1. /\ c.phase = "used" /\ c.status = "error" /\ c.socket = d.socket
        /\ c.acked = d.acked /\ c.echo = d.echo /\ c.retry = d.retry /\ c.ack = d.ack
    BY <1>1, <1>3 DEF ServiceState
  <2>2. c \in ServiceState
    BY <1>1, <1>3 DEF ServiceState, Sockets, Statuses
  <2> QED
    BY <1>1, <2>1, <2>2 DEF Sound
<1>4. \/ c = [d EXCEPT !.status = "connecting", !.socket = "connecting",
                       !.intent = FALSE, !.acked = FALSE, !.phase = "used"]
      \/ c = [d EXCEPT !.status = "error", !.intent = FALSE, !.phase = "used"]
  BY <1>1 DEF d, Connect, Refused, IntentReset, ServiceState
<1> QED
  BY <1>2, <1>3, <1>4
-----------------------------------------------------------------------------
\* A step of one service, by a callback or after its cookies, keeps it sound.
LEMMA StepSound ==
  ASSUME TypeOK, \A g \in Services : Sound(svc[g]), kind' = kind,
         NEW g \in Services, NEW s \in ServiceState, Sound(s), Becomes(g, s)
  PROVE  /\ svc' \in [Services -> ServiceState]
         /\ \A k \in Services : Sound(svc[k])'
         /\ svc'[g] = s /\ \A k \in Services \ {g} : svc'[k] = svc[k]
<1>1. svc' = [svc EXCEPT ![g] = s] /\ svc \in [Services -> ServiceState]
  BY DEF Becomes, TypeOK
<1>2. svc'[g] = s /\ \A k \in Services \ {g} : svc'[k] = svc[k]
  BY <1>1
<1>3. svc' \in [Services -> ServiceState]
  BY <1>1
<1>4. ASSUME NEW k \in Services PROVE Sound(svc[k])'
  BY <1>2 DEF Sound
<1> QED
  BY <1>2, <1>3, <1>4

\* What a callback of g makes of its record and of the status shown: it revives no
\* subscription and no WebSocket, and leaves a webview that shows "connected" only
\* with a socket of its own that is open, or cut off.
LEMMA CallbackEffect ==
  ASSUME TypeOK, kind \in {"ws", "sse", "gql"}, NEW g \in Services, Sound(svc[g]), Callback(g)
  PROVE  \E s \in ServiceState :
            /\ Becomes(g, s) /\ Sound(s)
            /\ kind # "sse" /\ Alive(s) => Alive(svc[g])
            /\ shown' \in Statuses
            /\ kind # "gql" /\ shown' = "connected" => s.socket \in {"open", "cut"}
            /\ External
<1> DEFINE v == svc[g]
<1>0. v \in ServiceState /\ shown \in Statuses
  BY DEF TypeOK
<1> HIDE DEF v
<1>a. Sound(v)
  BY DEF v
<1>1. CASE Opened(g)
  <2> DEFINE s == [v EXCEPT !.socket = "open", !.status = "connected", !.ack = kind = "gql"]
  <2>1. s \in ServiceState
    BY <1>0 DEF ServiceState, Sockets, Statuses
  <2>2. v.socket = "connecting" /\ Reports(g, s) /\ External
    BY <1>1 DEF Opened, v
  <2>3. /\ s.phase = v.phase /\ s.socket = "open" /\ s.status = "connected"
        /\ s.ack = (kind = "gql") /\ s.echo = v.echo /\ s.retry = v.retry
        /\ s.acked = v.acked /\ s.intent = v.intent
    BY <1>0 DEF ServiceState
  <2>4. Sound(s) /\ (kind # "sse" /\ Alive(s) => Alive(v))
    BY <1>a, <2>2, <2>3 DEF Sound, Alive
  <2> QED
    BY <2>1, <2>2, <2>3, <2>4 DEF Reports, v, Statuses
<1>2. CASE BadStatus(g)
  <2> DEFINE s == [v EXCEPT !.socket = "none", !.status = "error"]
  <2>1. s \in ServiceState
    BY <1>0 DEF ServiceState, Sockets, Statuses
  <2>2. v.socket = "connecting" /\ kind = "sse" /\ Reports(g, s) /\ External
    BY <1>2 DEF BadStatus, v
  <2>3. /\ s.phase = v.phase /\ s.socket = "none" /\ s.status = "error"
        /\ s.ack = v.ack /\ s.echo = v.echo /\ s.retry = v.retry
        /\ s.acked = v.acked /\ s.intent = v.intent
    BY <1>0 DEF ServiceState
  <2>4. Sound(s)
    BY <1>a, <2>2, <2>3 DEF Sound
  <2> QED
    BY <2>1, <2>2, <2>3, <2>4 DEF Reports, Statuses
<1>3. CASE Ended(g)
  <2> DEFINE e == EndedSocket(v)
             s == IF kind = "gql" /\ e.intent THEN e ELSE IF e.intent THEN e ELSE Retries(e)
  <2>1. /\ e \in ServiceState
        /\ e.socket = IF v.socket = "failing" THEN "failed" ELSE "ended"
        /\ e.phase = v.phase /\ e.intent = v.intent /\ e.ack = FALSE /\ e.echo = v.echo
        /\ e.retry = v.retry /\ e.acked = v.acked
        /\ e.status = IF kind = "gql" /\ v.intent THEN v.status ELSE "disconnected"
    BY <1>0 DEF EndedSocket, ServiceState, Sockets, Statuses
  <2> HIDE DEF e
  <2>2. /\ s \in ServiceState
        /\ s.socket = e.socket /\ s.phase = e.phase /\ s.intent = e.intent /\ s.ack = e.ack
        /\ s.echo = e.echo /\ s.acked = e.acked /\ s.status = e.status
        /\ s.retry => e.retry \/ (~e.intent /\ kind \in {"ws", "sse"})
    BY <2>1 DEF Retries, ServiceState
  <2>3. v.socket \in {"open", "closing", "failing"} /\ Becomes(g, s) /\ External
    BY <1>3 DEF Ended, Reports, ReportsNothing, v, e
  <2>4. shown' = s.status \/ (kind = "gql" /\ shown' = shown)
    BY <1>3 DEF Ended, Reports, ReportsNothing, v, e
  <2> HIDE DEF s
  <2>5. Sound(s)
    BY <1>a, <2>1, <2>2, <2>3 DEF Sound
  <2>6. kind # "sse" /\ Alive(s) => Alive(v)
    BY <1>a, <2>1, <2>2, <2>3 DEF Sound, Alive
  <2>7. shown' \in Statuses /\ (kind # "gql" => shown' = "disconnected")
    BY <1>0, <2>1, <2>2, <2>4 DEF Statuses, ServiceState
  <2> QED
    BY <2>2, <2>3, <2>5, <2>6, <2>7 DEF v
<1>4. CASE Failed(g)
  <2> DEFINE s == FailedSocket(v)
  <2>1. v.socket \in {"connecting", "open", "closing"} /\ Reports(g, s) /\ External
    BY <1>4 DEF Failed, v
  <2>2. s \in ServiceState
    BY <1>0 DEF FailedSocket, Retries, ServiceState, Sockets, Statuses
  <2>3. /\ s.phase = v.phase /\ s.status = "error" /\ s.echo = v.echo /\ s.acked = v.acked
        /\ s.socket = IF kind = "sse" THEN "none" ELSE "failing"
        /\ kind # "sse" => ~s.ack /\ s.retry = v.retry
        /\ kind = "sse" => s.ack = v.ack
        /\ kind = "ws" => s.intent
    BY <1>0 DEF FailedSocket, Retries, ServiceState
  <2> HIDE DEF s
  <2>4. Sound(s)
    BY <1>a, <2>1, <2>3 DEF Sound
  <2>5. kind # "sse" /\ Alive(s) => Alive(v)
    BY <2>3 DEF Alive
  <2> QED
    BY <2>1, <2>2, <2>3, <2>4, <2>5 DEF Reports, Statuses, v
<1>5. CASE Echo(g)
  <2> DEFINE s == Retries([v EXCEPT !.echo = FALSE, !.status = "error", !.ack = FALSE])
  <2>1. v.echo /\ Reports(g, s) /\ External
    BY <1>5 DEF Echo, v
  <2>2. s \in ServiceState
    BY <1>0 DEF Retries, ServiceState, Sockets, Statuses
  <2>3. /\ s.phase = v.phase /\ s.status = "error" /\ s.acked = v.acked /\ s.socket = v.socket
        /\ s.intent = v.intent /\ ~s.ack /\ ~s.echo
        /\ s.retry => v.retry \/ kind \in {"ws", "sse"}
    BY <1>0 DEF Retries, ServiceState
  <2> HIDE DEF s
  <2>4. Sound(s)
    BY <1>a, <2>1, <2>3 DEF Sound
  <2>5. kind # "sse" /\ Alive(s) => Alive(v)
    BY <1>a, <2>1, <2>3 DEF Alive, Sound
  <2> QED
    BY <2>1, <2>2, <2>3, <2>4, <2>5 DEF Reports, Statuses, v
<1>6. CASE Ack(g)
  <2> DEFINE s == [v EXCEPT !.acked = TRUE, !.ack = FALSE, !.status = "subscribed"]
  <2>1. kind = "gql" /\ v.socket \in {"open", "closing"} /\ Reports(g, s) /\ External
    BY <1>6 DEF Ack, v
  <2>2. s \in ServiceState
    BY <1>0 DEF ServiceState, Statuses
  <2>3. /\ s.phase = v.phase /\ s.status = "subscribed" /\ s.socket = v.socket /\ ~s.ack
        /\ s.echo = v.echo /\ s.retry = v.retry
    BY <1>0 DEF ServiceState
  <2> HIDE DEF s
  <2>4. Sound(s) /\ (Alive(s) => Alive(v))
    BY <1>a, <2>1, <2>3 DEF Sound, Alive
  <2> QED
    BY <2>1, <2>2, <2>3, <2>4 DEF Reports, Statuses, v
<1>7. CASE Complete(g)
  <2> DEFINE s == [v EXCEPT !.status = "connected"]
  <2>1. v.acked /\ Reports(g, s) /\ External
    BY <1>7 DEF Complete, v
  <2>2. s \in ServiceState
    BY <1>0 DEF ServiceState, Statuses
  <2>3. /\ s.phase = v.phase /\ s.status = "connected" /\ s.socket = v.socket /\ s.ack = v.ack
        /\ s.echo = v.echo /\ s.retry = v.retry /\ s.acked = v.acked /\ s.intent = v.intent
    BY <1>0 DEF ServiceState
  <2> HIDE DEF s
  <2>4. Sound(s) /\ (Alive(s) => Alive(v)) /\ kind = "gql"
    BY <1>a, <2>1, <2>3 DEF Sound, Alive
  <2> QED
    BY <2>1, <2>2, <2>3, <2>4 DEF Reports, Statuses, v
<1>8. CASE AckTimeout(g)
  <2> DEFINE s == [v EXCEPT !.ack = FALSE, !.status = "error", !.socket = "closing"]
  <2>1. v.ack /\ Reports(g, s) /\ External
    BY <1>8 DEF AckTimeout, v
  <2>2. s \in ServiceState
    BY <1>0 DEF ServiceState, Statuses, Sockets
  <2>3. /\ s.phase = v.phase /\ s.status = "error" /\ s.socket = "closing" /\ ~s.ack
        /\ s.echo = v.echo /\ s.retry = v.retry /\ s.acked = v.acked
    BY <1>0 DEF ServiceState
  <2> HIDE DEF s
  <2>4. Sound(s) /\ (Alive(s) => Alive(v))
    BY <1>a, <2>1, <2>3 DEF Sound, Alive
  <2> QED
    BY <2>1, <2>2, <2>3, <2>4 DEF Reports, Statuses, v
<1>9. CASE RetryFires(g)
  <2>1. v.retry /\ ~v.echo /\ Reports(g, Connect(v)) /\ External
    BY <1>9 DEF RetryFires, AtRest, v
  <2>2. v.phase = "used" /\ v.socket # "connecting"
    BY <1>a, <1>0, <2>1 DEF Sound
  <2> DEFINE s == [Connect(v) EXCEPT !.phase = "used"]
  <2>3. s \in ServiceState /\ Sound(s) /\ s.status \in {"connecting", "error"}
    BY <1>0, <1>a, <2>1, <2>2, Connects
  <2>4. s = Connect(v)
    BY <1>0, <2>2 DEF Connect, Disconnect, ClearsTimers, ServiceState
  <2>5. Alive(v)
    BY <2>1 DEF Alive
  <2> HIDE DEF s
  <2> QED
    BY <2>1, <2>3, <2>4, <2>5 DEF Reports, Statuses, v
<1>10. CASE CutOff(g)
  <2> DEFINE s == [v EXCEPT !.socket = "cut"]
  <2>1. kind = "sse" /\ v.socket = "open" /\ Becomes(g, s) /\ shown' = shown /\ External
    BY <1>10 DEF CutOff, ReportsNothing, v
  <2>2. /\ s \in ServiceState /\ s.socket = "cut"
        /\ s.phase = v.phase /\ s.echo = v.echo /\ s.retry = v.retry /\ s.ack = v.ack
        /\ s.acked = v.acked /\ s.status = v.status /\ s.intent = v.intent
    BY <1>0 DEF ServiceState, Sockets
  <2> HIDE DEF s
  <2>3. Sound(s)
    BY <1>a, <2>1, <2>2 DEF Sound
  <2> QED
    BY <1>0, <2>1, <2>2, <2>3
<1> QED
  BY <1>1, <1>2, <1>3, <1>4, <1>5, <1>6, <1>7, <1>8, <1>9, <1>10 DEF Callback
-----------------------------------------------------------------------------
\* The invariant holds at the start.
LEMMA InvInit == Init => Inv
<1> SUFFICES ASSUME Init PROVE Inv
  OBVIOUS
<1>1. New \in ServiceState /\ Sound(New) /\ ~Alive(New)
  BY DEF New, ServiceState, Statuses, Sockets, Sound, Alive
<1>2. \A g \in Services : svc[g] = New
  BY DEF Init
<1>3. TypeOK
  BY <1>1 DEF Init, TypeOK, Statuses
<1>4. \A g \in Services : Sound(svc[g]) /\ ~Alive(svc[g])
  BY <1>1, <1>2
<1>5. ConnectedIsLive
  BY DEF Init, ConnectedIsLive
<1> QED
  BY <1>3, <1>4, <1>5 DEF Inv

\* A Connect puts a new service in the place of the one the panel knew.
LEMMA ConnectKeepsInv ==
  ASSUME Inv, NEW g \in Services, NEW auto \in BOOLEAN, ConnectClicked(g, auto)
  PROVE  Inv'
<1> DEFINE n == [New EXCEPT !.phase = "awaiting", !.auto = auto]
<1>0. kind \in {"ws", "sse", "gql"} /\ kind' = kind /\ svc \in [Services -> ServiceState]
  BY ConstantsAssumption DEF Inv, TypeOK, ConnectClicked
<1>1. n \in ServiceState /\ Sound(n) /\ n.socket = "none"
  BY DEF New, ServiceState, Statuses, Sockets, Sound
<1> HIDE DEF n
<1>2. svc' = [k \in Services |-> IF k = g THEN n
                                 ELSE IF k = current THEN Disconnect(svc[k]) ELSE svc[k]]
  BY DEF ConnectClicked, n
<1>3. svc'[g] = n /\ svc[g].phase = "new"
  BY <1>2 DEF ConnectClicked
<1>4. \A k \in Services \ {g} : k # current => svc'[k] = svc[k]
  BY <1>2
<1>5. ASSUME NEW k \in Services \ {g}, k = current
      PROVE  svc'[k] = Disconnect(svc[k])
  BY <1>2, <1>5
<1>6. ASSUME NEW k \in Services
      PROVE  svc'[k] \in ServiceState /\ Sound(svc'[k])
  BY <1>0, <1>1, <1>3, <1>4, <1>5, Disconnected DEF Inv
<1>7. \A k \in Services : Sound(svc[k])'
  BY <1>0, <1>6 DEF Sound
<1>8. shown' \in Statuses /\ (shown' = "connected" => current = NoService /\ shown = shown')
  BY DEF ConnectClicked, Inv, TypeOK, Statuses
<1>9. TypeOK'
  <2>1. svc' \in [Services -> ServiceState]
    BY <1>2, <1>6
  <2> QED
    BY <1>8, <2>1 DEF ConnectClicked, Inv, TypeOK
<1>10. ASSUME kind' # "sse", ~raced', NEW k \in Services, Alive(svc'[k])
       PROVE  k = current' /\ wanted'
  <2>1. ~raced /\ ~Awaiting(current) /\ current' = g /\ wanted' = TRUE
    BY <1>10 DEF ConnectClicked, Inv, TypeOK
  <2> SUFFICES ASSUME k # g PROVE FALSE
    BY <2>1
  <2>2. CASE k # current
    BY <1>0, <1>4, <1>10, <2>1, <2>2 DEF Inv
  <2>3. CASE k = current
    <3>1. /\ svc'[k].phase = svc[k].phase /\ ~svc'[k].retry
          /\ svc'[k].socket \in {"none", "closing"}
      BY <1>0, <1>5, <2>3, Disconnected DEF Inv
    <3>2. svc[k].phase # "awaiting"
      BY <2>1, <2>3, ConstantsAssumption DEF Awaiting
    <3> QED
      BY <1>10, <3>1, <3>2 DEF Alive
  <2> QED
    BY <2>2, <2>3
<1>11. ConnectedIsLive'
  <2> SUFFICES ASSUME kind # "gql", shown' = "connected"
               PROVE  \E k \in Services : svc'[k].socket \in {"open", "cut"}
    BY <1>0 DEF ConnectedIsLive
  <2>1. PICK k \in Services : svc[k].socket \in {"open", "cut"}
    BY <1>8 DEF Inv, ConnectedIsLive
  <2>2. k # g
    BY <1>3, <2>1 DEF Inv, Sound
  <2>3. k # current
    BY <1>8, ConstantsAssumption
  <2> QED
    BY <1>4, <2>1, <2>2, <2>3
<1> QED
  BY <1>7, <1>9, <1>10, <1>11 DEF Inv

\* The panel lets go of its service.
LEMMA LeavesKeepsInv ==
  ASSUME Inv, DisconnectClicked \/ ClosePanel
  PROVE  Inv'
<1>0. /\ kind \in {"ws", "sse", "gql"} /\ kind' = kind /\ svc \in [Services -> ServiceState]
      /\ current \in Services /\ Leaves
  BY ConstantsAssumption DEF Inv, TypeOK, DisconnectClicked, ClosePanel, Leaves
<1> DEFINE d == Disconnect(svc[current])
<1>1. /\ d \in ServiceState /\ Sound(d) /\ d.status = "disconnected"
      /\ ~d.retry /\ d.socket \in {"none", "closing"} /\ d.phase = svc[current].phase
  BY <1>0, Disconnected DEF Inv
<1>2. Becomes(current, d) /\ shown' = "disconnected" /\ wanted' = FALSE
  BY <1>0, <1>1 DEF Leaves, Reports
<1> HIDE DEF d
<1>3. /\ svc' \in [Services -> ServiceState]
      /\ \A k \in Services : Sound(svc[k])'
      /\ svc'[current] = d /\ \A k \in Services \ {current} : svc'[k] = svc[k]
  BY <1>0, <1>1, <1>2, StepSound DEF Inv
<1>4. raced' = (raced \/ svc[current].phase = "awaiting")
  BY <1>0, ConstantsAssumption DEF Leaves, Awaiting
<1>5. TypeOK'
  BY <1>0, <1>2, <1>3, <1>4 DEF Inv, TypeOK, DisconnectClicked, ClosePanel, Leaves, Statuses
<1>6. ASSUME kind' # "sse", ~raced', NEW k \in Services, Alive(svc'[k]) PROVE FALSE
  <2>1. ~raced /\ svc[current].phase # "awaiting"
    BY <1>4, <1>6
  <2>2. CASE k = current
    BY <1>1, <1>3, <1>6, <2>1, <2>2 DEF Alive
  <2>3. CASE k # current
    BY <1>0, <1>3, <1>6, <2>1, <2>3 DEF Inv
  <2> QED
    BY <2>2, <2>3
<1> QED
  BY <1>2, <1>3, <1>5, <1>6 DEF Inv, ConnectedIsLive
\* A step of a single service that revives nothing.
LEMMA StepKeepsInv ==
  ASSUME Inv, NEW g \in Services, NEW s \in ServiceState, Sound(s), Becomes(g, s),
         kind' = kind, TypeOK', UNCHANGED <<current, wanted, raced>>,
         kind # "sse" /\ Alive(s) => Alive(svc[g]),
         kind # "gql" /\ shown' = "connected" => s.socket \in {"open", "cut"}
  PROVE  Inv'
<1>1. /\ \A k \in Services : Sound(svc[k])'
      /\ svc'[g] = s /\ \A k \in Services \ {g} : svc'[k] = svc[k]
  BY StepSound DEF Inv
<1>2. ASSUME kind' # "sse", ~raced', NEW k \in Services, Alive(svc'[k])
      PROVE  k = current' /\ wanted'
  <2>1. Alive(svc[k])
    BY <1>1, <1>2
  <2> QED
    BY <1>2, <2>1 DEF Inv
<1>3. ConnectedIsLive'
  BY <1>1 DEF ConnectedIsLive
<1> QED
  BY <1>1, <1>2, <1>3 DEF Inv

\* Every step keeps the invariant.
LEMMA InvStep == Inv /\ [Next]_vars => Inv'
<1> SUFFICES ASSUME Inv, [Next]_vars PROVE Inv'
  OBVIOUS
<1>0. TypeOK /\ kind \in {"ws", "sse", "gql"} /\ svc \in [Services -> ServiceState]
  BY ConstantsAssumption DEF Inv, TypeOK
<1>1. CASE UNCHANGED vars
  <2>1. /\ kind' = kind /\ svc' = svc /\ current' = current /\ shown' = shown
        /\ wanted' = wanted /\ raced' = raced
    BY <1>1 DEF vars
  <2>2. TypeOK'
    BY <1>0, <1>1 DEF vars, TypeOK
  <2>3. \A k \in Services : Sound(svc[k])'
    BY <2>1 DEF Inv, Sound
  <2> QED
    BY <2>1, <2>2, <2>3 DEF Inv, ConnectedIsLive
<1>2. ASSUME NEW g \in Services, NEW auto \in BOOLEAN, ConnectClicked(g, auto) PROVE Inv'
  BY <1>2, ConnectKeepsInv
<1>3. CASE DisconnectClicked \/ ClosePanel
  BY <1>3, LeavesKeepsInv
<1>4. ASSUME NEW g \in Services, CookiesCome(g) PROVE Inv'
  <2>1. svc[g].phase = "awaiting"
    BY <1>4 DEF CookiesCome, Awaiting
  <2>2. ~svc[g].echo /\ svc[g].socket = "none" /\ svc[g] \in ServiceState
    BY <1>0, <2>1 DEF Inv, Sound
  <2>3. PICK b \in {Connect(svc[g]), Refused(svc[g])} :
           Reports(g, [b EXCEPT !.phase = "used"])
    BY <1>4 DEF CookiesCome
  <2> DEFINE s == [b EXCEPT !.phase = "used"]
  <2>4. s \in ServiceState /\ Sound(s) /\ s.status \in {"connecting", "error"}
    BY <1>0, <2>2, <2>3, Connects DEF Inv
  <2>5. Becomes(g, s) /\ shown' = s.status
    BY <2>3 DEF Reports
  <2> HIDE DEF s
  <2>6. svc' \in [Services -> ServiceState] /\ kind' = kind
    BY <1>0, <1>4, <2>4, <2>5 DEF Becomes, CookiesCome
  <2>7. TypeOK' /\ UNCHANGED <<current, wanted, raced>>
    BY <1>0, <1>4, <2>4, <2>5, <2>6 DEF TypeOK, CookiesCome, Statuses
  <2>8. Alive(svc[g])
    BY <2>1 DEF Alive
  <2> QED
    BY <2>4, <2>5, <2>6, <2>7, <2>8, StepKeepsInv
<1>5. ASSUME NEW g \in Services, Callback(g) PROVE Inv'
  <2>1. PICK s \in ServiceState :
            /\ Becomes(g, s) /\ Sound(s)
            /\ kind # "sse" /\ Alive(s) => Alive(svc[g])
            /\ shown' \in Statuses
            /\ kind # "gql" /\ shown' = "connected" => s.socket \in {"open", "cut"}
            /\ External
    BY <1>0, <1>5, CallbackEffect DEF Inv
  <2>2. svc' \in [Services -> ServiceState]
    BY <1>0, <2>1 DEF Becomes
  <2>3. TypeOK' /\ kind' = kind /\ UNCHANGED <<current, wanted, raced>>
    BY <1>0, <2>1, <2>2 DEF TypeOK, External
  <2> QED
    BY <2>1, <2>3, StepKeepsInv
<1> QED
  BY <1>1, <1>2, <1>3, <1>4, <1>5 DEF Next

\* The invariant in every state.
LEMMA Invariance == Spec => []Inv
  BY InvInit, InvStep, PTL DEF Spec

\* Type correctness of the connections of a panel.
THEOREM TypeCorrect == Spec => []TypeOK
<1>1. Inv => TypeOK
  BY DEF Inv
<1> QED
  BY <1>1, Invariance, PTL

\* No WebSocket or subscription but the one last asked for is alive, however many
\* were connected before and whatever their callbacks do.
THEOREM OnlyWantedLive == Spec => []LiveIsWanted
<1>1. Inv => LiveIsWanted
  BY DEF Inv, LiveIsWanted, Live, Alive
<1> QED
  BY <1>1, Invariance, PTL

\* A webview that shows "connected" has an open WebSocket, or an event stream that is
\* open or was cut off without its service being told.  Only the cut, which the code
\* does not listen for, leaves "connected" with nothing behind it; no order of clicks,
\* timers and late reports of earlier services does.
THEOREM ShownConnected == Spec => []ConnectedIsLive
<1>1. Inv => ConnectedIsLive
  BY DEF Inv
<1> QED
  BY <1>1, Invariance, PTL

\* Timers of a service run only in the states of its socket that they are for.
THEOREM TimersAgree == Spec => []TimersMatch
<1>1. Inv => TimersMatch
  BY DEF Inv, TimersMatch, Sound
<1> QED
  BY <1>1, Invariance, PTL
-----------------------------------------------------------------------------
(* The reconnect that is due, and what the webview shows of a WebSocket.   *)

\* A service's status is that of its socket, a cut stream's that of an open one, and a
\* connection whose end it was told of has its reconnect armed, if it reconnects at all.
Fitting(s) ==
    /\ s.status = "connecting" <=> s.socket = "connecting"
    /\ kind # "gql" => (s.status = "connected" <=> s.socket \in {"open", "cut"})
    /\ kind # "gql" /\ s.socket \in {"connecting", "open"} => ~s.intent
    /\ kind = "sse" => ~s.intent /\ s.socket \notin {"closing", "failing", "failed"}
    /\ kind # "gql" /\ s.auto /\ s.socket = "ended" => s.retry

\* Nothing of the service can report any more.
Silent(s) == s.socket = "none" /\ ~s.retry /\ s.phase # "awaiting"

\* Every connection that reconnects, and whose end the service was told of, has its
\* reconnect armed.
EndedIsRetried ==
    \A g \in Services :
        kind \in {"ws", "sse"} /\ svc[g].auto /\ svc[g].socket = "ended" => svc[g].retry

\* The webview of a WebSocket panel shows the status of the service the panel knows,
\* unless the panel moved on while a Connect awaited its cookies.
ShownIsCurrents ==
    kind = "ws" /\ ~raced =>
        shown = IF current = NoService THEN "disconnected" ELSE svc[current].status

FitInv ==
    /\ Inv
    /\ \A g \in Services : Fitting(svc[g])
    /\ kind = "ws" /\ ~raced => \A g \in Services : g # current => Silent(svc[g])
    /\ ShownIsCurrents

\* What disconnect() and connect() make of a fitting service.
LEMMA MethodsFit ==
  ASSUME NEW s \in ServiceState, Sound(s), kind \in {"ws", "sse", "gql"}, Fitting(s)
  PROVE  /\ Fitting(Disconnect(s))
         /\ kind = "ws" => Disconnect(s).socket = "none"
         /\ \A c \in {[Connect(s) EXCEPT !.phase = "used"], [Refused(s) EXCEPT !.phase = "used"]} :
               Fitting(c)
<1> DEFINE d == Disconnect(s)
<1>1. /\ d \in ServiceState /\ d.status = "disconnected" /\ d.auto = s.auto
      /\ d.socket = (IF kind = "gql" /\ s.socket \in {"open", "closing", "failing"}
                     THEN "closing" ELSE "none")
      /\ d.intent = (s.intent \/ (kind # "sse" /\ s.socket # "none"))
  <2>1. d \in ServiceState
    BY Disconnected
  <2> QED
    BY <2>1 DEF Disconnect, ClearsTimers, ServiceState
<1> HIDE DEF d
<1>2. Fitting(d)
  BY <1>1 DEF Fitting
<1>3. ASSUME NEW c, c = [Connect(s) EXCEPT !.phase = "used"] PROVE Fitting(c)
  <2>1. c.status = "connecting" /\ c.socket = "connecting" /\ ~c.intent
    BY <1>1, <1>3 DEF d, Connect, IntentReset, ServiceState
  <2> QED
    BY <2>1 DEF Fitting
<1>4. ASSUME NEW c, c = [Refused(s) EXCEPT !.phase = "used"] PROVE Fitting(c)
  <2>1. c.status = "error" /\ c.socket = d.socket /\ ~c.intent
    BY <1>1, <1>4 DEF d, Refused, ServiceState
  <2> QED
    BY <1>1, <2>1 DEF Fitting
<1> QED
  BY <1>1, <1>2, <1>3, <1>4 DEF d

\* A callback leaves its service fitting, and only one that is not silent has any.
LEMMA CallbackFits ==
  ASSUME TypeOK, kind \in {"ws", "sse", "gql"}, NEW g \in Services,
         Sound(svc[g]), Fitting(svc[g]), Callback(g)
  PROVE  \E s \in ServiceState :
            /\ Becomes(g, s) /\ Fitting(s) /\ External
            /\ kind = "ws" => shown' = s.status /\ ~Silent(svc[g])
<1> DEFINE v == svc[g]
<1>0. v \in ServiceState
  BY DEF TypeOK
<1> HIDE DEF v
<1>a. Sound(v) /\ Fitting(v)
  BY DEF v
<1>b. ASSUME NEW s \in ServiceState, Reports(g, s), Fitting(s), External,
             kind = "ws" => ~Silent(v)
      PROVE  \E t \in ServiceState :
                /\ Becomes(g, t) /\ Fitting(t) /\ External
                /\ kind = "ws" => shown' = t.status /\ ~Silent(v)
  BY <1>b DEF Reports
<1>1. CASE Opened(g)
  <2> DEFINE s == [v EXCEPT !.socket = "open", !.status = "connected", !.ack = kind = "gql"]
  <2>1. v.socket = "connecting" /\ Reports(g, s) /\ External
    BY <1>1 DEF Opened, v
  <2>2. /\ s \in ServiceState /\ s.socket = "open" /\ s.status = "connected"
        /\ s.auto = v.auto /\ s.intent = v.intent /\ s.retry = v.retry
    BY <1>0 DEF ServiceState, Sockets, Statuses
  <2> HIDE DEF s
  <2>3. Fitting(s) /\ ~Silent(v)
    BY <1>a, <2>1, <2>2 DEF Fitting, Silent
  <2> QED
    BY <1>b, <2>1, <2>2, <2>3 DEF v
<1>2. CASE BadStatus(g)
  <2> DEFINE s == [v EXCEPT !.socket = "none", !.status = "error"]
  <2>1. kind = "sse" /\ Reports(g, s) /\ External
    BY <1>2 DEF BadStatus, v
  <2>2. /\ s \in ServiceState /\ s.socket = "none" /\ s.status = "error"
        /\ s.auto = v.auto /\ s.intent = v.intent /\ s.retry = v.retry
    BY <1>0 DEF ServiceState, Sockets, Statuses
  <2> HIDE DEF s
  <2>3. Fitting(s)
    BY <1>a, <2>1, <2>2 DEF Fitting
  <2> QED
    BY <1>b, <2>1, <2>2, <2>3 DEF v
<1>3. CASE Ended(g)
  <2> DEFINE e == EndedSocket(v)
             s == IF kind = "gql" /\ e.intent THEN e ELSE IF e.intent THEN e ELSE Retries(e)
  <2>1. /\ e \in ServiceState
        /\ e.socket = IF v.socket = "failing" THEN "failed" ELSE "ended"
        /\ e.intent = v.intent /\ e.retry = v.retry /\ e.auto = v.auto
        /\ e.status = IF kind = "gql" /\ v.intent THEN v.status ELSE "disconnected"
    BY <1>0 DEF EndedSocket, ServiceState, Sockets, Statuses
  <2> HIDE DEF e
  <2>2. /\ s \in ServiceState
        /\ s.socket = e.socket /\ s.intent = e.intent /\ s.auto = e.auto /\ s.status = e.status
        /\ kind # "gql" /\ ~e.intent /\ e.auto => s.retry
    BY <2>1 DEF Retries, ServiceState
  <2>3. v.socket \in {"open", "closing", "failing"} /\ Becomes(g, s) /\ External
    BY <1>3 DEF Ended, Reports, ReportsNothing, v, e
  <2>4. kind # "gql" => shown' = s.status
    BY <1>3 DEF Ended, Reports, ReportsNothing, v, e
  <2> HIDE DEF s
  <2>5. v.status # "connecting"
    BY <1>a, <2>3 DEF Fitting
  <2>6. kind = "ws" /\ v.socket # "failing" => ~v.intent
    BY <1>a, <2>3 DEF Fitting, Sound
  <2>7. Fitting(s)
    BY <1>a, <2>1, <2>2, <2>3, <2>5, <2>6 DEF Fitting
  <2>8. ~Silent(v)
    BY <2>3 DEF Silent
  <2> QED
    BY <2>2, <2>3, <2>4, <2>7, <2>8 DEF v
<1>4. CASE Failed(g)
  <2> DEFINE s == FailedSocket(v)
  <2>1. v.socket \in {"connecting", "open", "closing"} /\ Reports(g, s) /\ External
    BY <1>4 DEF Failed, v
  <2>2. /\ s \in ServiceState /\ s.status = "error"
        /\ s.socket = IF kind = "sse" THEN "none" ELSE "failing"
        /\ kind = "sse" => s.intent = v.intent
    BY <1>0 DEF FailedSocket, Retries, ServiceState, Sockets, Statuses
  <2> HIDE DEF s
  <2>3. Fitting(s) /\ ~Silent(v)
    BY <1>a, <2>1, <2>2 DEF Fitting, Silent
  <2> QED
    BY <1>b, <2>1, <2>2, <2>3 DEF v
<1>5. CASE Echo(g)
  <2> DEFINE s == Retries([v EXCEPT !.echo = FALSE, !.status = "error", !.ack = FALSE])
  <2>1. v.echo /\ Reports(g, s) /\ External
    BY <1>5 DEF Echo, v
  <2>2. /\ s \in ServiceState /\ s.status = "error" /\ s.socket = v.socket
        /\ s.intent = v.intent
    BY <1>0 DEF Retries, ServiceState, Sockets, Statuses
  <2> HIDE DEF s
  <2>3. Fitting(s) /\ kind # "ws"
    BY <1>a, <2>1, <2>2 DEF Fitting, Sound
  <2> QED
    BY <1>b, <2>1, <2>2, <2>3 DEF v
<1>6. CASE Ack(g)
  <2> DEFINE s == [v EXCEPT !.acked = TRUE, !.ack = FALSE, !.status = "subscribed"]
  <2>1. kind = "gql" /\ v.socket \in {"open", "closing"} /\ Reports(g, s) /\ External
    BY <1>6 DEF Ack, v
  <2>2. s \in ServiceState /\ s.status = "subscribed" /\ s.socket = v.socket
    BY <1>0 DEF ServiceState, Statuses
  <2> HIDE DEF s
  <2>3. Fitting(s)
    BY <2>1, <2>2 DEF Fitting
  <2> QED
    BY <1>b, <2>1, <2>2, <2>3 DEF v
<1>7. CASE Complete(g)
  <2> DEFINE s == [v EXCEPT !.status = "connected"]
  <2>1. v.acked /\ v.socket \in {"open", "closing"} /\ Reports(g, s) /\ External
    BY <1>7 DEF Complete, v
  <2>2. s \in ServiceState /\ s.status = "connected" /\ s.socket = v.socket
    BY <1>0 DEF ServiceState, Statuses
  <2> HIDE DEF s
  <2>3. Fitting(s) /\ kind = "gql"
    BY <1>a, <2>1, <2>2 DEF Fitting, Sound
  <2> QED
    BY <1>b, <2>1, <2>2, <2>3 DEF v
<1>8. CASE AckTimeout(g)
  <2> DEFINE s == [v EXCEPT !.ack = FALSE, !.status = "error", !.socket = "closing"]
  <2>1. v.ack /\ Reports(g, s) /\ External
    BY <1>8 DEF AckTimeout, v
  <2>2. s \in ServiceState /\ s.status = "error" /\ s.socket = "closing"
    BY <1>0 DEF ServiceState, Statuses, Sockets
  <2> HIDE DEF s
  <2>3. Fitting(s) /\ kind = "gql"
    BY <1>a, <2>1, <2>2 DEF Fitting, Sound
  <2> QED
    BY <1>b, <2>1, <2>2, <2>3 DEF v
<1>9. CASE RetryFires(g)
  <2>1. v.retry /\ ~v.echo /\ Reports(g, Connect(v)) /\ External
    BY <1>9 DEF RetryFires, AtRest, v
  <2>2. v.phase = "used" /\ v.socket # "connecting"
    BY <1>a, <1>0, <2>1 DEF Sound
  <2> DEFINE s == [Connect(v) EXCEPT !.phase = "used"]
  <2>3. s \in ServiceState /\ Fitting(s)
    BY <1>0, <1>a, <2>1, <2>2, Connects, MethodsFit
  <2>4. s = Connect(v)
    BY <1>0, <2>2 DEF Connect, Disconnect, ClearsTimers, ServiceState
  <2>5. ~Silent(v)
    BY <2>1 DEF Silent
  <2> HIDE DEF s
  <2> QED
    BY <1>b, <2>1, <2>3, <2>4, <2>5 DEF v
<1>10. CASE CutOff(g)
  <2> DEFINE s == [v EXCEPT !.socket = "cut"]
  <2>1. kind = "sse" /\ v.socket = "open" /\ Becomes(g, s) /\ shown' = shown /\ External
    BY <1>10 DEF CutOff, ReportsNothing, v
  <2>2. /\ s \in ServiceState /\ s.socket = "cut"
        /\ s.phase = v.phase /\ s.echo = v.echo /\ s.retry = v.retry /\ s.ack = v.ack
        /\ s.acked = v.acked /\ s.status = v.status /\ s.intent = v.intent
    BY <1>0 DEF ServiceState, Sockets
  <2> HIDE DEF s
  <2>3. Fitting(s)
    BY <1>a, <2>1, <2>2 DEF Fitting
  <2> QED
    BY <2>1, <2>2, <2>3 DEF v
<1> QED
  BY <1>1, <1>2, <1>3, <1>4, <1>5, <1>6, <1>7, <1>8, <1>9, <1>10 DEF Callback

\* A step of one service, which is the panel's when it is a WebSocket.
LEMMA StepFits ==
  ASSUME FitInv, Inv', NEW g \in Services, NEW s \in ServiceState, Becomes(g, s), Fitting(s),
         UNCHANGED <<kind, current, raced>>,
         kind = "ws" => shown' = s.status /\ ~Silent(svc[g])
  PROVE  FitInv'
<1>1. /\ svc'[g] = s /\ \A k \in Services \ {g} : svc'[k] = svc[k]
      /\ g # NoService
  BY ConstantsAssumption DEF FitInv, Inv, TypeOK, Becomes
<1>2. \A k \in Services : Fitting(svc[k])'
  BY <1>1 DEF FitInv, Fitting
<1>3. ASSUME kind' = "ws", ~raced'
      PROVE  g = current /\ \A k \in Services : k # current' => Silent(svc[k])'
  BY <1>1, <1>3 DEF FitInv, Silent
<1>4. ShownIsCurrents'
  BY <1>1, <1>3 DEF ShownIsCurrents
<1> QED
  BY <1>2, <1>3, <1>4 DEF FitInv

LEMMA FitInitially == Init => FitInv
<1> SUFFICES ASSUME Init PROVE FitInv
  OBVIOUS
<1>1. Fitting(New) /\ Silent(New)
  BY DEF New, Fitting, Silent
<1>2. \A g \in Services : svc[g] = New
  BY DEF Init
<1> QED
  BY <1>1, <1>2, InvInit DEF FitInv, ShownIsCurrents, Init

LEMMA FitStep == FitInv /\ Inv' /\ [Next]_vars => FitInv'
<1> SUFFICES ASSUME FitInv, Inv', [Next]_vars PROVE FitInv'
  OBVIOUS
<1>0. /\ TypeOK /\ kind \in {"ws", "sse", "gql"} /\ svc \in [Services -> ServiceState]
      /\ \A g \in Services : Sound(svc[g]) /\ Fitting(svc[g])
      /\ NoService \notin Services
  BY ConstantsAssumption DEF FitInv, Inv, TypeOK
<1>1. CASE UNCHANGED vars
  BY <1>1 DEF vars, FitInv, Fitting, Silent, ShownIsCurrents
<1>2. ASSUME NEW g \in Services, NEW auto \in BOOLEAN, ConnectClicked(g, auto) PROVE FitInv'
  <2> DEFINE n == [New EXCEPT !.phase = "awaiting", !.auto = auto]
  <2>1. n.status = "disconnected" /\ n.socket = "none" /\ ~n.intent
    BY DEF New
  <2> HIDE DEF n
  <2>2. Fitting(n)
    BY <2>1 DEF Fitting
  <2>3. svc' = [k \in Services |-> IF k = g THEN n
                                   ELSE IF k = current THEN Disconnect(svc[k]) ELSE svc[k]]
    BY <1>2 DEF ConnectClicked, n
  <2>4. /\ svc'[g] = n /\ kind' = kind /\ current' = g
        /\ \A k \in Services \ {g} : svc'[k] = IF k = current THEN Disconnect(svc[k]) ELSE svc[k]
    BY <1>2, <2>3 DEF ConnectClicked
  <2>5. ASSUME NEW k \in Services PROVE Fitting(svc[k])'
    <3>1. Fitting(svc'[k])
      BY <1>0, <2>2, <2>4, MethodsFit
    <3> QED
      BY <2>4, <3>1 DEF Fitting
  <2>6. ASSUME kind' = "ws", ~raced', NEW k \in Services, k # current' PROVE Silent(svc[k])'
    <3>1. ~raced /\ ~Awaiting(current)
      BY <1>2, <2>6 DEF ConnectClicked, FitInv, Inv, TypeOK
    <3>2. CASE k # current
      BY <2>4, <2>6, <3>1, <3>2 DEF FitInv, Silent
    <3>3. CASE k = current
      <4>1. svc[k].phase # "awaiting"
        BY <1>0, <3>1, <3>3 DEF Awaiting
      <4>2. svc'[k] = Disconnect(svc[k])
        BY <2>4, <2>6, <3>3
      <4>3. svc'[k].phase = svc[k].phase /\ ~svc'[k].retry /\ svc'[k].socket = "none"
        <5>1. /\ Disconnect(svc[k]).phase = svc[k].phase /\ ~Disconnect(svc[k]).retry
              /\ kind = "ws" => Disconnect(svc[k]).socket = "none"
          BY <1>0, Disconnected, MethodsFit
        <5> QED
          BY <2>4, <2>6, <4>2, <5>1
      <4> QED
        BY <4>1, <4>3 DEF Silent
    <3> QED
      BY <3>2, <3>3
  <2>7. ASSUME kind' = "ws", ~raced' PROVE shown' = "disconnected"
    BY <1>2, <2>4, <2>7 DEF ConnectClicked, FitInv, ShownIsCurrents, Inv, TypeOK
  <2>8. ShownIsCurrents'
    BY <1>0, <2>1, <2>4, <2>7 DEF ShownIsCurrents
  <2> QED
    BY <2>5, <2>6, <2>8 DEF FitInv
<1>3. CASE DisconnectClicked \/ ClosePanel
  <2>1. /\ kind' = kind /\ current \in Services /\ Leaves
        /\ current' = current \/ current' = NoService
    BY <1>0, <1>3 DEF TypeOK, DisconnectClicked, ClosePanel, Leaves
  <2> DEFINE d == Disconnect(svc[current])
  <2>2. /\ d \in ServiceState /\ Fitting(d) /\ d.status = "disconnected" /\ ~d.retry
        /\ d.phase = svc[current].phase /\ (kind = "ws" => d.socket = "none")
    BY <1>0, <2>1, Disconnected, MethodsFit
  <2>3. svc' = [svc EXCEPT ![current] = d] /\ shown' = "disconnected"
    BY <2>1, <2>2 DEF Leaves, Reports, Becomes
  <2> HIDE DEF d
  <2>4. svc'[current] = d /\ \A k \in Services \ {current} : svc'[k] = svc[k]
    BY <1>0, <2>1, <2>3
  <2>5. raced' = (raced \/ svc[current].phase = "awaiting")
    BY <1>0, <2>1 DEF Leaves, Awaiting
  <2>6. \A k \in Services : Fitting(svc[k])'
    BY <1>0, <2>1, <2>2, <2>4 DEF Fitting
  <2>7. ASSUME kind' = "ws", ~raced', NEW k \in Services PROVE Silent(svc[k])'
    <3>1. ~raced /\ svc[current].phase # "awaiting"
      BY <2>5, <2>7
    <3> QED
      BY <2>1, <2>2, <2>4, <2>7, <3>1 DEF FitInv, Silent
  <2>8. ShownIsCurrents'
    BY <2>1, <2>2, <2>3, <2>4 DEF ShownIsCurrents
  <2> QED
    BY <2>6, <2>7, <2>8 DEF FitInv
<1>4. ASSUME NEW g \in Services, CookiesCome(g) PROVE FitInv'
  <2>1. svc[g].phase = "awaiting" /\ UNCHANGED <<kind, current, raced>>
    BY <1>4 DEF CookiesCome, Awaiting
  <2>2. ~svc[g].echo /\ svc[g].socket = "none" /\ ~Silent(svc[g])
    BY <1>0, <2>1 DEF Sound, Silent
  <2>3. PICK b \in {Connect(svc[g]), Refused(svc[g])} :
           Reports(g, [b EXCEPT !.phase = "used"])
    BY <1>4 DEF CookiesCome
  <2> DEFINE s == [b EXCEPT !.phase = "used"]
  <2>4. s \in ServiceState /\ Fitting(s)
    BY <1>0, <2>2, <2>3, Connects, MethodsFit
  <2>5. Becomes(g, s) /\ shown' = s.status
    BY <2>3 DEF Reports
  <2> HIDE DEF s
  <2> QED
    BY <2>1, <2>2, <2>4, <2>5, StepFits
<1>5. ASSUME NEW g \in Services, Callback(g) PROVE FitInv'
  <2>1. PICK s \in ServiceState :
            /\ Becomes(g, s) /\ Fitting(s) /\ External
            /\ kind = "ws" => shown' = s.status /\ ~Silent(svc[g])
    BY <1>0, <1>5, CallbackFits
  <2>2. UNCHANGED <<kind, current, raced>>
    BY <2>1 DEF External
  <2> QED
    BY <2>1, <2>2, StepFits
<1> QED
  BY <1>1, <1>2, <1>3, <1>4, <1>5 DEF Next

LEMMA FitAlways == Spec => []FitInv
  BY Invariance, FitInitially, FitStep, PTL DEF Spec

\* However often the server closes a WebSocket that reconnects, or sends the end of an
\* event stream that does, the reconnect is armed at that moment and stays so until it
\* fires or the user steps in: what ServerEndReconnects needs of the code, the timer's
\* fairness apart.  A stream that was cut off is not "ended" and is never retried:
\* StreamEndReconnects.
THEOREM EndedAlwaysRetried == Spec => []EndedIsRetried
<1>1. FitInv => EndedIsRetried
  BY DEF FitInv, EndedIsRetried, Fitting
<1> QED
  BY <1>1, FitAlways, PTL

\* The webview of a WebSocket panel is never left with the status of an earlier
\* connection: what it shows is the status of the service the panel knows.
THEOREM ShownAlwaysCurrents == Spec => []ShownIsCurrents
<1>1. FitInv => ShownIsCurrents
  BY DEF FitInv
<1> QED
  BY <1>1, FitAlways, PTL
=============================================================================
