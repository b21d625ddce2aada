--------------------------- MODULE StreamConnections ---------------------------
(***************************************************************************)
(* The WebSocket, SSE or GraphQL subscription connection of a request      *)
(* panel of the extension.  Every Connect makes a new service object; the  *)
(* services of earlier connects live on as long as a callback or a timer   *)
(* of theirs is left, and all of them report to the same webview.          *)
(*                                                                         *)
(* kind is the panel's connection mode, which decides the class of its     *)
(* services.  The socket of a service is what the callbacks can tell of    *)
(* it.  A library reports a connect that is broken off as an error in the  *)
(* same turn of the event loop (echo), before anything else can happen.    *)
(* Messages and their contents are left out, but for the two that change   *)
(* the status of a subscription.  An unused definition is the form a       *)
(* plausible mistake would give the one after it.                          *)
(***************************************************************************)
CONSTANTS Kinds,      \* the modes looked at: a subset of "ws", "sse" and "gql"
          Services,   \* the service objects of the panel, one per Connect
          NoService   \* undefined

ASSUME ConstantsAssumption ==
    /\ Kinds \subseteq {"ws", "sse", "gql"}
    /\ NoService \notin Services

VARIABLES
    kind,       \* the connection mode of the panel
    panel,      \* is the panel open
    current,    \* the service the panel knows
    svc,        \* per service: its fields and its socket
    jarLoaded,  \* the cookie jar is in memory
    shown,      \* the status the webview shows
    wanted,     \* history: the user's last click was Connect
    raced       \* history: the panel moved on while a Connect awaited its cookies

vars == <<kind, panel, current, svc, jarLoaded, shown, wanted, raced>>

Statuses == {"disconnected", "connecting", "connected", "subscribed", "error"}
\* "cut" is an event stream whose end the service was not told of.
Sockets == {"none", "connecting", "open", "cut", "closing", "failing", "ended", "failed"}
ServiceState ==
    [phase: {"new", "awaiting", "used"}, auto: BOOLEAN, status: Statuses,
     socket: Sockets,
     echo: BOOLEAN,     \* the library will report the broken-off connect
     intent: BOOLEAN,   \* intentionalDisconnect, intentionalClose
     retry: BOOLEAN,    \* reconnectTimer
     ack: BOOLEAN,      \* ackTimer
     acked: BOOLEAN]    \* the server has acknowledged the subscription socket
New == [phase |-> "new", auto |-> FALSE, status |-> "disconnected", socket |-> "none",
        echo |-> FALSE, intent |-> FALSE, retry |-> FALSE, ack |-> FALSE, acked |-> FALSE]

Init ==
    /\ kind \in Kinds
    /\ panel = TRUE
    /\ current = NoService
    /\ svc = [g \in Services |-> New]
    /\ jarLoaded \in BOOLEAN
    /\ shown = "disconnected"
    /\ wanted = FALSE
    /\ raced = FALSE

Awaiting(g) == g # NoService /\ svc[g].phase = "awaiting"

\* The event loop turns: no callback of this turn is left, and no awaited promise
\* that is resolved already.
AtRest == \A g \in Services : ~svc[g].echo /\ ~(jarLoaded /\ Awaiting(g))

----------------------------------------------------------------------------
(* The methods of the services *)

KeepsTimer(s) == [s EXCEPT !.ack = FALSE]
ClearsTimers(s) == [s EXCEPT !.retry = FALSE, !.ack = FALSE]

\* disconnect().  A WebSocket is silenced before it is terminated; the other two
\* keep their listeners.  A socket that connects is broken off, an open subscription
\* socket starts the closing handshake.  A WebSocket that connects, terminated without
\* listeners, emits an error that nobody handles; that changes nothing here.
Disconnect(s) ==
    [ClearsTimers(s) EXCEPT
        !.status = "disconnected",
        !.intent = @ \/ (kind # "sse" /\ s.socket # "none"),
        !.socket = IF kind = "gql" /\ s.socket \in {"open", "closing", "failing"}
                   THEN "closing" ELSE "none",
        !.echo = @ \/ (kind # "ws" /\ s.socket = "connecting")]

IntentKept(s) == s.intent
IntentReset(s) == FALSE

\* connect() and subscribe(); a URL that cannot be used is an error at once.
Connect(s) ==
    [Disconnect(s) EXCEPT !.status = "connecting", !.socket = "connecting",
                          !.intent = IntentReset(Disconnect(s)), !.acked = FALSE]
Refused(s) == [Disconnect(s) EXCEPT !.status = "error", !.intent = FALSE]

\* scheduleReconnect, for the modes that have it.
Retries(s) == [s EXCEPT !.retry = @ \/ (s.auto /\ kind \in {"ws", "sse"})]

Becomes(g, s) == svc' = [svc EXCEPT ![g] = s]
ReportsSocket(g, s) == Becomes(g, s) /\ shown' = s.socket
\* A status is reported to the webview.
Reports(g, s) == Becomes(g, s) /\ shown' = s.status
ReportsNothing(g, s) == Becomes(g, s) /\ UNCHANGED shown

----------------------------------------------------------------------------
(* The user *)

\* handleWsConnect and its like: the service the panel knew is disconnected, a new
\* one takes its place and awaits the cookies.
ConnectClicked(g, auto) ==
    /\ AtRest /\ panel
    /\ svc[g].phase = "new"
    /\ kind = "gql" => ~auto
    /\ svc' = [k \in Services |->
                 IF k = g THEN [New EXCEPT !.phase = "awaiting", !.auto = auto]
                 ELSE IF k = current THEN Disconnect(svc[k]) ELSE svc[k]]
    /\ shown' = IF current = NoService THEN shown ELSE "disconnected"
    /\ current' = g
    /\ wanted' = TRUE
    /\ raced' = (raced \/ Awaiting(current))
    /\ UNCHANGED <<kind, panel, jarLoaded>>

\* The cookies have come, and the service connects, whatever happened meanwhile.  (A
\* Cookie header of the request's own skips the jar, and the await returns at once.)
CookiesCome(g) ==
    /\ Awaiting(g)
    /\ \E s \in {Connect(svc[g]), Refused(svc[g])} :
          Reports(g, [s EXCEPT !.phase = "used"])
    /\ jarLoaded' = TRUE
    /\ UNCHANGED <<kind, panel, current, wanted, raced>>

Leaves ==
    /\ AtRest /\ panel /\ current # NoService
    /\ Reports(current, Disconnect(svc[current]))
    /\ wanted' = FALSE
    /\ raced' = (raced \/ Awaiting(current))
    /\ UNCHANGED <<kind, jarLoaded>>

DisconnectClicked == Leaves /\ UNCHANGED <<panel, current>>

ClosePanel == Leaves /\ panel' = FALSE /\ current' = NoService

----------------------------------------------------------------------------
(* Callbacks and timers of a service *)

External == UNCHANGED <<kind, panel, current, jarLoaded, wanted, raced>>

Opened(g) ==
    /\ AtRest
    /\ svc[g].socket = "connecting"
    /\ Reports(g, [svc[g] EXCEPT !.socket = "open", !.status = "connected",
                                 !.ack = kind = "gql"])
    /\ External

\* Any answer but 200 ends an event stream before it starts.
BadStatus(g) ==
    /\ AtRest
    /\ kind = "sse" /\ svc[g].socket = "connecting"
    /\ Reports(g, [svc[g] EXCEPT !.socket = "none", !.status = "error"])
    /\ External

EndsUnreported(s) == [s EXCEPT !.socket = "ended"]

\* The socket closes by itself, or the closing handshake is over; an event stream gets
\* its last chunk.
EndedSocket(s) ==
    [s EXCEPT !.socket = IF @ = "failing" THEN "failed" ELSE "ended",
              !.status = IF kind = "gql" /\ s.intent THEN @ ELSE "disconnected",
              !.ack = FALSE]

Ended(g) ==
    LET s == EndedSocket(svc[g]) IN
    /\ AtRest
    /\ svc[g].socket \in {"open", "closing", "failing"}
    /\ IF kind = "gql" /\ s.intent THEN ReportsNothing(g, s)
       ELSE Reports(g, IF s.intent THEN s ELSE Retries(s))
    /\ External

\* The server breaks a stream off in the middle of its response: only the response
\* tells of it (aborted, error, close), and nobody listens.
CutOff(g) ==
    /\ AtRest
    /\ kind = "sse" /\ svc[g].socket = "open"
    /\ ReportsNothing(g, [svc[g] EXCEPT !.socket = "cut"])
    /\ External

FailsUnmarked(s) ==
    IF kind = "sse" THEN Retries([s EXCEPT !.socket = "none", !.status = "error"])
    ELSE [s EXCEPT !.socket = "failing", !.status = "error", !.ack = FALSE]

\* The error handlers.  A WebSocket or subscription socket still reports its close.  An
\* error of an open event stream's socket reaches the request, and else is CutOff.
FailedSocket(s) ==
    IF kind = "sse" THEN Retries([s EXCEPT !.socket = "none", !.status = "error"])
    ELSE [s EXCEPT !.socket = "failing", !.status = "error", !.ack = FALSE,
                   !.intent = @ \/ kind = "ws"]

Failed(g) ==
    /\ AtRest
    /\ svc[g].socket \in {"connecting", "open", "closing"}
    /\ Reports(g, FailedSocket(svc[g]))
    /\ External

\* The error of the connect that disconnect() broke off.
Echo(g) ==
    /\ svc[g].echo
    /\ Reports(g, Retries([svc[g] EXCEPT !.echo = FALSE, !.status = "error", !.ack = FALSE]))
    /\ External

\* The server's acknowledgement; it may also come during the closing handshake.
Ack(g) ==
    /\ AtRest
    /\ kind = "gql" /\ svc[g].socket \in {"open", "closing"} /\ ~svc[g].acked
    /\ Reports(g, [svc[g] EXCEPT !.acked = TRUE, !.ack = FALSE, !.status = "subscribed"])
    /\ External

Complete(g) ==
    /\ AtRest
    /\ svc[g].socket \in {"open", "closing"} /\ svc[g].acked
    /\ Reports(g, [svc[g] EXCEPT !.status = "connected"])
    /\ External

AckTimeout(g) ==
    /\ AtRest
    /\ svc[g].ack
    /\ Reports(g, [svc[g] EXCEPT !.ack = FALSE, !.status = "error", !.socket = "closing"])
    /\ External

RetryFires(g) ==
    /\ AtRest
    /\ svc[g].retry
    /\ Reports(g, Connect(svc[g]))
    /\ External

Callback(g) ==
    \/ Opened(g) \/ BadStatus(g) \/ Ended(g) \/ CutOff(g) \/ Failed(g) \/ Echo(g)
    \/ Ack(g) \/ Complete(g) \/ AckTimeout(g) \/ RetryFires(g)

Next ==
    \/ \E g \in Services :
          \/ \E auto \in BOOLEAN : ConnectClicked(g, auto)
          \/ CookiesCome(g)
          \/ Callback(g)
    \/ DisconnectClicked
    \/ ClosePanel

\* The event loop: promises settle, callbacks of the turn run, timers fire.
Fairness == \A g \in Services :
    WF_vars(CookiesCome(g)) /\ WF_vars(Echo(g)) /\ WF_vars(RetryFires(g))

Spec == Init /\ [][Next]_vars /\ Fairness

----------------------------------------------------------------------------
(* Properties *)

TypeOK ==
    /\ kind \in Kinds
    /\ panel \in BOOLEAN /\ jarLoaded \in BOOLEAN /\ wanted \in BOOLEAN /\ raced \in BOOLEAN
    /\ current \in Services \cup {NoService}
    /\ svc \in [Services -> ServiceState]
    /\ shown \in Statuses

Live(g) == svc[g].retry \/ svc[g].socket \in {"connecting", "open"}

\* Of a panel's WebSockets and subscriptions, only the one of the last Connect is
\* alive or will be, and none once the user has left, unless the panel moved on
\* while a Connect still awaited its cookies.
LiveIsWanted ==
    kind # "sse" /\ ~raced => \A g \in Services : Live(g) => g = current /\ wanted

\* A webview that shows "connected" has some connection open, whatever earlier
\* services still report, or has an event stream that was cut off without its service
\* being told.
ConnectedIsLive ==
    kind # "gql" /\ shown = "connected" =>
        \E g \in Services : svc[g].socket \in {"open", "cut"}

\* A reconnect waits only where nothing is connected, after an error of a WebSocket
\* never; the acknowledgement timer, which closes the socket, runs only while the
\* acknowledgement is missing.
TimersMatch ==
    \A g \in Services :
        /\ svc[g].retry => /\ svc[g].socket \notin {"connecting", "open"}
                           /\ kind = "ws" => svc[g].socket = "ended"
        /\ svc[g].ack => svc[g].socket = "open" /\ ~svc[g].acked

\* The panel connects again unless the user steps in.
ConnectsAgain(g) == svc[g].socket = "connecting" \/ current # g \/ ~wanted

\* Each time the server closes a connection that reconnects, and the close or the end
\* of the response is reported, the panel connects again.
ServerEndReconnects ==
    \A g \in Services :
        (current = g /\ svc[g].auto /\ svc[g].socket = "ended") ~> ConnectsAgain(g)

\* sse.md:48, an event stream reconnects when "The stream ends or a network error
\* occurs": however the stream is over, its last chunk received or not.
StreamEndReconnects ==
    \A g \in Services :
        (current = g /\ svc[g].auto /\ svc[g].socket \in {"ended", "cut"}) ~> ConnectsAgain(g)
=============================================================================
