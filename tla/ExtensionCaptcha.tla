-------------------------- MODULE ExtensionCaptcha --------------------------
(***************************************************************************)
(* Captcha tokens from the operator's own browsers: the connections and    *)
(* pending requests of src/services/browser_captcha_extension.py, the      *)
(* WebSocket endpoint of src/api/routes.py, and the extension's side of it *)
(* (extension/background.js), on top of ExtensionPairing.                  *)
(*                                                                         *)
(* A browser has one current socket and works on one request at a time.    *)
(* Between connectWS's look at the current socket and the new socket it    *)
(* makes lies the reading of the settings; a pairing calls connectWS       *)
(* twice.  The two ends of a socket notice on their own that its link is   *)
(* down.                                                                   *)
(***************************************************************************)
EXTENDS ExtensionPairing, Sequences, SequencesExt

CONSTANTS Browsers,    \* running copies of the extension
          Sockets,     \* bound: WebSockets that exist at once
          Callers,     \* generation requests in need of a token
          RouteOf,     \* the instance whose route key each caller's account has
          Admin,       \* the administrator, as a process that revokes
          MaxMoves     \* bound: lost links, restarts, lapses, failed writes

ASSUME ExtensionAssumption ==
    /\ RouteOf \in [Callers -> Instances]
    /\ MaxMoves \in Nat
    /\ NoOne \notin Browsers \cup Sockets \cup Callers \cup {Admin}
    /\ Browsers \cap Sockets = {} /\ Admin \notin Browsers \cup Sockets

VARIABLES browser,  \* per browser: its session, its current socket ws, its queue,
                    \* the handle it exchanges (pairing), the sessions that calls
                    \* of connectWS have read and open a socket with next
                    \* (dialling), whether the pairing calls connectWS once more
                    \* (again), and whether reconnectTimeout is set (timer)
          socket,   \* per socket: the server's side of it, and its link
          conns,    \* active_connections, oldest first
          call,     \* the coroutine get_token of each caller
          pending,  \* callers whose req_id is in pending_requests
          wire,     \* answers on their way to the server
          revoking, \* the revocation under way: its session, was it in memory
          moves

netVars == <<browser, socket, conns>>
callVars == <<call, pending, wire>>
extVars == <<pairingVars, netVars, callVars, revoking, moves>>

\* A socket that is closed, or was never opened.
Shut == [pc |-> "shut", of |-> NoOne, key |-> NoOne, link |-> FALSE]

Moves == moves < MaxMoves /\ moves' = moves + 1

----------------------------------------------------------------------------
(***************************************************************************)
(* Pairing a browser.                                                      *)
(***************************************************************************)
\* connectWS: without an open socket the settings are read.
Dials(it) == IF it.ws = NoOne THEN [it EXCEPT !.dialling = Append(@, it.session)] ELSE it

\* closeSocket lets go of the current socket, and connectWS is called.
ClosesAndDials(b, it) ==
    /\ browser' = [browser EXCEPT ![b] = Dials([it EXCEPT !.ws = NoOne, !.timer = FALSE])]
    /\ socket' = [w \in Sockets |-> IF w = browser[b].ws
                                    THEN [socket[w] EXCEPT !.link = FALSE] ELSE socket[w]]

IssueHandle(h) ==
    /\ Issue(h)
    /\ UNCHANGED <<netVars, callVars, revoking, moves>>

\* exchangePairingHandle, with a handle the browser's bootstrap file names.
Pair(b, h) ==
    /\ browser[b].pairing = NoOne /\ browser[b].session # h /\ ~browser[b].again
    /\ h \in issued
    /\ ExchangeTakes(b, h)
    /\ browser' = [browser EXCEPT ![b].pairing = h]
    /\ UNCHANGED <<socket, conns, callVars, revoking, moves>>

PairRefused(b, h) ==
    /\ browser[b].pairing = NoOne /\ browser[b].session # h
    /\ h \in pairings
    /\ ExchangeRefused(h)
    /\ UNCHANGED <<netVars, callVars, revoking, moves>>

\* The reply arrives: the new session is kept, and storage.onChanged reopens
\* the socket.
Paired(b) ==
    /\ browser[b].pairing # NoOne
    /\ ExchangeStores(b, browser[b].pairing)
    /\ ClosesAndDials(b, [browser[b] EXCEPT !.session = browser[b].pairing,
                                            !.pairing = NoOne, !.again = TRUE])
    /\ UNCHANGED <<conns, callVars, revoking, moves>>

\* Whoever asked for the pairing calls connectWS too: the pair message
\* closes the socket first, the start of the worker does not, and a
\* connectWS that read the bootstrap file itself just goes on.
Redials(b) ==
    /\ browser[b].again
    /\ LET it == [browser[b] EXCEPT !.again = FALSE]
       IN  \/ ClosesAndDials(b, it)
          \/ /\ \/ browser' = [browser EXCEPT ![b] = Dials(it)]
                \/ browser' = [browser EXCEPT ![b] =
                                  [it EXCEPT !.dialling = Append(@, it.session)]]
             /\ UNCHANGED socket
    /\ UNCHANGED <<pairingVars, conns, callVars, revoking, moves>>

\* The row is not written, or the reply is lost: the handle is gone.
PairFails(b) ==
    /\ browser[b].pairing # NoOne
    /\ Moves
    /\ StorageRaises(b) \/ ExchangeStores(b, browser[b].pairing)
    /\ browser' = [browser EXCEPT ![b].pairing = NoOne]
    /\ UNCHANGED <<socket, conns, callVars, revoking>>

\* revoke_extension_session.
Revoke(h) ==
    /\ revoking = NoOne
    /\ h \in stored
    /\ RevokeTakes(Admin, h)
    /\ revoking' = [of |-> h, known |-> h \in memory]
    /\ UNCHANGED <<netVars, callVars, moves>>

Revoked ==
    /\ revoking # NoOne
    /\ \/ RevokeDeletes(Admin, revoking.of, revoking.known)
       \/ RevokeFindsNothing(Admin, revoking.of, revoking.known)
    /\ revoking' = NoOne
    /\ UNCHANGED <<netVars, callVars, moves>>

RevokeFails ==
    /\ revoking # NoOne
    /\ Moves
    /\ StorageRaises(Admin)
    /\ revoking' = NoOne
    /\ UNCHANGED <<netVars, callVars>>

----------------------------------------------------------------------------
(***************************************************************************)
(* Sockets.                                                                *)
(***************************************************************************)
\* Nothing refers to the socket any more.
Reusable(w) ==
    /\ socket[w].pc = "shut"
    /\ \A b \in Browsers :
          browser[b].ws # w /\ \A i \in DOMAIN browser[b].queue : browser[b].queue[i].on # w
    /\ \A m \in wire : m.on # w
    /\ \A c \in Callers : call[c].on # w

\* reconnectTimeout calls connectWS.
Dial(b) ==
    /\ browser[b].timer
    /\ browser' = [browser EXCEPT ![b] = Dials([browser[b] EXCEPT !.timer = FALSE])]
    /\ UNCHANGED <<pairingVars, socket, conns, callVars, revoking, moves>>

\* The settings were read: the new socket becomes the current one, and
\* nobody closes the one that another call of connectWS has made meanwhile.
Opens(b) ==
    /\ browser[b].dialling # <<>>
    /\ \E w \in Sockets :
          /\ Reusable(w)
          /\ w = CHOOSE v \in Sockets : Reusable(v)
          /\ browser' = [browser EXCEPT ![b].ws = w, ![b].dialling = Tail(@)]
          /\ socket' = [socket EXCEPT ![w] =
                          [pc |-> "dialled", of |-> b, key |-> Head(browser[b].dialling),
                           link |-> TRUE]]
    /\ UNCHANGED <<pairingVars, conns, callVars, revoking, moves>>

\* captcha_websocket_endpoint: the session is verified, ...
Verify(w) ==
    /\ socket[w].pc = "dialled"
    /\ VerifyTakes(w)
    /\ socket' = [socket EXCEPT ![w].pc = "verify"]
    /\ UNCHANGED <<browser, conns, callVars, revoking, moves>>

VerifyReads(w) ==
    /\ socket[w].pc = "verify"
    /\ \/ /\ VerifyFinds(w, socket[w].key)
          /\ socket' = [socket EXCEPT ![w].pc = "found"]
       \/ /\ VerifyRefuses(w, socket[w].key)
          /\ socket' = [socket EXCEPT ![w] = Shut]
    /\ UNCHANGED <<browser, conns, callVars, revoking, moves>>

VerifyEnds(w) ==
    /\ socket[w].pc = "found"
    /\ VerifyKeeps(w, socket[w].key)
    /\ IF socket[w].key \in lapsed
       THEN socket' = [socket EXCEPT ![w] = Shut]
       ELSE socket' = [socket EXCEPT ![w].pc = "accept"]
    /\ UNCHANGED <<browser, conns, callVars, revoking, moves>>

\* ... and connect accepts the socket and lists it.
Accept(w) ==
    /\ socket[w].pc = "accept"
    /\ IF socket[w].link
       THEN socket' = [socket EXCEPT ![w].pc = "open"] /\ conns' = Append(conns, w)
       ELSE socket' = [socket EXCEPT ![w] = Shut] /\ UNCHANGED conns
    /\ UNCHANGED <<pairingVars, browser, callVars, revoking, moves>>

VerifyRaises(w) ==
    /\ socket[w].pc = "verify"
    /\ Moves
    /\ StorageRaises(w)
    /\ socket' = [socket EXCEPT ![w] = Shut]
    /\ UNCHANGED <<browser, conns, callVars, revoking>>

\* The network loses a link.
LinkDrops(w) ==
    /\ Moves
    /\ socket[w].link
    /\ socket' = [socket EXCEPT ![w].link = FALSE]
    /\ UNCHANGED <<pairingVars, browser, conns, callVars, revoking>>

\* Mutant of ServerSees: the connection stays listed.
ServerSeesNothing(w) ==
    /\ socket[w].pc = "open" /\ ~socket[w].link
    /\ socket' = [socket EXCEPT ![w].pc = "lost"]
    /\ UNCHANGED <<pairingVars, browser, conns, callVars, revoking, moves>>

\* WebSocketDisconnect in the receive loop: disconnect.  Calls that wait for
\* an answer on this socket are not told.
ServerSees(w) ==
    /\ socket[w].pc = "open" /\ ~socket[w].link
    /\ socket' = [socket EXCEPT ![w] = Shut]
    /\ conns' = SelectSeq(conns, LAMBDA v : v # w)
    /\ UNCHANGED <<pairingVars, browser, callVars, revoking, moves>>

\* onclose of the current socket sets the timer.
BrowserSees(b) ==
    /\ browser[b].ws # NoOne /\ ~socket[browser[b].ws].link
    /\ browser' = [browser EXCEPT ![b].ws = NoOne, ![b].timer = TRUE]
    /\ UNCHANGED <<pairingVars, socket, conns, callVars, revoking, moves>>

----------------------------------------------------------------------------
(***************************************************************************)
(* Requests.                                                               *)
(***************************************************************************)
\* _select_connection: the oldest one with the account's route key.
Selected(route) ==
    LET mine == SelectSeq(conns, LAMBDA w : InstanceOf[socket[w].key] = route)
    IN  IF mine = <<>> THEN NoOne ELSE mine[1]

Ended == [pc |-> "done", on |-> NoOne]

\* Every way out of get_token, with its finally: a token, None or an error.
Leaves(c) ==
    /\ call' = [call EXCEPT ![c] = Ended]
    /\ pending' = pending \ {c}

\* get_token: with no connection at all it fails at once, ...
Ask(c) ==
    /\ call[c].pc = "idle"
    /\ IF conns = <<>> THEN Leaves(c)
       ELSE /\ call' = [call EXCEPT ![c].pc = "resolve"]
            /\ UNCHANGED pending
    /\ UNCHANGED <<pairingVars, netVars, wire, revoking, moves>>

\* ... else the account's route is read and a connection chosen.
Assign(c) ==
    /\ call[c].pc = "resolve"
    /\ LET w == Selected(RouteOf[c])
       IN  IF w = NoOne
           THEN Leaves(c)
           ELSE /\ call' = [call EXCEPT ![c].pc = "send", ![c].on = w]
                /\ pending' = pending \cup {c}
    /\ UNCHANGED <<pairingVars, netVars, wire, revoking, moves>>

\* send_text: onmessage puts the request in the browser's queue; over a dead
\* link it raises, or the data is lost.
Send(c) ==
    /\ call[c].pc = "send"
    /\ LET w == call[c].on
           b == socket[w].of
       IN  IF socket[w].link
           THEN /\ browser' = [browser EXCEPT ![b].queue = Append(@, [for |-> c, on |-> w])]
                /\ call' = [call EXCEPT ![c].pc = "wait"]
                /\ UNCHANGED pending
           ELSE /\ \/ Leaves(c)
                   \/ call' = [call EXCEPT ![c].pc = "wait"] /\ UNCHANGED pending
                /\ UNCHANGED browser
    /\ UNCHANGED <<pairingVars, socket, conns, wire, revoking, moves>>

\* handleGetToken: the oldest request is worked on, also when nobody waits
\* for it any more; the answer is sent only if its socket is still the
\* current one and open.
Solve(b) ==
    /\ browser[b].queue # <<>>
    /\ LET job == Head(browser[b].queue)
       IN  IF browser[b].ws = job.on /\ socket[job.on].link
           THEN wire' = wire \cup {job}
           ELSE UNCHANGED wire
    /\ browser' = [browser EXCEPT ![b].queue = Tail(@)]
    /\ UNCHANGED <<pairingVars, socket, conns, call, pending, revoking, moves>>

\* handle_message: only the owner of a pending request may answer it, once.
Accepts(m) == m.for \in pending /\ call[m.for].on = m.on /\ call[m.for].pc = "wait"

Receive(m) ==
    /\ m \in wire /\ socket[m.on].pc = "open"
    /\ wire' = wire \ {m}
    /\ call' = IF Accepts(m)
               THEN [call EXCEPT ![m.for].pc = "answered"] ELSE call
    /\ UNCHANGED <<pairingVars, netVars, pending, revoking, moves>>

\* What was on the way when the server closed the socket.
Vanishes(m) ==
    /\ m \in wire /\ socket[m.on].pc = "shut"
    /\ wire' = wire \ {m}
    /\ UNCHANGED <<pairingVars, netVars, call, pending, revoking, moves>>

Conclude(c) ==
    /\ call[c].pc = "answered"
    /\ Leaves(c)
    /\ UNCHANGED <<pairingVars, netVars, wire, revoking, moves>>

\* asyncio.wait_for gives up.
TimeOut(c) ==
    /\ call[c].pc = "wait"
    /\ Leaves(c)
    /\ UNCHANGED <<pairingVars, netVars, wire, revoking, moves>>

\* The client of the generation request leaves.
Cancel(c) ==
    /\ call[c].pc \in {"resolve", "send", "wait", "answered"}
    /\ Leaves(c)
    /\ UNCHANGED <<pairingVars, netVars, wire, revoking, moves>>

----------------------------------------------------------------------------
\* A deadline passes.
Lapse(h) ==
    /\ Moves
    /\ HandleLapses(h) \/ SessionLapses(h)
    /\ UNCHANGED <<netVars, callVars, revoking>>

\* The server restarts; the browsers keep their sessions.
Restart ==
    /\ Moves
    /\ PairingRestarts
    /\ conns' = <<>> /\ pending' = {} /\ wire' = {} /\ revoking' = NoOne
    /\ socket' = [w \in Sockets |-> Shut]
    /\ call' = [c \in Callers |-> IF call[c].pc = "idle" THEN call[c] ELSE Ended]
    /\ browser' = [b \in Browsers |-> [browser[b] EXCEPT !.pairing = NoOne]]

RouteInit ==
    /\ PairingInit
    /\ browser = [b \in Browsers |->
                    [session |-> NoOne, ws |-> NoOne, queue |-> <<>>, pairing |-> NoOne,
                     dialling |-> <<>>, again |-> FALSE, timer |-> FALSE]]
    /\ socket = [w \in Sockets |-> Shut]
    /\ conns = <<>>
    /\ call = [c \in Callers |-> [pc |-> "idle", on |-> NoOne]]
    /\ pending = {} /\ wire = {}
    /\ revoking = NoOne
    /\ moves = 0

RouteNext ==
    \/ \E h \in Handles : IssueHandle(h) \/ Revoke(h) \/ Lapse(h)
    \/ \E b \in Browsers :
          \/ Paired(b) \/ PairFails(b) \/ Redials(b)
          \/ Dial(b) \/ Opens(b) \/ BrowserSees(b) \/ Solve(b)
          \/ \E h \in Handles : Pair(b, h) \/ PairRefused(b, h)
    \/ \E w \in Sockets :
          \/ Verify(w) \/ VerifyReads(w) \/ VerifyEnds(w) \/ Accept(w) \/ VerifyRaises(w)
          \/ LinkDrops(w) \/ ServerSees(w)
    \/ \E c \in Callers :
          Ask(c) \/ Assign(c) \/ Send(c) \/ Conclude(c) \/ TimeOut(c) \/ Cancel(c)
    \/ \E m \in wire : Receive(m) \/ Vanishes(m)
    \/ Revoked \/ RevokeFails \/ Restart

RouteSpec == RouteInit /\ [][RouteNext]_extVars

\* The event loops of both sides run on, the keepalive notices dead links and
\* the database answers.  Of asyncio.Lock no order is asked.
Fairness ==
    /\ \A b \in Browsers :
          /\ WF_extVars(Paired(b)) /\ WF_extVars(Redials(b))
          /\ WF_extVars(Dial(b)) /\ WF_extVars(Opens(b)) /\ WF_extVars(BrowserSees(b))
          /\ WF_extVars(Solve(b))
    /\ \A w \in Sockets :
          /\ WF_extVars(Verify(w)) /\ WF_extVars(ServerSees(w))
          /\ WF_extVars(VerifyReads(w) \/ VerifyEnds(w) \/ Accept(w))
    /\ \A c \in Callers : WF_extVars(TimeOut(c) \/ Conclude(c) \/ Send(c) \/ Assign(c))
    /\ WF_extVars(\E m \in wire : Receive(m) \/ Vanishes(m))
    /\ WF_extVars(Revoked)

FairRouteSpec == RouteSpec /\ Fairness

----------------------------------------------------------------------------
\* Once a revocation was confirmed, no verification lets the session pass,
\* although it may sit in memory, in the database, or in a verification that
\* has read its row already.
RevokedIsRefused ==
    [][\A w \in Sockets :
          socket[w].pc # "accept" /\ socket'[w].pc = "accept"
          => socket'[w].key \notin revoked]_extVars

\* Some browser that keeps a valid session serves the route.
Served(i) ==
    \E b \in Browsers : LET h == browser[b].session
                        IN  h # NoOne /\ Standing(h) /\ InstanceOf[h] = i /\ browser[b].pairing = NoOne

IsCurrent(w) == browser[socket[w].of].ws = w

\* No socket of the route is alive that its own browser has replaced: two
\* calls of connectWS leave one behind when their readings overlap.
NoOrphan(i) ==
    \A w \in Sockets : socket[w].link /\ InstanceOf[socket[w].key] = i => IsCurrent(w)

\* The connection a request of the route would use is alive, and its browser
\* sends answers over it.
Reached(i) ==
    LET w == Selected(i) IN w # NoOne /\ socket[w].link /\ IsCurrent(w)

\* A route whose browser stays paired and has left no socket behind heals:
\* after the last lost link or restart its requests reach the socket their
\* browser answers on, and not for good a dead one that is older.
RouteHeals ==
    \A i \in Instances : <>[]Served(i) /\ <>[]NoOrphan(i) => <>[]Reached(i)

=============================================================================
