--------------------------- MODULE ConfigService ----------------------------
(***************************************************************************)
(* The configuration server and its clients: servers/config/main.cc over   *)
(* libs/core/event_loop.cc, libs/ipc and libs/config, with the console     *)
(* server as the client that watches and syscfg as the clients that ask.   *)
(*                                                                         *)
(* A connection is named after its client.  The server's descriptors are   *)
(* the lowest free ones, so a descriptor comes back after a disconnection. *)
(* Reads take every message that has arrived.                              *)
(***************************************************************************)
EXTENDS Integers, Sequences, SequencesExt, FiniteSets, FiniteSetsExt

CONSTANTS Watcher,  \* the console server
          Askers,   \* processes that run syscfg
          Values,   \* values that syscfg sets
          FileValue, \* the value in the domain's file
          Second,   \* 1_Hz: nanoseconds of a second
          MaxAsks   \* bound: how often syscfg runs

VARIABLES csLoop,    \* EventLoop: m_poll_fds, m_watchables, where run is, revents
          csClients, \* m_clients, with their descriptors
          csDomains, \* domains: value and m_watchers
          csConns,   \* the connections: state, messages to and from the server
          csWatch,   \* the watcher: what it has done, the period it runs at
          csAsk      \* each asker: request, answer, how often it ran

csVars == <<csLoop, csClients, csDomains, csConns, csWatch, csAsk>>

CsUsers == {Watcher} \cup Askers
ServerFd == 1
Hertz(rate) == Second \div (IF rate > 1 THEN rate ELSE 1)

ConfigInit ==
    /\ csLoop = [fds |-> <<>>, watched |-> <<>>, index |-> 0, ready |-> <<>>, bound |-> FALSE]
    /\ csClients = <<>>
    /\ csDomains = <<>>
    /\ csConns = [c \in CsUsers |-> [state |-> "none", up |-> <<>>, down |-> <<>>]]
    /\ csWatch = [at |-> "start", period |-> Hertz(60)]
    /\ csAsk = [a \in Askers |-> [at |-> "start", request |-> "none", answer |-> "none", runs |-> 0]]
-----------------------------------------------------------------------------
Fds == {csLoop.fds[i] : i \in DOMAIN csLoop.fds}
FreeFd == CHOOSE fd \in 1 .. Cardinality(Fds) + 1 : fd \notin Fds /\ \A g \in 1 .. fd - 1 : g \in Fds

(* EventLoop::watch *)
Watched(loop, what, fd) ==
    [loop EXCEPT !.fds = Append(@, fd), !.watched = Append(@, what)]

(* Fault: the last descriptor is dropped and not the one at the index. *)
UnwatchedLast(loop, what) ==
    LET i == CHOOSE k \in DOMAIN loop.watched : loop.watched[k] = what
    IN  [loop EXCEPT !.fds = Front(@), !.watched = RemoveAt(@, i)]

(* EventLoop::unwatch *)
Unwatched(loop, what) ==
    LET i == CHOOSE k \in DOMAIN loop.watched : loop.watched[k] = what
    IN  [loop EXCEPT !.fds = RemoveAt(@, i), !.watched = RemoveAt(@, i)]

(* Server::Server: the socket is made, bound and watched. *)
ServerStarts ==
    /\ ~csLoop.bound
    /\ csLoop' = [Watched(csLoop, "server", ServerFd) EXCEPT !.bound = TRUE]
    /\ UNCHANGED <<csClients, csDomains, csConns, csWatch, csAsk>>

(* What sys_poll says of a descriptor: a connection waits, a message has   *)
(* come, or the other side is gone.                                        *)
Readable(fd) ==
    IF fd = ServerFd THEN \E c \in CsUsers : csConns[c].state = "waiting"
    ELSE \E k \in DOMAIN csClients : /\ csClients[k].fd = fd
                                     /\ \/ csConns[csClients[k].client].up # <<>>
                                        \/ csConns[csClients[k].client].state = "left"

(* run goes down the descriptors, past those with nothing to do. *)
At(what) == csLoop.index > 0 /\ csLoop.watched[csLoop.index] = what

Below(ready, i) == LET next == {0} \cup {j \in 1 .. i - 1 : ready[j]}
                   IN  CHOOSE j \in next : \A k \in next : k <= j

NextIndex(loop) ==
    LET i == Below(loop.ready, loop.index)
    IN  [loop EXCEPT !.index = i, !.ready = SubSeq(@, 1, i)]

PollOnce ==
    LET ready == [i \in DOMAIN csLoop.fds |-> Readable(csLoop.fds[i])]
    IN  /\ csLoop.bound /\ csLoop.index = 0
        /\ \E i \in DOMAIN ready : ready[i]
        /\ csLoop' = NextIndex([csLoop EXCEPT !.index = Len(ready) + 1, !.ready = ready])
        /\ UNCHANGED <<csClients, csDomains, csConns, csWatch, csAsk>>

(* The server's m_on_read_ready: the first waiting connection is accepted. *)
AcceptClient(c) ==
    /\ At("server")
    /\ csConns[c].state = "waiting"
    /\ csClients' = Append(csClients, [client |-> c, fd |-> FreeFd])
    /\ csLoop' = NextIndex(Watched(csLoop, c, FreeFd))
    /\ csConns' = [csConns EXCEPT ![c].state = "open"]
    /\ UNCHANGED <<csDomains, csWatch, csAsk>>
-----------------------------------------------------------------------------
Send(conns, c, message) == [conns EXCEPT ![c].down = Append(@, message)]

(* Domain::Domain reads the domain's file; nobody watches it yet. *)
NewDomain == [value |-> FileValue, watchers |-> <<>>]

(* Domain::lookup, in the first domain of the name *)
Present(domains) == domains # <<>>

(* Domain::update tells the watchers. *)
Notify(conns, domain, value) ==
    FoldLeft(LAMBDA cs, w : Send(cs, w, [kind |-> "NotifyChange", value |-> value]), conns, domain.watchers)

(* Fault: a new watcher is not told the values of its domain. *)
WatchQuietly(s, c) ==
    [s EXCEPT !.domains = [d \in DOMAIN @ |-> [@[d] EXCEPT !.watchers =
                              IF Contains(@, c) THEN @ ELSE Append(@, c)]]]

(* Watch: Domain::watch once, then the domain's values are sent. *)
WatchDomains(s, c) ==
    [domains |-> [d \in DOMAIN s.domains |-> [s.domains[d] EXCEPT !.watchers =
                    IF Contains(@, c) THEN @ ELSE Append(@, c)]],
     conns   |-> FoldLeft(LAMBDA cs, d : Send(cs, c, [kind |-> "NotifyChange", value |-> d.value]),
                          s.conns, s.domains)]

(* m_on_message, for one message of a client *)
Serve(s, c, m) ==
    CASE m.kind = "Read" -> [s EXCEPT !.domains = Append(@, NewDomain)]
      [] m.kind = "ListAll" -> [s EXCEPT !.conns = Send(@, c, [kind |-> "ListAllResponse"])]
      [] m.kind = "Lookup" ->
           [s EXCEPT !.conns = Send(@, c, [kind |-> "LookupResponse", present |-> Present(s.domains)])]
      [] m.kind = "Update" ->
           IF ~Present(s.domains)
           THEN [s EXCEPT !.conns = Send(@, c, [kind |-> "UpdateResponse", success |-> FALSE])]
           ELSE [domains |-> [s.domains EXCEPT ![1].value = m.value],
                 conns   |-> Send(Notify(s.conns, s.domains[1], m.value), c,
                                  [kind |-> "UpdateResponse", success |-> TRUE])]
      [] m.kind = "Watch" -> WatchDomains(s, c)

(* Server::disconnect: the client is no longer watched, and is destroyed. *)
Disconnect(k) ==
    LET c == csClients[k].client
    IN  /\ csLoop' = NextIndex(Unwatched(csLoop, c))
        /\ csClients' = RemoveAt(csClients, k)
        /\ csConns' = [csConns EXCEPT ![c] = [state |-> "none", up |-> <<>>, down |-> <<>>]]
        /\ UNCHANGED csDomains

(* A client's m_on_read_ready: every message that came is served.  Nothing *)
(* to read means that it left.                                             *)
ClientReady(k) ==
    LET c == csClients[k].client
        s == FoldLeft(LAMBDA a, m : Serve(a, c, m), [domains |-> csDomains, conns |-> csConns], csConns[c].up)
    IN  /\ At(c)
        /\ IF csConns[c].up # <<>>
           THEN /\ csDomains' = s.domains
                /\ csConns' = [s.conns EXCEPT ![c].up = <<>>]
                /\ csLoop' = NextIndex(csLoop)
                /\ UNCHANGED csClients
           ELSE Disconnect(k)
        /\ UNCHANGED <<csWatch, csAsk>>
-----------------------------------------------------------------------------
(* Client::connect tries until the server has bound its socket. *)
ConnectTo(c) == /\ csLoop.bound /\ csConns[c].state = "none"
                /\ csConns' = [csConns EXCEPT ![c].state = "waiting"]

ToServer(c, message) == /\ csConns[c].state = "open"
                        /\ csConns' = [csConns EXCEPT ![c].up = Append(@, message)]

(* The console server: config::listen, config::read, config::watch *)
WatcherStep(from, to) ==
    /\ csWatch.at = from
    /\ csWatch' = [csWatch EXCEPT !.at = to]
    /\ UNCHANGED <<csLoop, csClients, csDomains, csAsk>>

Listen == WatcherStep("start", "listen") /\ ConnectTo(Watcher)
ReadDomain == WatcherStep("listen", "read") /\ ToServer(Watcher, [kind |-> "Read"])
WatchDomain == WatcherStep("read", "watch") /\ ToServer(Watcher, [kind |-> "Watch"])

(* Its callback sets the period of the timer, one message after the other. *)
WatcherReads ==
    LET down == csConns[Watcher].down
    IN  /\ csWatch.at = "watch" /\ down # <<>>
        /\ csWatch' = [csWatch EXCEPT !.period = Hertz(Last(down).value)]
        /\ csConns' = [csConns EXCEPT ![Watcher].down = <<>>]
        /\ UNCHANGED <<csLoop, csClients, csDomains, csAsk>>

(* syscfg connects, asks, waits for the answer and ends. *)
AskerStep(a, new) ==
    /\ csAsk' = [csAsk EXCEPT ![a] = new]
    /\ UNCHANGED <<csLoop, csClients, csDomains, csWatch>>

AskerStarts(a) ==
    /\ csAsk[a].at = "start" /\ MapThenSumSet(LAMBDA b : csAsk[b].runs, Askers) < MaxAsks
    /\ AskerStep(a, [csAsk[a] EXCEPT !.at = "connect", !.runs = @ + 1]) /\ ConnectTo(a)

Asks(a, request) ==
    /\ csAsk[a].at = "connect"
    /\ AskerStep(a, [csAsk[a] EXCEPT !.at = "wait", !.request = request.kind, !.answer = "none"])
    /\ ToServer(a, request)

(* wait_message takes what came and decodes its first message. *)
AskerAnswered(a) ==
    /\ csAsk[a].at = "wait" /\ csConns[a].down # <<>>
    /\ AskerStep(a, [csAsk[a] EXCEPT !.at = "end", !.answer = Head(csConns[a].down).kind])
    /\ csConns' = [csConns EXCEPT ![a].down = <<>>]

AskerEnds(a) ==
    /\ csAsk[a].at = "end"
    /\ AskerStep(a, [csAsk[a] EXCEPT !.at = "start", !.request = "none", !.answer = "none"])
    /\ csConns' = [csConns EXCEPT ![a].state = "left"]

ResponseTo == [ListAll |-> "ListAllResponse", Lookup |-> "LookupResponse", Update |-> "UpdateResponse"]

Requests == {[kind |-> "ListAll"], [kind |-> "Lookup"]}
            \cup {[kind |-> "Update", value |-> v] : v \in Values}

ServerStep == \/ ServerStarts \/ PollOnce
              \/ \E c \in CsUsers : AcceptClient(c)
              \/ \E k \in DOMAIN csClients : ClientReady(k)
WatcherNext == Listen \/ ReadDomain \/ WatchDomain \/ WatcherReads
AskerNext(a) == \/ AskerStarts(a) \/ AskerAnswered(a) \/ AskerEnds(a)
                \/ \E r \in Requests : Asks(a, r)

ConfigNext == ServerStep \/ WatcherNext \/ \E a \in Askers : AskerNext(a)

(* The scheduler runs each process again and again. *)
ConfigFairness ==
    /\ WF_csVars(ServerStep) /\ WF_csVars(WatcherNext)
    /\ \A a \in Askers : WF_csVars(AskerNext(a))

ConfigSpec == ConfigInit /\ [][ConfigNext]_csVars /\ ConfigFairness
-----------------------------------------------------------------------------
(* A client that watches knows the value of its domain, or a message on    *)
(* its way will tell it, the last one the value that counts, whatever      *)
(* the order in which it watches and others update.                        *)
WatcherUpToDate ==
    \A d \in DOMAIN csDomains :
        Contains(csDomains[d].watchers, Watcher) =>
            IF csConns[Watcher].down = <<>> THEN csWatch.period = Hertz(csDomains[d].value)
            ELSE Last(csConns[Watcher].down).value = csDomains[d].value

(* Every run of syscfg gets an answer, and it is the answer to what it     *)
(* asked (ASSERT in the decoders of libs/config/ipc_messages.hh).          *)
AskersAnswered ==
    \A a \in Askers : csAsk[a].at = "connect" ~>
        csAsk[a].at = "end" /\ csAsk[a].answer = ResponseTo[csAsk[a].request]
=============================================================================
