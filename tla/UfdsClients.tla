---------------------------- MODULE UfdsClients ----------------------------
(***************************************************************************)
(* Start-up, the UFDS connections and their recycling (lib/app.js).        *)
(*                                                                         *)
(* A server talks to the UFDS of its data center ("local") and to the      *)
(* master UFDS of the cloud ("master"), which in the master's own data     *)
(* center are one client. A request first reads the local UFDS, which      *)
(* authenticates it, and then may call the master. A connection that drops *)
(* is made again by the client library; one that hangs, open with nobody   *)
(* answering, is noticed only by the timer of a call, and must be          *)
(* destroyed by the handler of its "timeout" event. An error of a client   *)
(* ends the process or is logged, by the listener it has at the time.      *)
(***************************************************************************)
EXTENDS Naturals, Sequences

CONSTANTS
    Slots,    \* requests in flight at once
    Configs,  \* what the server is started with
    Retrying  \* whether SMF starts a dead server again

\* In a list of plug-ins, which has gaps where those that are disabled stood.
NamedIn(list, name) == \E i \in DOMAIN list : list[i].name = name

NamedOnce(list) == \A i, j \in DOMAIN list : list[i].name = list[j].name => i = j

\* An entry of UFDS is found by its cn; nothing keeps a file from listing a plug-in twice.
ASSUME UfdsClientsAssumption ==
    /\ \A c \in Configs :
        /\ c.single \in BOOLEAN
        /\ c.file \subseteq Seq([name: STRING, enabled: BOOLEAN, from: {"file"}])
        /\ c.ufds \in Seq([name: STRING, enabled: BOOLEAN, from: {"ufds"}])
        /\ NamedOnce(c.ufds)
    /\ Retrying \in BOOLEAN

VARIABLES
    config,   \* one url or two, the plug-ins of the file, if any, and of UFDS
    server,   \* the stage of the process
    conn,     \* the connection of each client
    listener, \* what listens to each client's "error"
    call,     \* the client a request waits for
    timed,    \* whether the timer of that call has fired
    closes,   \* how often close() was called on each client
    plugins   \* the plug-ins that run around provisioning, by their place in the list

vars == <<config, server, conn, listener, call, timed, closes, plugins>>

Names == {"local", "master"}

Stages == {"starting", "configuring", "listening", "closing", "closed", "dead"}

Listeners == {"none", "fatal", "logging"}

Links == {"none", "connecting", "up", "hung", "down", "closed"}

\* clients.ufds and clients.ufds_master are one object when there is one url.
Client(name) == IF config.single THEN "local" ELSE name

Open(c) == conn[c] \in {"up", "hung"}

-----------------------------------------------------------------------------
Init ==
    /\ config \in Configs
    /\ server = "starting"
    /\ conn = [c \in Names |-> "none"]
    /\ listener = [c \in Names |-> "none"]
    /\ call = [s \in Slots |-> "none"]
    /\ timed = [s \in Slots |-> FALSE]
    /\ closes = [c \in Names |-> 0]
    /\ plugins = <<>>

-----------------------------------------------------------------------------
\* The master first, then the local one; then the search of loadPluginsCfg. The first
\* error of a new client is fatal.
Connect(c) ==
    /\ server = "starting"
    /\ conn[c] = "none"
    /\ \A d \in Names : conn[d] # "connecting"
    /\ c = "local" => config.single \/ conn["master"] # "none"
    /\ c = "master" => ~config.single
    /\ conn' = [conn EXCEPT ![c] = "connecting"]
    /\ listener' = [listener EXCEPT ![c] = "fatal"]
    /\ UNCHANGED <<config, server, call, timed, closes, plugins>>

\* Mutant: the listener of the first error is not removed.
ConnectedOnly(c) ==
    /\ server = "starting"
    /\ conn[c] = "connecting"
    /\ conn' = [conn EXCEPT ![c] = "up"]
    /\ server' = IF c = "local" THEN "configuring" ELSE server
    /\ UNCHANGED <<config, listener, call, timed, closes, plugins>>

\* once("connect"): the listeners of "error" are removed for one that logs.
Connected(c) ==
    /\ server = "starting"
    /\ conn[c] = "connecting"
    /\ conn' = [conn EXCEPT ![c] = "up"]
    /\ listener' = [listener EXCEPT ![c] = "logging"]
    /\ server' = IF c = "local" THEN "configuring" ELSE server
    /\ UNCHANGED <<config, call, timed, closes, plugins>>

Die == server' = "dead"

\* An "error" of a client: the fatal listener calls back with it, and createServer throws
\* it; without a listener it is thrown at once.
Raise(c) == IF listener[c] = "logging" THEN UNCHANGED server ELSE Die

\* Mutant: the attempt that was refused stays in the table.
RefusedQuietly(c) ==
    /\ server # "dead"
    /\ conn[c] \in {"connecting", "down"}
    /\ conn' = [conn EXCEPT ![c] = "error"]
    /\ Raise(c)
    /\ UNCHANGED <<config, listener, call, timed, closes, plugins>>

\* An attempt to connect, or to connect again, fails.
Refused(c) ==
    /\ server # "dead"
    /\ conn[c] \in {"connecting", "down"}
    /\ conn' = [conn EXCEPT ![c] = "down"]
    /\ Raise(c)
    /\ UNCHANGED <<config, listener, call, timed, closes, plugins>>

\* loadPlugins: a plug-in of UFDS takes the place of the file's of that name, and
\* comes after the file's when there is none.
Overridden(file, ufds) ==
    [i \in DOMAIN file |->
        LET same == {j \in DOMAIN ufds : ufds[j].name = file[i].name}
        IN  IF same = {} THEN file[i] ELSE ufds[CHOOSE j \in same : \A k \in same : k <= j]]

\* Mutant: the plug-ins that took a place are added again.
AddedAgain(file, ufds) == DOMAIN ufds

Added(file, ufds) ==
    {j \in DOMAIN ufds :
        /\ ~NamedIn(file, ufds[j].name)
        /\ \A k \in DOMAIN ufds : ufds[k].name = ufds[j].name => k >= j}

\* The place of each plug-in in the list; those that are disabled leave a gap.
LoadPlugins(file, ufds) ==
    LET over == Overridden(file, ufds)
        listed == DOMAIN file \cup {Len(file) + j : j \in Added(file, ufds)}
        list == [i \in listed |-> IF i \in DOMAIN file THEN over[i] ELSE ufds[i - Len(file)]]
    IN  [i \in {j \in listed : list[j].enabled} |-> list[i]]

\* Without a list in the file there are no plug-ins at all.
LoadPluginsCfg ==
    /\ server = "configuring"
    /\ conn["local"] = "up"
    /\ plugins' = IF config.file = {} THEN <<>>
                  ELSE LoadPlugins(CHOOSE f \in config.file : TRUE, config.ufds)
    /\ server' = "listening"
    /\ UNCHANGED <<config, conn, listener, call, timed, closes>>

-----------------------------------------------------------------------------
\* The calls on a connection that goes fail, and their timers are cleared.
Drop(c, fired) ==
    LET lost == {s \in Slots : call[s] # "none" /\ Client(call[s]) = c}
    IN  /\ conn' = [conn EXCEPT ![c] = "down"]
        /\ call' = [s \in Slots |-> IF s \in lost THEN "none" ELSE call[s]]
        /\ timed' = [s \in Slots |-> (timed[s] \/ s \in fired) /\ s \notin lost]

\* The client raises an error. The search for plug-ins fails with its connection, and
\* createServer throws that.
Broken(c) ==
    /\ Open(c)
    /\ Drop(c, {})
    /\ IF server = "configuring" /\ c = "local" THEN Die ELSE Raise(c)
    /\ UNCHANGED <<config, listener, closes, plugins>>

Hang(c) ==
    /\ conn[c] = "up"
    /\ conn' = [conn EXCEPT ![c] = "hung"]
    /\ UNCHANGED <<config, server, listener, call, timed, closes, plugins>>

Reconnect(c) ==
    /\ conn[c] = "down"
    /\ server # "dead"
    /\ conn' = [conn EXCEPT ![c] = "up"]
    /\ UNCHANGED <<config, server, listener, call, timed, closes, plugins>>

\* A call that finds no connection fails at once, and the request with it.
Arrive(s) ==
    /\ server = "listening"
    /\ call[s] = "none"
    /\ Open("local")
    /\ call' = [call EXCEPT ![s] = "local"]
    /\ UNCHANGED <<config, server, conn, listener, timed, closes, plugins>>

\* The last call is answered, and with it the request; or the handler calls on.
Reply(s) ==
    /\ call[s] # "none"
    /\ conn[Client(call[s])] = "up"
    /\ \/ call' = [call EXCEPT ![s] = "none"]
       \/ /\ call[s] = "local"
          /\ Open(Client("master"))
          /\ call' = [call EXCEPT ![s] = "master"]
    /\ timed' = [timed EXCEPT ![s] = FALSE]
    /\ UNCHANGED <<config, server, conn, listener, closes, plugins>>

\* Mutant: the socket of another client.
RecycledOther(c) == "master"

\* Whose socket the handler of a client's "timeout" event destroys: the handler of
\* the master client names clients.ufds as well.
Recycled(c) == "local"

\* The timer of a call fires once. A client without a socket throws in the handler,
\* which is logged.
Timeout(s) ==
    /\ call[s] # "none"
    /\ ~timed[s]
    /\ LET c == Recycled(Client(call[s]))
       IN  \/ Open(c) /\ Drop(c, {s})
           \/ ~Open(c) /\ timed' = [timed EXCEPT ![s] = TRUE] /\ UNCHANGED <<conn, call>>
    /\ UNCHANGED <<config, server, listener, closes, plugins>>

\* The handler is there before the search that loads the plug-ins is sent.
ConfigTimeout ==
    /\ server = "configuring"
    /\ Open("local")
    /\ Drop("local", {})
    /\ Die
    /\ UNCHANGED <<config, listener, closes, plugins>>

-----------------------------------------------------------------------------
\* server.on("close"), once the requests are through: the local client, and in its
\* callback the master client unless it is the one just closed.
CloseClient(c) == closes' = [closes EXCEPT ![c] = @ + 1]

Close ==
    /\ server = "listening"
    /\ \A s \in Slots : call[s] = "none"
    /\ server' = "closing"
    /\ CloseClient("local")
    /\ UNCHANGED <<config, conn, listener, call, timed, plugins>>

\* Mutant: the master client is closed without a look at `closed`.
LocalClosedBlindly ==
    /\ server = "closing"
    /\ conn["local"] # "closed"
    /\ conn' = [conn EXCEPT !["local"] = "closed"]
    /\ CloseClient(Client("master"))
    /\ UNCHANGED <<config, server, listener, call, timed, plugins>>

LocalClosed ==
    /\ server = "closing"
    /\ conn["local"] # "closed"
    /\ conn' = [conn EXCEPT !["local"] = "closed"]
    /\ IF conn'[Client("master")] # "closed"
       THEN CloseClient(Client("master")) /\ UNCHANGED server
       ELSE server' = "closed" /\ UNCHANGED closes
    /\ UNCHANGED <<config, listener, call, timed, plugins>>

MasterClosed ==
    /\ server = "closing"
    /\ conn["local"] = "closed"
    /\ conn' = [conn EXCEPT !["master"] = "closed"]
    /\ server' = "closed"
    /\ UNCHANGED <<config, listener, call, timed, closes, plugins>>

CloseFails ==
    /\ server = "closing"
    /\ Die
    /\ UNCHANGED <<config, conn, listener, call, timed, closes, plugins>>

\* SMF starts the process again; the plug-ins in UFDS may have changed.
Restart ==
    /\ Retrying
    /\ server = "dead"
    /\ server' = "starting"
    /\ config' \in {c \in Configs : c.single = config.single}
    /\ conn' = [c \in Names |-> "none"]
    /\ listener' = [c \in Names |-> "none"]
    /\ call' = [s \in Slots |-> "none"]
    /\ timed' = [s \in Slots |-> FALSE]
    /\ closes' = [c \in Names |-> 0]
    /\ plugins' = <<>>

-----------------------------------------------------------------------------
Next ==
    \/ \E c \in Names : Connect(c) \/ Connected(c) \/ Refused(c)
    \/ \E c \in Names : Broken(c) \/ Hang(c) \/ Reconnect(c)
    \/ LoadPluginsCfg \/ ConfigTimeout
    \/ \E s \in Slots : Arrive(s) \/ Reply(s) \/ Timeout(s)
    \/ Close \/ LocalClosed \/ MasterClosed \/ CloseFails
    \/ Restart

\* Timers fire, UFDS answers while the connection is up, and the library reconnects.
\* Nothing says that a UFDS which hangs ever answers.
Fairness ==
    /\ \A s \in Slots : WF_vars(Reply(s)) /\ WF_vars(Timeout(s))
    /\ \A c \in Names : WF_vars(Reconnect(c))

Spec == Init /\ [][Next]_vars

FairSpec == Spec /\ Fairness

-----------------------------------------------------------------------------
Plugin == [name: STRING, enabled: {TRUE}, from: {"file", "ufds"}]

\* Every variable keeps its type (lib/app.js, the state of the process and its clients).
TypeOK ==
    /\ config \in Configs
    /\ server \in Stages
    /\ conn \in [Names -> Links]
    /\ listener \in [Names -> Listeners]
    /\ call \in [Slots -> Names \cup {"none"}]
    /\ timed \in [Slots -> BOOLEAN]
    /\ closes \in [Names -> Nat]
    /\ DOMAIN plugins \subseteq Nat \ {0}
    /\ \A i \in DOMAIN plugins : plugins[i] \in Plugin

\* A server that was closed has closed each of its connections, and none of them twice,
\* with one client (which the handler meets under two names) as with two.
ClosedOnce ==
    /\ \A c \in Names : closes[c] <= 1
    /\ server = "closed" => \A c \in Names : conn[Client(c)] = "closed"

\* UFDS takes precedence over the configuration file: a plug-in that both name runs as
\* UFDS has it, once (unless the file names it twice), or not at all when UFDS disables
\* it; one that is enabled where it counts does run.
UfdsConfigPrevails ==
    server = "listening" =>
        /\ (\A f \in config.file : NamedOnce(f)) => NamedOnce(plugins)
        /\ \A i \in DOMAIN plugins :
            NamedIn(config.ufds, plugins[i].name) => plugins[i].from = "ufds"
        /\ config.file # {} =>
            \A i \in DOMAIN config.ufds :
                config.ufds[i].enabled <=> NamedIn(plugins, config.ufds[i].name)

\* Once the server listens no error of a client ends the process, be a connection lost or
\* an attempt to make it again refused: the listener that would has gone when the client
\* connected for the first time.
ConnectionLossIsSurvived == [][server = "listening" => server' # "dead"]_vars

\* A call that waits for the local UFDS ends, though UFDS hangs: the time-out handler
\* destroys the socket. With one url this holds for the calls to the master.
CallsOnLocalEnd ==
    \A s \in Slots :
        (call[s] # "none" /\ Client(call[s]) = "local")
            ~> (call[s] = "none" \/ Client(call[s]) = "master")

\* 'UFDS Master client timeout (recycling)': a connection to the master that hangs while a
\* call waits on it is replaced.
HungMasterIsRecycled ==
    \A s \in Slots :
        (call[s] = "master" /\ conn[Client("master")] = "hung") ~> conn[Client("master")] # "hung"

=============================================================================
