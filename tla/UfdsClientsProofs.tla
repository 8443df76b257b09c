------------------------- MODULE UfdsClientsProofs -------------------------
(***************************************************************************)
(* Proofs about UfdsClients, for any configuration and any set of slots:   *)
(* type correctness, each connection closed once, the precedence of UFDS   *)
(* over the configuration file, and that a server that listens survives    *)
(* the loss of its connections.                                            *)
(***************************************************************************)
EXTENDS UfdsClients, TLAPS

Listed(c) == CHOOSE f \in c.file : TRUE

-----------------------------------------------------------------------------
(* The inductive invariant. *)

\* How far the handler of server.on("close") is, told by the calls of close() it made
\* and the connections that are gone: a connection that is closed stays closed, and is
\* so only after the server closed it.
CloseInv ==
    /\ server \in {"starting", "configuring", "listening"} =>
        \A c \in Names : closes[c] = 0 /\ conn[c] # "closed"
    /\ server = "closing" =>
        /\ conn["master"] # "closed"
        /\ conn["local"] = "closed" => ~config.single
        /\ closes["local"] = 1
        /\ closes["master"] = IF conn["local"] = "closed" THEN 1 ELSE 0
    /\ \A c \in Names : closes[c] <= 1
    /\ server = "closed" => \A c \in Names : conn[Client(c)] = "closed"

\* A client that was connected has lost the listener that ends the process, and the
\* server gets no further than "starting" before each client was.
ListenerInv ==
    /\ \A c \in Names : conn[c] = "connecting" => server \in {"starting", "dead"}
    /\ \A c, d \in Names : conn[c] = "connecting" /\ conn[d] = "connecting" => c = d
    /\ \A c \in Names :
        conn[c] \in {"up", "hung", "down"} => listener[c] = "logging" \/ server = "dead"

\* The plug-ins of a server that listens are those that were loaded at its start.
LoadedInv ==
    server = "listening" =>
        plugins = IF config.file = {} THEN <<>> ELSE LoadPlugins(Listed(config), config.ufds)

Inv == TypeOK /\ CloseInv /\ ListenerInv /\ LoadedInv

-----------------------------------------------------------------------------
(* The merging of the two lists of plug-ins. *)

FilePlugin == [name: STRING, enabled: BOOLEAN, from: {"file"}]

UfdsPlugin == [name: STRING, enabled: BOOLEAN, from: {"ufds"}]

\* A plug-in of the file keeps its place and its name; what is there is UFDS's when UFDS
\* has one of that name, of which there is one at most.
LEMMA OverriddenFacts ==
    ASSUME NEW file \in Seq(FilePlugin), NEW ufds \in Seq(UfdsPlugin), NamedOnce(ufds),
           NEW i \in DOMAIN file
    PROVE  /\ NamedIn(ufds, file[i].name) =>
                \E j \in DOMAIN ufds :
                    ufds[j].name = file[i].name /\ Overridden(file, ufds)[i] = ufds[j]
           /\ ~NamedIn(ufds, file[i].name) => Overridden(file, ufds)[i] = file[i]
<1> DEFINE same == {j \in DOMAIN ufds : ufds[j].name = file[i].name}
           chosen == CHOOSE j \in same : \A k \in same : k <= j
<1>1. Overridden(file, ufds)[i] = IF same = {} THEN file[i] ELSE ufds[chosen]
  BY DEF Overridden
<1>2. ASSUME NEW j \in same
      PROVE  chosen \in same
  <2>1. \A k \in same : k = j
    BY DEF NamedOnce
  <2>2. j \in Nat
    OBVIOUS
  <2>3. \A k \in same : k <= j
    BY <2>1, <2>2
  <2>. HIDE DEF same
  <2>. QED
    BY <2>3
<1>3. CASE NamedIn(ufds, file[i].name)
  <2>1. PICK j \in same : TRUE
    BY <1>3 DEF NamedIn
  <2>2. chosen \in same
    BY <1>2
  <2>. QED
    BY <1>1, <1>3, <2>1, <2>2
<1>4. CASE ~NamedIn(ufds, file[i].name)
  BY <1>1, <1>4 DEF NamedIn
<1>. QED
  BY <1>3, <1>4

\* What stands at a place of the loaded list: a plug-in of the file at its own place,
\* unless UFDS has one of that name; UFDS's there, or after the file's.
LEMMA LoadedAt ==
    ASSUME NEW file \in Seq(FilePlugin), NEW ufds \in Seq(UfdsPlugin), NamedOnce(ufds),
           NEW i \in DOMAIN LoadPlugins(file, ufds)
    PROVE  /\ i \in Nat \ {0}
           /\ LoadPlugins(file, ufds)[i] \in Plugin
           /\ i \in DOMAIN file =>
                /\ LoadPlugins(file, ufds)[i] = Overridden(file, ufds)[i]
                /\ LoadPlugins(file, ufds)[i].name = file[i].name
           /\ i \notin DOMAIN file =>
                \E j \in Added(file, ufds) :
                    i = Len(file) + j /\ LoadPlugins(file, ufds)[i] = ufds[j]
<1> DEFINE over == Overridden(file, ufds)
           listed == DOMAIN file \cup {Len(file) + j : j \in Added(file, ufds)}
           list == [n \in listed |-> IF n \in DOMAIN file THEN over[n] ELSE ufds[n - Len(file)]]
           loaded == {j \in listed : list[j].enabled}
<1>1. LoadPlugins(file, ufds) = [n \in loaded |-> list[n]]
  BY DEF LoadPlugins
<1>2. i \in listed /\ LoadPlugins(file, ufds)[i] = list[i] /\ list[i].enabled
  BY <1>1
<1>. HIDE DEF loaded
<1>3. CASE i \in DOMAIN file
  <2>1. list[i] = over[i]
    BY <1>2, <1>3
  <2>2. over[i] \in FilePlugin \cup UfdsPlugin /\ over[i].name = file[i].name
    <3>1. file[i] \in FilePlugin
      BY <1>3
    <3>2. CASE NamedIn(ufds, file[i].name)
      <4>1. PICK j \in DOMAIN ufds : ufds[j].name = file[i].name /\ over[i] = ufds[j]
        BY <1>3, <3>2, OverriddenFacts
      <4>. QED
        BY <4>1
    <3>3. CASE ~NamedIn(ufds, file[i].name)
      BY <1>3, <3>1, <3>3, OverriddenFacts
    <3>. QED
      BY <3>2, <3>3
  <2>. HIDE DEF list, over, listed
  <2>3. over[i].enabled
    BY <1>2, <2>1
  <2>4. over[i] \in Plugin
    BY <2>2, <2>3 DEF Plugin, FilePlugin, UfdsPlugin
  <2>5. i \in Nat \ {0}
    BY <1>3
  <2>6. LoadPlugins(file, ufds)[i] = over[i]
    BY <1>2, <2>1
  <2>. QED
    BY <1>3, <2>2, <2>4, <2>5, <2>6 DEF over
<1>4. CASE i \notin DOMAIN file
  <2>1. PICK j \in Added(file, ufds) : i = Len(file) + j
    BY <1>2, <1>4
  <2>2. j \in DOMAIN ufds /\ j \in Nat \ {0} /\ Len(file) \in Nat
    BY DEF Added
  <2>3. list[i] = ufds[j]
    <3>1. i - Len(file) = j
      BY <2>1, <2>2
    <3>. QED
      BY <1>2, <1>4, <3>1
  <2>4. ufds[j] \in UfdsPlugin
    BY <2>2
  <2>. HIDE DEF list, over, listed
  <2>5. ufds[j].enabled
    BY <1>2, <2>3
  <2>6. ufds[j] \in Plugin
    BY <2>4, <2>5 DEF Plugin, UfdsPlugin
  <2>. QED
    BY <1>2, <1>4, <2>1, <2>2, <2>3, <2>6
<1>. QED
  BY <1>3, <1>4

\* A plug-in of UFDS runs just when it is enabled there, whether or not the file has one
\* of its name.
LEMMA LoadedWhenEnabled ==
    ASSUME NEW file \in Seq(FilePlugin), NEW ufds \in Seq(UfdsPlugin), NamedOnce(ufds),
           NEW u \in DOMAIN ufds
    PROVE  ufds[u].enabled <=> NamedIn(LoadPlugins(file, ufds), ufds[u].name)
<1> DEFINE over == Overridden(file, ufds)
           listed == DOMAIN file \cup {Len(file) + j : j \in Added(file, ufds)}
           list == [n \in listed |-> IF n \in DOMAIN file THEN over[n] ELSE ufds[n - Len(file)]]
           loaded == {j \in listed : list[j].enabled}
           result == LoadPlugins(file, ufds)
<1>1. result = [n \in loaded |-> list[n]]
  BY DEF LoadPlugins
<1>2. ASSUME NEW i \in DOMAIN file, file[i].name = ufds[u].name
      PROVE  over[i] = ufds[u]
  <2>1. NamedIn(ufds, file[i].name)
    BY <1>2 DEF NamedIn
  <2>2. PICK j \in DOMAIN ufds : ufds[j].name = file[i].name /\ over[i] = ufds[j]
    BY <2>1, OverriddenFacts
  <2>3. j = u
    BY <1>2, <2>2 DEF NamedOnce
  <2>. QED
    BY <2>2, <2>3
<1>3. \E n \in listed : list[n] = ufds[u]
  <2>1. CASE NamedIn(file, ufds[u].name)
    <3>1. PICK i \in DOMAIN file : file[i].name = ufds[u].name
      BY <2>1 DEF NamedIn
    <3>. QED
      BY <1>2, <3>1
  <2>2. CASE ~NamedIn(file, ufds[u].name)
    <3>1. u \in Added(file, ufds)
      <4>1. \A k \in DOMAIN ufds : ufds[k].name = ufds[u].name => k >= u
        BY DEF NamedOnce
      <4>. QED
        BY <2>2, <4>1 DEF Added
    <3>2. u \in Nat \ {0} /\ Len(file) \in Nat /\ DOMAIN file = 1 .. Len(file)
      OBVIOUS
    <3>3. Len(file) + u \in listed /\ Len(file) + u \notin DOMAIN file
      BY <3>1, <3>2
    <3>4. Len(file) + u - Len(file) = u
      BY <3>2
    <3>. QED
      BY <3>3, <3>4
  <2>. QED
    BY <2>1, <2>2
<1>4. ASSUME ufds[u].enabled
      PROVE  NamedIn(result, ufds[u].name)
  <2>1. PICK n \in listed : list[n] = ufds[u]
    BY <1>3
  <2>. HIDE DEF listed, list
  <2>2. n \in loaded
    BY <1>4, <2>1
  <2>3. n \in DOMAIN result /\ result[n] = ufds[u]
    BY <1>1, <2>1, <2>2
  <2>. HIDE DEF result
  <2>. QED
    BY <2>3 DEF NamedIn
<1>5. ASSUME NamedIn(result, ufds[u].name)
      PROVE  ufds[u].enabled
  <2>1. PICK n \in DOMAIN result : result[n].name = ufds[u].name
    BY <1>5 DEF NamedIn
  <2>2. result[n].enabled
    BY <2>1, LoadedAt DEF Plugin
  <2>3. CASE n \in DOMAIN file
    <3>1. result[n] = over[n] /\ file[n].name = ufds[u].name
      BY <2>1, <2>3, LoadedAt
    <3>. QED
      BY <1>2, <2>2, <2>3, <3>1
  <2>4. CASE n \notin DOMAIN file
    <3>1. PICK j \in Added(file, ufds) : result[n] = ufds[j]
      BY <2>4, LoadedAt
    <3>2. j = u
      BY <2>1, <3>1 DEF Added, NamedOnce
    <3>. QED
      BY <2>2, <3>1, <3>2
  <2>. QED
    BY <2>3, <2>4
<1>. QED
  BY <1>4, <1>5

\* No name is loaded twice that the file does not list twice, and what UFDS has of it is what is loaded.
LEMMA LoadedOnce ==
    ASSUME NEW file \in Seq(FilePlugin), NEW ufds \in Seq(UfdsPlugin), NamedOnce(ufds)
    PROVE  /\ NamedOnce(file) => NamedOnce(LoadPlugins(file, ufds))
           /\ \A i \in DOMAIN LoadPlugins(file, ufds) :
                NamedIn(ufds, LoadPlugins(file, ufds)[i].name) =>
                    LoadPlugins(file, ufds)[i].from = "ufds"
<1> DEFINE result == LoadPlugins(file, ufds)
<1>1. ASSUME NEW i \in DOMAIN result, i \notin DOMAIN file
      PROVE  \E j \in DOMAIN ufds :
                /\ i = Len(file) + j
                /\ result[i] = ufds[j]
                /\ ~NamedIn(file, result[i].name)
  <2>1. PICK j \in Added(file, ufds) : i = Len(file) + j /\ result[i] = ufds[j]
    BY <1>1, LoadedAt
  <2>. QED
    BY <2>1 DEF Added
<1>2. ASSUME NamedOnce(file),
             NEW i \in DOMAIN result, NEW k \in DOMAIN result, result[i].name = result[k].name
      PROVE  i = k
  <2>1. CASE i \in DOMAIN file /\ k \in DOMAIN file
    <3>1. file[i].name = file[k].name
      BY <1>2, <2>1, LoadedAt
    <3>. QED
      BY <1>2, <2>1, <3>1 DEF NamedOnce
  <2>2. CASE i \in DOMAIN file /\ k \notin DOMAIN file
    <3>1. file[i].name = result[k].name
      BY <1>2, <2>2, LoadedAt
    <3>2. ~NamedIn(file, result[k].name)
      BY <1>1, <2>2
    <3>. QED
      BY <2>2, <3>1, <3>2 DEF NamedIn
  <2>3. CASE i \notin DOMAIN file /\ k \in DOMAIN file
    <3>1. file[k].name = result[i].name
      BY <1>2, <2>3, LoadedAt
    <3>2. ~NamedIn(file, result[i].name)
      BY <1>1, <2>3
    <3>. QED
      BY <2>3, <3>1, <3>2 DEF NamedIn
  <2>4. CASE i \notin DOMAIN file /\ k \notin DOMAIN file
    <3>1. PICK j \in DOMAIN ufds : i = Len(file) + j /\ result[i] = ufds[j]
      BY <1>1, <2>4
    <3>2. PICK l \in DOMAIN ufds : k = Len(file) + l /\ result[k] = ufds[l]
      BY <1>1, <2>4
    <3>3. j = l
      BY <1>2, <3>1, <3>2 DEF NamedOnce
    <3>. QED
      BY <3>1, <3>2, <3>3
  <2>. QED
    BY <2>1, <2>2, <2>3, <2>4
<1>3. ASSUME NEW i \in DOMAIN result, NamedIn(ufds, result[i].name)
      PROVE  result[i].from = "ufds"
  <2>1. ASSUME NEW j \in DOMAIN ufds
        PROVE  ufds[j].from = "ufds"
    <3>1. ufds[j] \in UfdsPlugin
      OBVIOUS
    <3>. QED
      BY <3>1 DEF UfdsPlugin
  <2>2. CASE i \in DOMAIN file
    <3>1. NamedIn(ufds, file[i].name) /\ result[i] = Overridden(file, ufds)[i]
      BY <1>3, <2>2, LoadedAt
    <3>2. PICK j \in DOMAIN ufds : result[i] = ufds[j]
      BY <2>2, <3>1, OverriddenFacts
    <3>. QED
      BY <2>1, <3>2
  <2>3. CASE i \notin DOMAIN file
    BY <1>1, <2>1, <2>3
  <2>. QED
    BY <2>2, <2>3
<1>. HIDE DEF result
<1>4. NamedOnce(file) => NamedOnce(result)
  BY <1>2 DEF NamedOnce
<1>. QED
  BY <1>3, <1>4 DEF result

-----------------------------------------------------------------------------
(* The invariant holds. *)

LEMMA ConfigFacts ==
    ASSUME NEW c \in Configs
    PROVE  /\ c.single \in BOOLEAN
           /\ c.ufds \in Seq(UfdsPlugin) /\ NamedOnce(c.ufds)
           /\ c.file # {} => Listed(c) \in c.file /\ Listed(c) \in Seq(FilePlugin)
<1>1. c.file # {} => Listed(c) \in c.file
  BY DEF Listed
<1>. QED
  BY <1>1, UfdsClientsAssumption DEF FilePlugin, UfdsPlugin

\* What a server starts with.
LEMMA LoadedType ==
    ASSUME NEW c \in Configs,
           NEW l, l = IF c.file = {} THEN <<>> ELSE LoadPlugins(Listed(c), c.ufds)
    PROVE  DOMAIN l \subseteq Nat \ {0} /\ \A i \in DOMAIN l : l[i] \in Plugin
<1>1. CASE c.file = {}
  BY <1>1
<1>2. CASE c.file # {}
  BY <1>2, ConfigFacts, LoadedAt
<1>. QED
  BY <1>1, <1>2

LEMMA InitInv == Init => Inv
<1> SUFFICES ASSUME Init PROVE Inv
  OBVIOUS
<1>1. TypeOK
  BY DEF Init, TypeOK, Stages, Links, Listeners, Names
<1>2. CloseInv
  BY DEF Init, CloseInv, Names
<1>3. LoadedInv
  BY DEF Init, LoadedInv
<1>4. ListenerInv
  BY DEF Init, ListenerInv
<1>. QED
  BY <1>1, <1>2, <1>3, <1>4 DEF Inv

LEMMA DropType ==
    ASSUME TypeOK, NEW c \in Names, NEW fired, Drop(c, fired)
    PROVE  /\ conn' \in [Names -> Links]
           /\ call' \in [Slots -> Names \cup {"none"}]
           /\ timed' \in [Slots -> BOOLEAN]
<1>1. conn' \in [Names -> Links]
  BY DEF Drop, TypeOK, Links
<1>2. call' \in [Slots -> Names \cup {"none"}]
  BY DEF Drop, TypeOK
<1>3. timed' \in [Slots -> BOOLEAN]
  BY DEF Drop
<1>. QED
  BY <1>1, <1>2, <1>3

LEMMA TypeStep == Inv /\ [Next]_vars => TypeOK'
<1> SUFFICES ASSUME Inv, [Next]_vars PROVE TypeOK'
  OBVIOUS
<1>. USE DEF Names, Stages, Links, Listeners
<1>0. TypeOK
  BY DEF Inv
<1>1. ASSUME NEW c \in Names, Connect(c) \/ Connected(c) \/ Refused(c) \/ Hang(c) \/ Reconnect(c)
      PROVE  TypeOK'
  BY <1>0, <1>1 DEF TypeOK, Connect, Connected, Refused, Raise, Die, Hang, Reconnect
<1>2. ASSUME NEW c \in Names, Broken(c)
      PROVE  TypeOK'
  <2>1. Drop(c, {})
    BY <1>2 DEF Broken
  <2>. QED
    BY <1>0, <1>2, <2>1, DropType DEF TypeOK, Broken, Raise, Die
<1>3. ASSUME ConfigTimeout
      PROVE  TypeOK'
  <2>1. Drop("local", {})
    BY <1>3 DEF ConfigTimeout
  <2>. QED
    BY <1>0, <1>3, <2>1, DropType DEF TypeOK, ConfigTimeout, Die
<1>4. ASSUME LoadPluginsCfg
      PROVE  TypeOK'
  <2>1. DOMAIN plugins' \subseteq Nat \ {0} /\ \A i \in DOMAIN plugins' : plugins'[i] \in Plugin
    BY <1>0, <1>4, LoadedType DEF TypeOK, LoadPluginsCfg, Listed
  <2>. QED
    BY <1>0, <1>4, <2>1 DEF TypeOK, LoadPluginsCfg
<1>5. ASSUME NEW s \in Slots, Arrive(s) \/ Reply(s)
      PROVE  TypeOK'
  BY <1>0, <1>5 DEF TypeOK, Arrive, Reply
<1>6. ASSUME NEW s \in Slots, Timeout(s)
      PROVE  TypeOK'
  <2>1. /\ conn' \in [Names -> Links]
        /\ call' \in [Slots -> Names \cup {"none"}]
        /\ timed' \in [Slots -> BOOLEAN]
    <3>1. CASE Drop("local", {s})
      BY <1>0, <3>1, DropType
    <3>2. CASE timed' = [timed EXCEPT ![s] = TRUE] /\ UNCHANGED <<conn, call>>
      BY <1>0, <3>2 DEF TypeOK
    <3>. QED
      BY <1>6, <3>1, <3>2 DEF Timeout, Recycled
  <2>. QED
    BY <1>0, <1>6, <2>1 DEF TypeOK, Timeout
<1>7. ASSUME Close \/ LocalClosed \/ MasterClosed \/ CloseFails
      PROVE  TypeOK'
  BY <1>0, <1>7 DEF TypeOK, Close, LocalClosed, MasterClosed, CloseFails, CloseClient, Client, Die
<1>8. ASSUME Restart
      PROVE  TypeOK'
  BY <1>0, <1>8 DEF TypeOK, Restart
<1>9. ASSUME UNCHANGED vars
      PROVE  TypeOK'
  BY <1>0, <1>9 DEF TypeOK, vars
<1>. QED
  BY <1>1, <1>2, <1>3, <1>4, <1>5, <1>6, <1>7, <1>8, <1>9 DEF Next

\* A connection that was not closed is not closed by being lost, and one that was is not
\* lost: Drop is of open connections.
LEMMA DropKeeps ==
    ASSUME TypeOK, NEW c \in Names, Open(c), NEW fired, Drop(c, fired)
    PROVE  \A d \in Names : conn'[d] = "closed" <=> conn[d] = "closed"
BY DEF TypeOK, Open, Drop

LEMMA CloseStep == Inv /\ [Next]_vars => CloseInv'
<1> SUFFICES ASSUME Inv, [Next]_vars PROVE CloseInv'
  OBVIOUS
<1>0. TypeOK /\ CloseInv
  BY DEF Inv
<1>a. config.single \in BOOLEAN
  BY <1>0, ConfigFacts DEF TypeOK
\* Steps that close nothing, and leave the stage or end it.
<1>b. ASSUME \A d \in Names : conn'[d] = "closed" <=> conn[d] = "closed",
             UNCHANGED <<config, closes>>,
             \/ server' = server \/ server' = "dead"
             \/ server = "starting" /\ server' = "configuring"
             \/ server = "configuring" /\ server' = "listening"
      PROVE  CloseInv'
  BY <1>0, <1>b DEF CloseInv, Client, Names
<1>1. ASSUME NEW c \in Names, Connect(c) \/ Connected(c) \/ Refused(c) \/ Hang(c) \/ Reconnect(c)
      PROVE  CloseInv'
  <2>1. \A d \in Names : conn'[d] = "closed" <=> conn[d] = "closed"
    BY <1>0, <1>1 DEF TypeOK, Connect, Connected, Refused, Hang, Reconnect
  <2>. QED
    BY <1>1, <1>b, <2>1 DEF Connect, Connected, Refused, Raise, Die, Hang, Reconnect
<1>2. ASSUME NEW c \in Names, Broken(c)
      PROVE  CloseInv'
  <2>1. Open(c) /\ Drop(c, {})
    BY <1>2 DEF Broken
  <2>. QED
    BY <1>0, <1>2, <1>b, <2>1, DropKeeps DEF Broken, Raise, Die
<1>3. ASSUME ConfigTimeout
      PROVE  CloseInv'
  <2>1. Open("local") /\ Drop("local", {}) /\ "local" \in Names
    BY <1>3 DEF ConfigTimeout, Names
  <2>. QED
    BY <1>0, <1>3, <1>b, <2>1, DropKeeps DEF ConfigTimeout, Die
<1>4. ASSUME LoadPluginsCfg
      PROVE  CloseInv'
  BY <1>4, <1>b DEF LoadPluginsCfg
<1>5. ASSUME NEW s \in Slots, Arrive(s) \/ Reply(s)
      PROVE  CloseInv'
  BY <1>5, <1>b DEF Arrive, Reply
<1>6. ASSUME NEW s \in Slots, Timeout(s)
      PROVE  CloseInv'
  <2>1. CASE Open("local") /\ Drop("local", {s})
    BY <1>0, <1>6, <1>b, <2>1, DropKeeps DEF Timeout, Names
  <2>2. CASE UNCHANGED <<conn, call>>
    BY <1>6, <1>b, <2>2 DEF Timeout
  <2>. QED
    BY <1>6, <2>1, <2>2 DEF Timeout, Recycled
<1>7. ASSUME Close
      PROVE  CloseInv'
  BY <1>0, <1>7 DEF TypeOK, CloseInv, Close, CloseClient, Names
<1>8. ASSUME LocalClosed
      PROVE  CloseInv'
  <2>1. CASE config.single
    BY <1>0, <1>8, <2>1 DEF TypeOK, CloseInv, LocalClosed, CloseClient, Client, Names
  <2>2. CASE ~config.single
    BY <1>0, <1>8, <2>2 DEF TypeOK, CloseInv, LocalClosed, CloseClient, Client, Names
  <2>. QED
    BY <1>a, <2>1, <2>2
<1>9. ASSUME MasterClosed
      PROVE  CloseInv'
  BY <1>0, <1>9 DEF TypeOK, CloseInv, MasterClosed, Client, Names
<1>10. ASSUME CloseFails
       PROVE  CloseInv'
  BY <1>10, <1>b DEF CloseFails, Die
<1>11. ASSUME Restart
       PROVE  CloseInv'
  BY <1>11 DEF CloseInv, Restart
<1>12. ASSUME UNCHANGED vars
       PROVE  CloseInv'
  BY <1>12, <1>b DEF vars
<1>. QED
  BY <1>1, <1>2, <1>3, <1>4, <1>5, <1>6, <1>7, <1>8, <1>9, <1>10, <1>11, <1>12 DEF Next

LEMMA ListenerStep == Inv /\ [Next]_vars => ListenerInv'
<1> SUFFICES ASSUME Inv, [Next]_vars PROVE ListenerInv'
  OBVIOUS
<1>0. TypeOK /\ ListenerInv
  BY DEF Inv
\* Steps that leave the listeners, connect nobody for the first time and do not go back
\* in the stages.
<1>a. ASSUME \A c \in Names : /\ conn'[c] = "connecting" => conn[c] = "connecting"
                              /\ conn'[c] \in {"up", "hung", "down"}
                                   => conn[c] \in {"up", "hung", "down"} \/ server' = "dead"
                              /\ conn'[c] = "connecting"
                                   => server' = server \/ server' = "dead",
             UNCHANGED listener,
             server = "dead" => server' = "dead"
      PROVE  ListenerInv'
  BY <1>0, <1>a DEF ListenerInv
<1>1. ASSUME NEW c \in Names, Connect(c)
      PROVE  ListenerInv'
  BY <1>0, <1>1 DEF ListenerInv, TypeOK, Connect
<1>2. ASSUME NEW c \in Names, Connected(c)
      PROVE  ListenerInv'
  <2>1. \A d \in Names : d # c => conn[d] # "connecting" /\ conn'[d] = conn[d]
                                     /\ listener'[d] = listener[d]
    BY <1>0, <1>2 DEF ListenerInv, TypeOK, Connected
  <2>2. conn'[c] = "up" /\ listener'[c] = "logging" /\ server = "starting"
    BY <1>0, <1>2 DEF TypeOK, Connected
  <2>. QED
    BY <1>0, <2>1, <2>2 DEF ListenerInv
<1>3. ASSUME NEW c \in Names, Refused(c)
      PROVE  ListenerInv'
  <2>1. conn[c] = "connecting" => listener[c] = "logging" \/ server' = "dead"
    BY <1>3 DEF Refused, Raise, Die
  <2>2. /\ conn' = [conn EXCEPT ![c] = "down"] /\ UNCHANGED listener
        /\ server' = server \/ server' = "dead"
    BY <1>3 DEF Refused, Raise, Die
  <2>3. conn[c] = "down" \/ conn[c] = "connecting"
    BY <1>3 DEF Refused
  <2>4. \A d \in Names : d # c => conn'[d] = conn[d]
    BY <1>0, <2>2 DEF TypeOK
  <2>5. conn'[c] = "down" /\ (listener[c] = "logging" \/ server' = "dead" \/ server = "dead")
    BY <1>0, <2>1, <2>2, <2>3 DEF ListenerInv, TypeOK
  <2>. QED
    BY <1>0, <2>2, <2>4, <2>5 DEF ListenerInv
<1>4. ASSUME NEW c \in Names, Open(c), NEW fired, Drop(c, fired), UNCHANGED listener,
             server' = server \/ server' = "dead"
      PROVE  ListenerInv'
  BY <1>0, <1>4, <1>a DEF TypeOK, Open, Drop
<1>5. ASSUME NEW c \in Names, Broken(c)
      PROVE  ListenerInv'
  BY <1>4, <1>5 DEF Broken, Raise, Die
<1>6. ASSUME NEW c \in Names, Hang(c) \/ Reconnect(c)
      PROVE  ListenerInv'
  BY <1>0, <1>6, <1>a DEF TypeOK, Hang, Reconnect
<1>7. ASSUME LoadPluginsCfg
      PROVE  ListenerInv'
  BY <1>0, <1>7 DEF ListenerInv, LoadPluginsCfg
<1>8. ASSUME ConfigTimeout
      PROVE  ListenerInv'
  <2>1. "local" \in Names
    BY DEF Names
  <2>. QED
    BY <1>4, <1>8, <2>1 DEF ConfigTimeout, Die
<1>9. ASSUME NEW s \in Slots, Arrive(s) \/ Reply(s)
      PROVE  ListenerInv'
  BY <1>0, <1>9 DEF ListenerInv, Arrive, Reply
<1>10. ASSUME NEW s \in Slots, Timeout(s)
       PROVE  ListenerInv'
  <2>1. UNCHANGED <<server, listener>> /\ "local" \in Names
    BY <1>10 DEF Timeout, Names
  <2>2. CASE Open("local") /\ Drop("local", {s})
    BY <1>4, <2>1, <2>2
  <2>3. CASE UNCHANGED conn
    BY <1>0, <2>1, <2>3 DEF ListenerInv
  <2>. QED
    BY <1>10, <2>2, <2>3 DEF Timeout, Recycled
<1>11. ASSUME Close \/ LocalClosed \/ MasterClosed
       PROVE  ListenerInv'
  BY <1>0, <1>11 DEF ListenerInv, TypeOK, Close, LocalClosed, MasterClosed
<1>12. ASSUME CloseFails
       PROVE  ListenerInv'
  BY <1>0, <1>12 DEF ListenerInv, CloseFails, Die
<1>13. ASSUME Restart
       PROVE  ListenerInv'
  BY <1>13 DEF ListenerInv, Restart
<1>14. ASSUME UNCHANGED vars
       PROVE  ListenerInv'
  BY <1>0, <1>14 DEF ListenerInv, vars
<1>. QED
  BY <1>1, <1>2, <1>3, <1>5, <1>6, <1>7, <1>8, <1>9, <1>10, <1>11, <1>12, <1>13, <1>14 DEF Next

\* Only LoadPluginsCfg makes the server listen; what it loaded stays while it does.
LEMMA LoadedStep == Inv /\ [Next]_vars => LoadedInv'
<1> SUFFICES ASSUME Inv, [Next]_vars, server' = "listening"
             PROVE  plugins' = IF config'.file = {} THEN <<>>
                               ELSE LoadPlugins(Listed(config'), config'.ufds)
  BY DEF LoadedInv
<1>1. CASE LoadPluginsCfg
  BY <1>1 DEF LoadPluginsCfg, Listed
<1>2. CASE ~LoadPluginsCfg
  <2>1. server = "listening" /\ UNCHANGED <<config, plugins>>
    BY <1>2 DEF Next, Connect, Connected, Refused, Raise, Die, Broken, Hang, Reconnect, ConfigTimeout,
        Arrive, Reply, Timeout, Close, LocalClosed, MasterClosed, CloseFails, Restart, vars
  <2>. QED
    BY <2>1 DEF Inv, LoadedInv
<1>. QED
  BY <1>1, <1>2

-----------------------------------------------------------------------------
(* The theorems. *)

THEOREM Invariance == Spec => []Inv
<1>1. Inv /\ [Next]_vars => Inv'
  BY TypeStep, CloseStep, ListenerStep, LoadedStep DEF Inv
<1>. QED
  BY <1>1, InitInv, PTL DEF Spec

\* The variables keep their types: a connection, a call and a stage are always one of
\* those the handlers of lib/app.js know, however connections fail.
THEOREM TypeCorrect == Spec => []TypeOK
<1>1. Inv => TypeOK
  BY DEF Inv
<1>. QED
  BY <1>1, Invariance, PTL

\* server.on("close") closes every connection and none of them twice, with one url or
\* two, whatever happens to the connections meanwhile.
THEOREM EachClosedOnce == Spec => []ClosedOnce
<1>1. Inv => ClosedOnce
  BY DEF Inv, CloseInv, ClosedOnce
<1>. QED
  BY <1>1, Invariance, PTL

\* loadPlugins lets UFDS prevail over the configuration file, for any list of the
\* file, be a name in it twice or not.
THEOREM UfdsPrevails == Spec => []UfdsConfigPrevails
<1>1. Inv => UfdsConfigPrevails
  <2> SUFFICES ASSUME Inv, server = "listening"
               PROVE  /\ (\A f \in config.file : NamedOnce(f)) => NamedOnce(plugins)
                      /\ \A i \in DOMAIN plugins :
                          NamedIn(config.ufds, plugins[i].name) => plugins[i].from = "ufds"
                      /\ config.file # {} =>
                          \A i \in DOMAIN config.ufds :
                              config.ufds[i].enabled <=> NamedIn(plugins, config.ufds[i].name)
    BY DEF UfdsConfigPrevails
  <2>1. config \in Configs
    BY DEF Inv, TypeOK
  <2>2. CASE config.file = {}
    <3>1. plugins = <<>>
      BY <2>2 DEF Inv, LoadedInv
    <3>. QED
      BY <2>2, <3>1 DEF NamedOnce
  <2>3. CASE config.file # {}
    <3>1. plugins = LoadPlugins(Listed(config), config.ufds)
      BY <2>3 DEF Inv, LoadedInv
    <3>2. /\ config.ufds \in Seq(UfdsPlugin) /\ NamedOnce(config.ufds)
          /\ Listed(config) \in config.file /\ Listed(config) \in Seq(FilePlugin)
      BY <2>1, <2>3, ConfigFacts
    <3>3. ASSUME NEW i \in DOMAIN config.ufds
          PROVE  config.ufds[i].enabled <=> NamedIn(plugins, config.ufds[i].name)
      BY <3>1, <3>2, LoadedWhenEnabled
    <3>. QED
      BY <3>1, <3>2, <3>3, LoadedOnce
  <2>. QED
    BY <2>2, <2>3
<1>. QED
  BY <1>1, Invariance, PTL

\* No error of a client ends a process that listens, by ListenerInv: whichever of them
\* raises it has been connected, and its listener logs.
THEOREM LossIsSurvived == Spec => ConnectionLossIsSurvived
<1>1. Inv /\ [Next]_vars => [server = "listening" => server' # "dead"]_vars
  <2> SUFFICES ASSUME Inv, [Next]_vars, server = "listening"
               PROVE  server' # "dead"
    OBVIOUS
  <2>1. ASSUME NEW c \in Names, conn[c] \in {"connecting", "up", "hung", "down"}, Raise(c)
        PROVE  server' # "dead"
    BY <2>1 DEF Inv, ListenerInv, Raise
  <2>2. ASSUME NEW c \in Names, Broken(c) \/ Refused(c)
        PROVE  server' # "dead"
    BY <2>1, <2>2 DEF Broken, Refused, Open
  <2>. QED
    BY <2>2 DEF Next, Connect, Connected, Hang, Reconnect, LoadPluginsCfg, ConfigTimeout,
        Arrive, Reply, Timeout, Close, LocalClosed, MasterClosed, CloseFails, Restart, vars
<1>. QED
  BY <1>1, Invariance, PTL DEF Spec, ConnectionLossIsSurvived

=============================================================================
