----------------------------- MODULE Connections -----------------------------
(***************************************************************************)
(* The three network tasks and the pool of netconns they share.  The       *)
(* Modbus server (modbusServerTSK.cpp, porttcp.cpp, mb.c) and the web      *)
(* server (httpServerTSK.c) each hold a listening netconn for ever and     *)
(* serve one client at a time; radmonClient.cpp opens a connection for     *)
(* every report.  lwIP takes a netconn from the pool when a client         *)
(* connects, before the server accepts it.  Binding and listening succeed: *)
(* the two ports are used once.                                            *)
(***************************************************************************)
EXTENDS Integers, Sequences, FiniteSets, Functions

CONSTANTS
    Netconns,   \* the pool, MEMP_NUM_NETCONN of them
    None,       \* no netconn
    Refused,    \* the message of an accept box that says a client found the pool empty
    MaxBox,     \* bound: messages in an accept box
    MaxSent,    \* bound: requests of a client that were not received yet
    Setup       \* radmon: calls made once the address of the site is known

ASSUME ConnectionsAssumption ==
    /\ None \notin Netconns
    /\ Refused \notin Netconns
    /\ MaxBox \in Nat
    /\ MaxSent \in Nat
    /\ Setup \in Nat \ {0}

Servers == {"modbus", "http"}

VARIABLES
    free,       \* the netconns in the pool
    lost,       \* history: netconns that are not in the pool and no pointer leads to
    peer,       \* the other end of a client's connection
    box,        \* the accept boxes of the two listening netconns
    modbus,     \* porttcp.cpp: conn, newconn; portevent.c: the queued event
    http,       \* httpServerTSK.c: conn, newconn
    radmon,     \* radmonClient.cpp: conn and the calls to make
    halted      \* a fault has stopped the processor

vars == <<free, lost, peer, box, modbus, http, radmon, halted>>

\* A netconn nobody is connected to.
Gone == [open |-> FALSE, took |-> FALSE, sent |-> 0, owed |-> 0]

\* netconn_write of more than the send buffer holds ends when the client took it, or
\* with an error when the connection is gone; it has no time limit.
Written(n) == peer[n].took \/ ~peer[n].open

\* The netconn the pool gives away next.
Given == CHOOSE n \in free : TRUE

\* What a set of pointers leads to.
Pointed(ptrs) == ptrs \ {None, Refused}

Boxed(s) == Pointed(Range(box[s]))

\* The processor goes on.
Runs == ~halted /\ UNCHANGED halted

-------------------------------------------------------------------------------
\* The clients, and lwIP on their behalf.

\* accept_function: the connection is put into the accept box, or the news that
\* there was no netconn for it.
ClientConnects(s) ==
    /\ Runs
    /\ IF s = "modbus" THEN modbus.listener # None ELSE http.listener # None
    /\ Len(box[s]) < MaxBox                                 \* bound
    /\ \/ /\ free # {}
          /\ free' = free \ {Given}
          /\ peer' = [peer EXCEPT ![Given] = [Gone EXCEPT !.open = TRUE]]
          /\ box' = [box EXCEPT ![s] = Append(@, Given)]
       \/ /\ free = {}
          /\ box' = [box EXCEPT ![s] = Append(@, Refused)]
          /\ UNCHANGED <<free, peer>>
    /\ UNCHANGED <<lost, modbus, http, radmon>>

ClientSends(n) ==
    /\ Runs
    /\ peer[n].open
    /\ peer[n].sent < MaxSent                               \* bound
    /\ peer' = [peer EXCEPT ![n].sent = @ + 1]
    /\ UNCHANGED <<free, lost, box, modbus, http, radmon>>

\* A client reads all that is being written to it.
ClientReads(n) ==
    /\ Runs
    /\ \/ modbus.at = "write" /\ n = modbus.conn
       \/ http.at = "send" /\ n = http.conn
    /\ peer[n].open
    /\ peer' = [peer EXCEPT ![n].took = TRUE]
    /\ UNCHANGED <<free, lost, box, modbus, http, radmon>>

ClientCloses(n) ==
    /\ Runs
    /\ peer[n].open
    /\ peer' = [peer EXCEPT ![n].open = FALSE]
    /\ UNCHANGED <<free, lost, box, modbus, http, radmon>>

-------------------------------------------------------------------------------
\* The Modbus server.

\* xMBTCPPortInit.  Without a netconn eMBTCPInit leaves the frame functions unset
\* and eMBEnable calls one of them.
ModbusListens ==
    /\ Runs
    /\ modbus.at = "init"
    /\ free # {}
    /\ free' = free \ {Given}
    /\ modbus' = [modbus EXCEPT !.at = "poll", !.listener = Given]
    /\ UNCHANGED <<lost, peer, box, http, radmon>>

ModbusFaults ==
    /\ ~halted
    /\ modbus.at = "init"
    /\ free = {}
    /\ halted' = TRUE
    /\ UNCHANGED <<free, lost, peer, box, modbus, http, radmon>>

\* Mutant: the next frame is asked for while one waits to be executed.
MayPoll_always == TRUE

MayPoll == modbus.event # "EV_EXECUTE"

\* xMBPortTCPPoll without a client.  A time limit of the accept changes nothing.
ModbusAccepts ==
    /\ Runs
    /\ modbus.at = "poll"
    /\ MayPoll
    /\ modbus.conn = None
    /\ box["modbus"] # <<>>
    /\ LET m == Head(box["modbus"]) IN
       modbus' = IF m = Refused THEN modbus
                 ELSE [modbus EXCEPT !.at = "recv", !.conn = m, !.event = "none"]
    /\ box' = [box EXCEPT !["modbus"] = Tail(@)]
    /\ UNCHANGED <<free, lost, peer, http, radmon>>

\* xMBPortTCPPoll with a client: EV_FRAME_RECEIVED is posted and taken at once.
ModbusPolls ==
    /\ Runs
    /\ modbus.at = "poll"
    /\ MayPoll
    /\ modbus.conn # None
    /\ modbus' = [modbus EXCEPT !.at = "recv", !.event = "none"]
    /\ UNCHANGED <<free, lost, peer, box, http, radmon>>

\* eMBTCPReceive: only a frame of the Modbus protocol is executed.
ModbusReceives ==
    /\ Runs
    /\ modbus.at = "recv"
    /\ peer[modbus.conn].sent > 0
    /\ \E valid \in BOOLEAN :
        /\ modbus' = [modbus EXCEPT !.at = "poll", !.event = IF valid THEN "EV_EXECUTE" ELSE @]
        /\ peer' = [peer EXCEPT ![modbus.conn].sent = @ - 1,
                                ![modbus.conn].owed = IF valid THEN @ + 1 ELSE @]
    /\ UNCHANGED <<free, lost, box, http, radmon>>

\* Mutant: the connection that failed is not deleted.
AfterDrop_kept == free

AfterDrop == free \cup {modbus.conn}

\* Mutant: newconn keeps its value.
WithoutClient_kept == [modbus EXCEPT !.at = "poll"]

WithoutClient == [modbus EXCEPT !.at = "poll", !.conn = None]

\* netconn_recv fails: the connection is deleted.
ModbusDrops ==
    /\ Runs
    /\ modbus.at = "recv"
    /\ ~peer[modbus.conn].open
    /\ peer[modbus.conn].sent = 0
    /\ free' = AfterDrop
    /\ peer' = [peer EXCEPT ![modbus.conn] = Gone]
    /\ modbus' = WithoutClient
    /\ UNCHANGED <<lost, box, http, radmon>>

\* The answer waits in "write" if the send buffer is full of answers the master did
\* not read.
ModbusExecutes ==
    /\ Runs
    /\ modbus.at = "poll"
    /\ modbus.event = "EV_EXECUTE"
    /\ \E next \in {"exec", "write"} :
          modbus' = [modbus EXCEPT !.at = next, !.event = "none"]
    /\ UNCHANGED <<free, lost, peer, box, http, radmon>>

\* eMBTCPSend: the answer, an exception or not, goes to newconn.
ModbusAnswers ==
    /\ Runs
    /\ \/ modbus.at = "exec"
       \/ modbus.at = "write" /\ Written(modbus.conn)
    /\ modbus' = [modbus EXCEPT !.at = "poll"]
    /\ peer' = [peer EXCEPT ![modbus.conn].owed = @ - 1, ![modbus.conn].took = FALSE]
    /\ UNCHANGED <<free, lost, box, http, radmon>>

-------------------------------------------------------------------------------
\* The web server.

HttpListens ==
    /\ Runs
    /\ http.at = "init"
    /\ free # {}
    /\ free' = free \ {Given}
    /\ http' = [http EXCEPT !.at = "accept", !.listener = Given]
    /\ UNCHANGED <<lost, peer, box, modbus, radmon>>

HttpEnds ==
    /\ Runs
    /\ http.at = "init"
    /\ free = {}
    /\ http' = [http EXCEPT !.at = "deleted"]
    /\ UNCHANGED <<free, lost, peer, box, modbus, radmon>>

\* The time limit is set before the result of the accept is looked at: without a
\* connection it is written through a null pointer, which may be a fault.
HttpAccepts ==
    /\ ~halted
    /\ http.at = "accept"
    /\ box["http"] # <<>>
    /\ LET m == Head(box["http"]) IN
       \/ /\ m # Refused
          /\ http' = [http EXCEPT !.at = "recv", !.conn = m]
          /\ UNCHANGED halted
       \/ /\ m = Refused
          /\ halted' \in BOOLEAN
          /\ UNCHANGED http
    /\ box' = [box EXCEPT !["http"] = Tail(@)]
    /\ UNCHANGED <<free, lost, peer, modbus, radmon>>

\* Mutant: the time limit is set on the listening connection, as porttcp.cpp does.
ReceiveEnds_no_limit == peer[http.conn].sent > 0 \/ ~peer[http.conn].open

\* Data, an error of the connection, or the time limit of 3 s: always enabled.
ReceiveEnds == TRUE

\* http_server_serve: one request at most is received.  A page that fits into the
\* send buffer is written at once; favicon.png does not fit.
HttpServes ==
    /\ Runs
    /\ http.at = "recv"
    /\ ReceiveEnds
    /\ \/ http' = [http EXCEPT !.at = "close"]
       \/ /\ peer[http.conn].sent > 0
          /\ http' = [http EXCEPT !.at = "send"]
    /\ peer' = [peer EXCEPT ![http.conn].sent = IF @ > 0 THEN @ - 1 ELSE 0]
    /\ UNCHANGED <<free, lost, box, modbus, radmon>>

\* The rest of the page has been taken, or the connection is gone.
HttpSends ==
    /\ Runs
    /\ http.at = "send"
    /\ Written(http.conn)
    /\ http' = [http EXCEPT !.at = "close"]
    /\ peer' = [peer EXCEPT ![http.conn].took = FALSE]
    /\ UNCHANGED <<free, lost, box, modbus, radmon>>

HttpDeletes ==
    /\ Runs
    /\ http.at = "close"
    /\ free' = free \cup {http.conn}
    /\ peer' = [peer EXCEPT ![http.conn] = Gone]
    /\ http' = [http EXCEPT !.at = "accept", !.conn = None]
    /\ UNCHANGED <<lost, box, modbus, radmon>>

-------------------------------------------------------------------------------
\* The client of radmon.org.

\* The network is there and the name was found; a lookup that fails is repeated
\* for ever and changes nothing.
RadmonResolves ==
    /\ Runs
    /\ radmon.at = "resolve"
    /\ radmon' = [radmon EXCEPT !.at = "new", !.calls = Setup]
    /\ UNCHANGED <<free, lost, peer, box, modbus, http>>

RadmonAllocates ==
    /\ Runs
    /\ radmon.at = "new"
    /\ \/ /\ free # {}
          /\ free' = free \ {Given}
          /\ radmon' = [radmon EXCEPT !.at = "connect", !.conn = Given]
       \/ /\ free = {}
          /\ radmon' = [radmon EXCEPT !.at = "deleted"]
          /\ UNCHANGED free
    /\ UNCHANGED <<lost, peer, box, modbus, http>>

\* Mutant: one call too many.
Called_once_more == [at |-> IF radmon.calls = 0 THEN "sleep" ELSE "new", conn |-> None,
                     calls |-> radmon.calls - 1, heard |-> FALSE]

\* The call is over, whatever came of it.
Called == [at |-> IF radmon.calls = 1 THEN "sleep" ELSE "new", conn |-> None,
           calls |-> radmon.calls - 1, heard |-> FALSE]

\* A connect that fails forgets its netconn.
RadmonConnects ==
    /\ Runs
    /\ radmon.at = "connect"
    /\ \/ /\ radmon' = [radmon EXCEPT !.at = "talk"]
          /\ UNCHANGED lost
       \/ /\ radmon' = Called
          /\ lost' = lost \cup {radmon.conn}
    /\ UNCHANGED <<free, peer, box, modbus, http>>

\* The site answers or ends the connection; there is no time limit.
SiteAnswers ==
    /\ Runs
    /\ radmon.at = "talk"
    /\ ~radmon.heard
    /\ radmon' = [radmon EXCEPT !.heard = TRUE]
    /\ UNCHANGED <<free, lost, peer, box, modbus, http>>

\* Mutant: the connection is closed and not deleted.
AfterReport_closed == free

AfterReport == free \cup {radmon.conn}

RadmonDeletes ==
    /\ Runs
    /\ radmon.at = "talk"
    /\ radmon.heard
    /\ free' = AfterReport
    /\ radmon' = Called
    /\ UNCHANGED <<lost, peer, box, modbus, http>>

\* Every 30 s, once a minute has been counted.
RadmonWakes ==
    /\ Runs
    /\ radmon.at = "sleep"
    /\ radmon' = [radmon EXCEPT !.at = "new", !.calls = 1]
    /\ UNCHANGED <<free, lost, peer, box, modbus, http>>

-------------------------------------------------------------------------------
Init ==
    /\ free = Netconns
    /\ lost = {}
    /\ peer = [n \in Netconns |-> Gone]
    /\ box = [s \in Servers |-> <<>>]
    /\ modbus = [at |-> "init", listener |-> None, conn |-> None, event |-> "none"]
    /\ http = [at |-> "init", listener |-> None, conn |-> None]
    /\ radmon = [at |-> "resolve", conn |-> None, calls |-> 0, heard |-> FALSE]
    /\ halted = FALSE

\* What happens outside the device.
Outside ==
    \/ \E s \in Servers : ClientConnects(s)
    \/ \E n \in Netconns : ClientSends(n) \/ ClientReads(n) \/ ClientCloses(n)
    \/ SiteAnswers

\* Each server waits for the network before it listens.
ModbusStarts == ModbusListens \/ ModbusFaults
HttpStarts == HttpListens \/ HttpEnds

ModbusServes ==
    \/ ModbusAccepts \/ ModbusPolls \/ ModbusReceives \/ ModbusDrops
    \/ ModbusExecutes \/ ModbusAnswers

HttpTask == HttpAccepts \/ HttpServes \/ HttpSends \/ HttpDeletes

RadmonReports == RadmonAllocates \/ RadmonConnects \/ RadmonDeletes

Next ==
    \/ Outside
    \/ ModbusStarts \/ ModbusServes
    \/ HttpStarts \/ HttpTask
    \/ RadmonResolves \/ RadmonReports \/ RadmonWakes

\* Every task runs when it is ready: the tasks above them sleep most of the time.
\* Nothing is assumed of the network, of a lookup or of the minute a report needs.
Fairness ==
    /\ WF_vars(ModbusServes)
    /\ WF_vars(HttpTask)
    /\ WF_vars(RadmonReports)

Spec == Init /\ [][Next]_vars /\ Fairness
-------------------------------------------------------------------------------
\* Properties

TypeOK ==
    /\ free \subseteq Netconns
    /\ lost \subseteq Netconns
    /\ peer \in [Netconns -> [open : BOOLEAN, took : BOOLEAN, sent : 0..MaxSent, owed : Int]]
    /\ box \in [Servers -> Seq(Netconns \cup {Refused})]
    /\ modbus \in [at : {"init", "poll", "recv", "exec", "write"}, listener : Netconns \cup {None},
                   conn : Netconns \cup {None}, event : {"none", "EV_EXECUTE"}]
    /\ http \in [at : {"init", "accept", "recv", "send", "close", "deleted"},
                 listener : Netconns \cup {None}, conn : Netconns \cup {None}]
    /\ radmon \in [at : {"resolve", "new", "connect", "talk", "sleep", "deleted"},
                   conn : Netconns \cup {None}, calls : 0..Setup, heard : BOOLEAN]
    /\ halted \in BOOLEAN

\* The netconns by where they are.
Places == <<free, lost, Pointed({modbus.listener}), Pointed({modbus.conn}),
            Pointed({http.listener}), Pointed({http.conn}), Pointed({radmon.conn}),
            Boxed("modbus"), Boxed("http")>>

\* No netconn is used by two tasks, or used after it went back to the pool: nothing
\* but the order of the calls in the three tasks keeps them apart.
NoneShared ==
    /\ LET P == Places IN \A i, j \in DOMAIN P : i < j => P[i] \cap P[j] = {}
    /\ \A s \in Servers : \A i, j \in DOMAIN box[s] :
          box[s][i] = box[s][j] => i = j \/ box[s][i] = Refused

\* Every netconn is in the pool, in use, or was dropped by a connect that failed:
\* no other path of the three tasks forgets one.
NoneForgotten == UNION Range(Places) = Netconns

\* The answer in preparation.
Executing(n) ==
    IF n = modbus.conn /\ (modbus.event = "EV_EXECUTE" \/ modbus.at \in {"exec", "write"}) THEN 1 ELSE 0

\* Every request that was received is answered once, to the client that sent it and
\* before the next one is received, although the queue of events has one place and
\* the connection is a global that every poll may replace.
AnsweredInTurn == \A n \in Netconns : peer[n].owed = Executing(n)

BrowsersRead == []<>(http.at = "send" => Written(http.conn))

\* No silent browser keeps the web server (httpServerTSK.c:169): the server gives
\* every connection it accepted back to the pool, provided that a browser that asked
\* for a page larger than the send buffer reads it or leaves.  Without that premise
\* it does not hold: the write at line 100 has no time limit.
BrowsersLetGo ==
    BrowsersRead => (http.conn # None) ~> (http.conn = None \/ halted)

MastersLeave == []<>(modbus.conn = None \/ ~peer[modbus.conn].open)

\* No client of the Modbus server waits for ever: as long as one does the server goes
\* on accepting, first come, first served (porttcp.cpp:212-224), provided that the
\* clients close their connections.  The server itself never ends one: the time limit
\* of line 222 is set on the wrong connection.
MastersAreServed ==
    MastersLeave =>
        []<>(box["modbus"] = <<>> \/ halted) \/ []<><<ModbusAccepts>>_vars

ClientsHold == Pointed({modbus.conn, http.conn}) \cup Boxed("modbus") \cup Boxed("http")

\* The device goes on reporting if the name of the site is found once, the site
\* answers, and the netconns that clients hold and that failed connects left behind
\* (radmonClient.cpp:69) leave one besides the two that listen.
RadmonGoesOn ==
    /\ <>(radmon.at # "resolve")
    /\ []<>(radmon.at = "talk" => radmon.heard)
    /\ [](~halted /\ Cardinality(lost) + Cardinality(ClientsHold) + 3 <= Cardinality(Netconns))
    => []<>(radmon.at = "sleep")
===============================================================================
