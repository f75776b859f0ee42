--------------------------------- MODULE Sntp ---------------------------------
(***************************************************************************)
(* The SNTP client (sntp.c): one request at a time is meant to be under    *)
(* way, held by a timer of lwIP or by a DNS lookup, until the first        *)
(* correct answer sets the clock.  The handlers run one at a time, under   *)
(* the core lock of lwIP.  Answers may be lost, late or overtaken by the   *)
(* timer that gives them up.                                               *)
(***************************************************************************)
EXTENDS Integers

CONSTANTS
    NServers,       \* number of server names
    MaxChains,      \* bound: timers and lookups at the same time
    MaxAnswers      \* bound: answers on their way at the same time

ASSUME SntpAssumption ==
    /\ NServers \in Nat \ {0}
    /\ MaxChains \in Nat \ {0}
    /\ MaxAnswers \in Nat \ {0}

VARIABLES
    server,     \* sntp_current_server
    pending,    \* what will lead to another request, and the answers on their way
    pcbOpen,    \* sntp_pcb exists: the client was started and the clock is not set
    synced,     \* history: the clock was set
    overlap     \* history: a packet came in during a lookup

vars == <<server, pending, pcbOpen, synced, overlap>>

\* next and request count the timers for sntp_try_next_server and sntp_request,
\* lookups the calls of sntp_dns_found to come.
Nothing == [next |-> 0, request |-> 0, lookups |-> 0, answers |-> 0]

Chains(p) == p.next + p.request + p.lookups

Kinds == {"time", "kissOfDeath", "invalid"}

-------------------------------------------------------------------------------
(* What each function may leave pending: allocation of the packet, the DNS *)
(* cache and the DNS table decide between the outcomes.                    *)

\* The packet goes out and will be answered; the answer to one sent from a
\* removed pcb finds nobody.
udp_sendto(p) ==
    IF pcbOpen /\ p.answers < MaxAnswers THEN [p EXCEPT !.answers = @ + 1] ELSE p

sntp_send_request(p) ==
    {[udp_sendto(p) EXCEPT !.next = @ + 1], [p EXCEPT !.request = @ + 1]}

\* Mutant: a name that cannot be looked up is given up.
sntp_request_gives_up(p) ==
    {[p EXCEPT !.lookups = @ + 1], p} \cup sntp_send_request(p)

sntp_request(p) ==
    {[p EXCEPT !.lookups = @ + 1], [p EXCEPT !.next = @ + 1]} \cup sntp_send_request(p)

sntp_try_next_server(p) ==
    IF NServers > 1 THEN sntp_request(p) ELSE {[p EXCEPT !.request = @ + 1]}

\* Mutant: the wrap-around compares with > instead of >=.
NextServer_past_end == IF server >= NServers THEN 0 ELSE server + 1

NextServer == (server + 1) % NServers

-------------------------------------------------------------------------------
(* Timers and callbacks.                                                   *)

RequestTimer ==
    /\ pending.request > 0
    /\ pending' \in sntp_request([pending EXCEPT !.request = @ - 1])
    /\ UNCHANGED <<server, pcbOpen, synced, overlap>>

NextServerTimer ==
    /\ pending.next > 0
    /\ server' = NextServer
    /\ pending' \in sntp_try_next_server([pending EXCEPT !.next = @ - 1])
    /\ UNCHANGED <<pcbOpen, synced, overlap>>

sntp_dns_found(found) ==
    LET rest == [pending EXCEPT !.lookups = @ - 1]
    IN  /\ pending.lookups > 0
        /\ IF found
           THEN pending' \in sntp_send_request(rest) /\ UNCHANGED server
           ELSE pending' \in sntp_try_next_server(rest) /\ server' = NextServer
        /\ UNCHANGED <<pcbOpen, synced, overlap>>

\* sys_untimeout cancels one timer.
sys_untimeout(count) == IF count > 0 THEN count - 1 ELSE 0

\* Mutant: the timer that gives up on the server is left running.
Received_keeps_timer ==
    [pending EXCEPT !.answers = @ - 1, !.request = sys_untimeout(@)]

\* A packet has arrived and both timers are cancelled.
Received ==
    [pending EXCEPT !.answers = @ - 1, !.next = sys_untimeout(@), !.request = sys_untimeout(@)]

\* Mutant: an answer that cannot be used ends the exchange.
Retry_forgotten == Received

\* The same server is asked again later.
Retry == [Received EXCEPT !.request = @ + 1]

sntp_recv(kind) ==
    /\ pcbOpen
    /\ pending.answers > 0
    /\ kind # "time" => Chains(Received) < MaxChains     \* bound
    /\ overlap' = (overlap \/ pending.lookups > 0)
    /\ \/ /\ kind = "time"
          /\ pending' = [Received EXCEPT !.answers = 0]
          /\ synced' = TRUE
          /\ pcbOpen' = FALSE
          /\ UNCHANGED server
       \/ /\ kind = "kissOfDeath"
          /\ pending' \in sntp_try_next_server(Received)
          /\ server' = NextServer
          /\ UNCHANGED <<pcbOpen, synced>>
       \/ /\ kind = "invalid"
          /\ pending' = Retry
          /\ UNCHANGED <<server, pcbOpen, synced>>

AnswerLost ==
    /\ pending.answers > 0
    /\ pending' = [pending EXCEPT !.answers = @ - 1]
    /\ UNCHANGED <<server, pcbOpen, synced, overlap>>

-------------------------------------------------------------------------------
\* sntp_init: without a pcb the client is never started.
Init ==
    /\ server = 0
    /\ pcbOpen \in BOOLEAN
    /\ synced = FALSE
    /\ overlap = FALSE
    /\ IF pcbOpen THEN pending \in sntp_request(Nothing) ELSE pending = Nothing

Handler ==
    \/ RequestTimer
    \/ NextServerTimer
    \/ \E found \in BOOLEAN : sntp_dns_found(found)

Next ==
    \/ Handler
    \/ \E kind \in Kinds : sntp_recv(kind)
    \/ AnswerLost

Spec == Init /\ [][Next]_vars

\* lwIP runs its timers and ends every lookup with a callback.  A network that is
\* asked again and again lets some request through and some correct answer back.
Sent == Handler /\ pending'.answers > pending.answers

Fairness ==
    /\ WF_vars(Handler)
    /\ SF_vars(Sent)
    /\ SF_vars(sntp_recv("time"))

FairSpec == Spec /\ Fairness

-------------------------------------------------------------------------------
\* Properties

Pending == [next : Nat, request : Nat, lookups : Nat, answers : 0..MaxAnswers]

\* Every variable keeps to its range; the timers and lookups keep to the bound.
TypeOK ==
    /\ server \in 0..(NServers - 1)
    /\ pending \in Pending
    /\ Chains(pending) <= MaxChains
    /\ pcbOpen \in BOOLEAN
    /\ synced \in BOOLEAN
    /\ overlap \in BOOLEAN

\* A client that got its pcb never waits for nothing until the clock is set:
\* whatever failed or was answered, a timer or a lookup will lead to another
\* request (sntp.c:170-321).
KeepsTrying == pcbOpen => Chains(pending) > 0

\* As long as no packet has come in during a lookup, exactly one request is under
\* way, and none once the clock is set: no handler leaves a timer behind
\* (sntp.c:200-202) or starts a second chain of requests.
OneChain == ~overlap => Chains(pending) = IF pcbOpen THEN 1 ELSE 0

\* A client that got its pcb sets the clock in the end.
EventuallySynced == pcbOpen ~> synced

\* Single synchronisation (sntp.c:31-34): once the clock is set, nothing is left
\* that would send another request from the removed pcb.
SingleSync == synced => Chains(pending) = 0
===============================================================================
