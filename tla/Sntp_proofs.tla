----------------------------- MODULE Sntp_proofs -----------------------------
(***************************************************************************)
(* Proofs about the SNTP client, for any number of servers and any bounds. *)
(***************************************************************************)
EXTENDS Sntp, TLAPS

\* The type invariant without the bound on the chains.
TypeInv ==
    /\ server \in 0..(NServers - 1)
    /\ pending \in Pending
    /\ pcbOpen \in BOOLEAN
    /\ synced \in BOOLEAN
    /\ overlap \in BOOLEAN

\* The answer that sets the clock removes the pcb.
PcbInv == synced => ~pcbOpen

IInv == TypeInv /\ PcbInv /\ Chains(pending) <= MaxChains /\ KeepsTrying /\ OneChain

-------------------------------------------------------------------------------
(* Every path through the request functions leaves exactly one more timer  *)
(* or lookup behind.                                                       *)

LEMMA SendAddsOne ==
    ASSUME NEW p \in Pending, NEW q \in sntp_send_request(p)
    PROVE  q \in Pending /\ Chains(q) = Chains(p) + 1
  BY SntpAssumption DEF sntp_send_request, udp_sendto, Pending, Chains

LEMMA RequestAddsOne ==
    ASSUME NEW p \in Pending, NEW q \in sntp_request(p)
    PROVE  q \in Pending /\ Chains(q) = Chains(p) + 1
<1>1. CASE q \in sntp_send_request(p)
  BY <1>1, SendAddsOne
<1>2. CASE q \notin sntp_send_request(p)
  BY <1>2 DEF sntp_request, Pending, Chains
<1> QED BY <1>1, <1>2

LEMMA TryNextAddsOne ==
    ASSUME NEW p \in Pending, NEW q \in sntp_try_next_server(p)
    PROVE  q \in Pending /\ Chains(q) = Chains(p) + 1
<1>1. CASE NServers > 1
  BY <1>1, RequestAddsOne DEF sntp_try_next_server
<1>2. CASE ~(NServers > 1)
  BY <1>2 DEF sntp_try_next_server, Pending, Chains
<1> QED BY <1>1, <1>2

LEMMA NextServerTyped ==
    ASSUME server \in 0..(NServers - 1)
    PROVE  NextServer \in 0..(NServers - 1)
  BY SntpAssumption DEF NextServer

\* A packet takes at most the two timers away, never a lookup.
LEMMA ReceivedTakes ==
    ASSUME TypeInv, pending.answers > 0
    PROVE  /\ Received \in Pending
           /\ Chains(Received) <= Chains(pending)
           /\ Chains(pending) = 1 /\ pending.lookups = 0 => Chains(Received) = 0
<1>1. /\ pending.next \in Nat /\ pending.request \in Nat /\ pending.lookups \in Nat
      /\ pending.answers \in 0..MaxAnswers /\ DOMAIN pending = {"next", "request", "lookups", "answers"}
  BY DEF TypeInv, Pending
<1>2. \A n \in Nat : sys_untimeout(n) \in Nat /\ sys_untimeout(n) <= n /\ (n <= 1 => sys_untimeout(n) = 0)
  BY DEF sys_untimeout
<1>3. /\ Received.next = sys_untimeout(pending.next)
      /\ Received.request = sys_untimeout(pending.request)
      /\ Received.lookups = pending.lookups
      /\ Received.answers = pending.answers - 1
  BY DEF Received, TypeInv, Pending
<1>4. Received \in Pending
  <2>1. \A x, y \in Nat, z \in 0..MaxAnswers :
          [pending EXCEPT !.answers = z, !.next = x, !.request = y] \in Pending
    BY DEF TypeInv, Pending
  <2>2. pending.answers - 1 \in 0..MaxAnswers
    BY <1>1, SntpAssumption
  <2> QED BY <1>1, <1>2, <2>1, <2>2 DEF Received
<1>5. /\ Received.next \in Nat /\ Received.next <= pending.next
      /\ Received.request \in Nat /\ Received.request <= pending.request
      /\ pending.next <= 1 => Received.next = 0
      /\ pending.request <= 1 => Received.request = 0
  BY <1>1, <1>2, <1>3
<1> QED BY <1>1, <1>3, <1>4, <1>5 DEF Chains

\* A handler that consumes one timer or lookup and leaves one more keeps the count.
LEMMA SameCount ==
    ASSUME IInv, Chains(pending) > 0, pending' \in Pending,
           Chains(pending') = Chains(pending), server' \in 0..(NServers - 1),
           UNCHANGED <<pcbOpen, synced, overlap>>
    PROVE  IInv'
  BY DEF IInv, TypeInv, PcbInv, KeepsTrying, OneChain

-------------------------------------------------------------------------------

LEMMA InitInv == Init => IInv
<1> SUFFICES ASSUME Init PROVE IInv
  OBVIOUS
<1>1. Nothing \in Pending /\ Chains(Nothing) = 0
  BY SntpAssumption DEF Nothing, Pending, Chains
<1>2. pending \in Pending /\ Chains(pending) = IF pcbOpen THEN 1 ELSE 0
  BY <1>1, RequestAddsOne DEF Init
<1>3. Chains(pending) <= MaxChains /\ (pcbOpen => Chains(pending) > 0)
  BY <1>2, SntpAssumption
<1>4. server \in 0..(NServers - 1)
  BY SntpAssumption DEF Init
<1>5. PcbInv /\ TypeInv
  BY <1>2, <1>4 DEF Init, PcbInv, TypeInv
<1> QED
  BY <1>2, <1>3, <1>5 DEF IInv, KeepsTrying, OneChain

LEMMA StepInv == IInv /\ [Next]_vars => IInv'
<1> SUFFICES ASSUME IInv, [Next]_vars PROVE IInv'
  OBVIOUS
<1> USE SntpAssumption
<1>0. pending \in Pending /\ server \in 0..(NServers - 1)
  BY DEF IInv, TypeInv
<1>1. CASE RequestTimer
  <2> DEFINE rest == [pending EXCEPT !.request = @ - 1]
  <2>1. rest \in Pending /\ Chains(rest) = Chains(pending) - 1 /\ Chains(pending) > 0
    BY <1>0, <1>1 DEF RequestTimer, Pending, Chains
  <2>2. pending' \in Pending /\ Chains(pending') = Chains(rest) + 1
    BY <1>1, <2>1, RequestAddsOne DEF RequestTimer
  <2>3. Chains(pending) \in Nat
    BY <1>0 DEF Pending, Chains
  <2> HIDE DEF rest
  <2> QED BY <1>0, <1>1, <2>1, <2>2, <2>3, SameCount DEF RequestTimer
<1>2. CASE NextServerTimer
  <2> DEFINE rest == [pending EXCEPT !.next = @ - 1]
  <2>1. rest \in Pending /\ Chains(rest) = Chains(pending) - 1 /\ Chains(pending) > 0
    BY <1>0, <1>2 DEF NextServerTimer, Pending, Chains
  <2>2. pending' \in Pending /\ Chains(pending') = Chains(rest) + 1
    BY <1>2, <2>1, TryNextAddsOne DEF NextServerTimer
  <2>3. Chains(pending) \in Nat
    BY <1>0 DEF Pending, Chains
  <2> HIDE DEF rest
  <2> QED BY <1>0, <1>2, <2>1, <2>2, <2>3, SameCount, NextServerTyped DEF NextServerTimer
<1>3. ASSUME NEW found \in BOOLEAN, sntp_dns_found(found) PROVE IInv'
  <2> DEFINE rest == [pending EXCEPT !.lookups = @ - 1]
  <2>1. rest \in Pending /\ Chains(rest) = Chains(pending) - 1 /\ Chains(pending) > 0
    BY <1>0, <1>3 DEF sntp_dns_found, Pending, Chains
  <2>2. pending' \in Pending /\ Chains(pending') = Chains(rest) + 1
    BY <1>3, <2>1, SendAddsOne, TryNextAddsOne DEF sntp_dns_found
  <2>3. Chains(pending) \in Nat
    BY <1>0 DEF Pending, Chains
  <2>4. server' \in 0..(NServers - 1)
    BY <1>0, <1>3, NextServerTyped DEF sntp_dns_found
  <2>5. UNCHANGED <<pcbOpen, synced, overlap>>
    BY <1>3 DEF sntp_dns_found
  <2> HIDE DEF rest
  <2> QED BY <2>1, <2>2, <2>3, <2>4, <2>5, SameCount
<1>4. ASSUME NEW kind \in Kinds, sntp_recv(kind) PROVE IInv'
  <2>1. /\ Received \in Pending /\ Chains(Received) <= Chains(pending)
        /\ Chains(pending) = 1 /\ pending.lookups = 0 => Chains(Received) = 0
    BY <1>4, ReceivedTakes DEF sntp_recv, IInv
  <2>2. pcbOpen /\ ~synced
    BY <1>4 DEF sntp_recv, IInv, PcbInv, TypeInv
  <2>3. overlap' = (overlap \/ pending.lookups > 0) /\ overlap' \in BOOLEAN
    BY <1>4 DEF sntp_recv, IInv, TypeInv
  <2>4. ~overlap' => Chains(Received) = 0
    <3> SUFFICES ASSUME ~overlap' PROVE Chains(Received) = 0
      OBVIOUS
    <3>1. ~overlap /\ ~(pending.lookups > 0)
      BY <2>3
    <3>2. pending.lookups = 0
      BY <1>0, <3>1 DEF Pending
    <3>3. Chains(pending) = 1
      BY <2>2, <3>1 DEF IInv, OneChain
    <3> QED BY <2>1, <3>2, <3>3
  <2>5. Chains(Received) \in Nat /\ Chains(pending) <= MaxChains /\ Chains(pending) \in Nat
    BY <1>0, <2>1 DEF Pending, Chains, IInv
  <2>6. CASE /\ kind = "time"
             /\ pending' = [Received EXCEPT !.answers = 0]
             /\ synced' = TRUE /\ pcbOpen' = FALSE /\ UNCHANGED server
    <3>1. pending' \in Pending /\ Chains(pending') = Chains(Received)
      BY <2>1, <2>6 DEF Pending, Chains
    <3>2. Chains(pending') <= MaxChains
      BY <2>1, <2>5, <3>1
    <3>3. ~overlap' => Chains(pending') = 0
      BY <2>4, <3>1
    <3>4. TypeInv' /\ PcbInv' /\ pcbOpen' = FALSE
      BY <1>0, <2>3, <2>6, <3>1 DEF TypeInv, PcbInv
    <3> QED BY <3>2, <3>3, <3>4 DEF IInv, KeepsTrying, OneChain
  <2>7. CASE kind # "time" /\ server' \in 0..(NServers - 1) /\ UNCHANGED <<pcbOpen, synced>>
             /\ pending' \in Pending /\ Chains(pending') = Chains(Received) + 1
    <3>1. Chains(Received) < MaxChains
      BY <1>4, <2>7 DEF sntp_recv
    <3>2. synced' = FALSE /\ pcbOpen' = TRUE
      BY <2>2, <2>7 DEF IInv, TypeInv
    <3>3. Chains(pending') <= MaxChains /\ Chains(pending') > 0
      BY <2>5, <2>7, <3>1
    <3>4. ~overlap' => Chains(pending') = 1
      BY <2>4, <2>7
    <3> QED BY <2>3, <2>7, <3>2, <3>3, <3>4
            DEF IInv, TypeInv, PcbInv, KeepsTrying, OneChain
  <2>8. CASE /\ kind = "kissOfDeath" /\ pending' \in sntp_try_next_server(Received)
             /\ server' = NextServer /\ UNCHANGED <<pcbOpen, synced>>
    BY <1>0, <2>1, <2>7, <2>8, TryNextAddsOne, NextServerTyped
  <2>9. CASE kind = "invalid" /\ pending' = Retry /\ UNCHANGED <<server, pcbOpen, synced>>
    <3>1. Retry \in Pending /\ Chains(Retry) = Chains(Received) + 1
      BY <2>1 DEF Retry, Pending, Chains
    <3> QED BY <1>0, <2>7, <2>9, <3>1
  <2> QED BY <1>4, <2>6, <2>8, <2>9 DEF sntp_recv
<1>5. CASE AnswerLost
  <2>1. pending' \in Pending /\ Chains(pending') = Chains(pending)
    BY <1>0, <1>5 DEF AnswerLost, Pending, Chains
  <2> QED BY <1>5, <2>1 DEF AnswerLost, IInv, TypeInv, PcbInv, KeepsTrying, OneChain
<1>6. CASE UNCHANGED vars
  BY <1>6 DEF vars, IInv, TypeInv, PcbInv, KeepsTrying, OneChain
<1> QED BY <1>1, <1>2, <1>3, <1>4, <1>5, <1>6 DEF Next, Handler

\* IInv holds in every state; the theorems below are parts of it.
LEMMA Invariant == Spec => []IInv
  BY InitInv, StepInv, PTL DEF Spec

-------------------------------------------------------------------------------

\* Every variable keeps to its range: the server index (sntp.c:175-178) never
\* leaves the table, and no handler exceeds the bound on timers and lookups.
THEOREM SntpTypeCorrect == Spec => []TypeOK
<1>1. IInv => TypeOK
  BY DEF IInv, TypeInv, TypeOK
<1> QED BY <1>1, Invariant, PTL

\* Until the clock is set, a client that got its pcb has a timer or a lookup
\* pending (sntp.c:170-321).
THEOREM NeverGivesUp == Spec => []KeepsTrying
<1>1. IInv => KeepsTrying
  BY DEF IInv
<1> QED BY <1>1, Invariant, PTL

\* As long as no packet came in during a lookup, the handlers of sntp.c keep
\* exactly one request under way, and none once the clock is set.
THEOREM OneRequestUnderWay == Spec => []OneChain
<1>1. IInv => OneChain
  BY DEF IInv
<1> QED BY <1>1, Invariant, PTL
===============================================================================
