--------------------------- MODULE Connections_proofs ---------------------------
(***************************************************************************)
(* What holds of the three network tasks for every pool of netconns and    *)
(* every length of the accept boxes.                                       *)
(***************************************************************************)
EXTENDS Connections, SequenceTheorems, TLAPS

\* Every step leaves each netconn where it is or moves one of them from one place to
\* another, so the places stay a partition of the pool.
Separate == \A i, j \in 1..9 : i # j => Places[i] \cap Places[j] = {}

Covered == \A n \in Netconns : \E i \in 1..9 : n \in Places[i]

Distinct(s) == \A i, j \in DOMAIN s : s[i] = s[j] => i = j \/ s[i] = Refused

BoxesDistinct == \A s \in Servers : Distinct(box[s])

\* Which pointers are set where a task stands.
Control ==
    /\ modbus.at = "init" => modbus.listener = None /\ modbus.conn = None /\ modbus.event = "none"
    /\ modbus.at \in {"recv", "exec", "write"} => modbus.conn # None /\ modbus.event = "none"
    /\ modbus.event = "EV_EXECUTE" => modbus.conn # None
    /\ http.at \in {"init", "deleted"} => http.listener = None
    /\ http.at \in {"recv", "send", "close"} <=> http.conn # None
    /\ radmon.at \in {"connect", "talk"} <=> radmon.conn # None
    /\ radmon.at \in {"new", "connect", "talk"} => radmon.calls \in 1..Setup

Inv == TypeOK /\ Control /\ BoxesDistinct /\ Separate /\ Covered /\ AnsweredInTurn

Moves(n, a, b) ==
    /\ a \in 1..9 /\ b \in 1..9 /\ a # b
    /\ n \in Places[a]
    /\ Places'[a] = Places[a] \ {n}
    /\ Places'[b] = Places[b] \cup {n}
    /\ \A i \in 1..9 : i # a /\ i # b => Places'[i] = Places[i]

Stays == \A i \in 1..9 : Places'[i] = Places[i]
-------------------------------------------------------------------------------
LEMMA RangeAppended ==
    ASSUME NEW S, NEW s \in Seq(S), NEW e \in S
    PROVE  /\ Append(s, e) \in Seq(S)
           /\ Range(Append(s, e)) = Range(s) \cup {e}
<1>1. /\ Append(s, e) \in Seq(S)
      /\ Len(Append(s, e)) = Len(s) + 1
      /\ \A i \in 1..Len(s) : Append(s, e)[i] = s[i]
      /\ Append(s, e)[Len(s) + 1] = e
  BY AppendProperties
<1>2. Len(s) \in Nat /\ DOMAIN s = 1..Len(s) /\ DOMAIN Append(s, e) = 1..(Len(s) + 1)
  BY <1>1, LenProperties
<1>3. \A x : x \in Range(Append(s, e)) <=> x \in Range(s) \/ x = e
  BY <1>1, <1>2 DEF Range
<1> QED BY <1>1, <1>3

LEMMA DistinctAppended ==
    ASSUME NEW S, NEW s \in Seq(S), NEW e \in S, Distinct(s), e \notin Range(s) \/ e = Refused
    PROVE  Distinct(Append(s, e))
<1>1. /\ Len(Append(s, e)) = Len(s) + 1
      /\ \A i \in 1..Len(s) : Append(s, e)[i] = s[i]
      /\ Append(s, e)[Len(s) + 1] = e
  BY AppendProperties
<1>2. Len(s) \in Nat /\ DOMAIN s = 1..Len(s) /\ DOMAIN Append(s, e) = 1..(Len(s) + 1)
  BY AppendProperties, LenProperties
<1>3. \A i \in 1..Len(s) : s[i] \in Range(s)
  BY <1>2 DEF Range
<1> QED BY <1>1, <1>2, <1>3 DEF Distinct

LEMMA TailTaken ==
    ASSUME NEW S, NEW s \in Seq(S), s # <<>>
    PROVE  /\ Head(s) \in S
           /\ Tail(s) \in Seq(S)
           /\ Range(s) = Range(Tail(s)) \cup {Head(s)}
<1>1. /\ Head(s) \in S
      /\ Tail(s) \in Seq(S)
      /\ Len(Tail(s)) = Len(s) - 1
      /\ \A i \in 1..Len(Tail(s)) : Tail(s)[i] = s[i + 1]
      /\ Head(s) = s[1]
      /\ Len(s) \in Nat \ {0}
  BY HeadTailProperties, EmptySeq, LenProperties
<1>2. DOMAIN s = 1..Len(s) /\ DOMAIN Tail(s) = 1..(Len(s) - 1)
  BY <1>1, LenProperties
<1>3. \A x : x \in Range(s) => x \in Range(Tail(s)) \/ x = Head(s)
  <2> TAKE x
  <2> HAVE x \in Range(s)
  <2>1. PICK i \in 1..Len(s) : x = s[i]
    BY <1>2 DEF Range
  <2>2. CASE i = 1
    BY <2>1, <2>2, <1>1
  <2>3. CASE i # 1
    <3>1. i - 1 \in 1..(Len(s) - 1) /\ (i - 1) + 1 = i
      BY <2>1, <2>3, <1>1
    <3>2. Tail(s)[i - 1] = x
      BY <3>1, <2>1, <1>1
    <3> QED BY <3>1, <3>2, <1>2 DEF Range
  <2> QED BY <2>2, <2>3
<1>4. \A x : x \in Range(Tail(s)) \/ x = Head(s) => x \in Range(s)
  BY <1>1, <1>2 DEF Range
<1> QED BY <1>1, <1>3, <1>4

LEMMA DistinctTail ==
    ASSUME NEW S, NEW s \in Seq(S), s # <<>>, Distinct(s)
    PROVE  /\ Distinct(Tail(s))
           /\ Head(s) \notin Range(Tail(s)) \/ Head(s) = Refused
<1>1. /\ Tail(s) \in Seq(S)
      /\ Len(Tail(s)) = Len(s) - 1
      /\ \A i \in 1..Len(Tail(s)) : Tail(s)[i] = s[i + 1]
      /\ Head(s) = s[1]
      /\ Len(s) \in Nat \ {0}
  BY HeadTailProperties, EmptySeq, LenProperties
<1>2. DOMAIN s = 1..Len(s) /\ DOMAIN Tail(s) = 1..(Len(s) - 1)
  BY <1>1, LenProperties
<1>3. \A i \in 1..(Len(s) - 1) : i + 1 \in 1..Len(s) /\ i + 1 # 1 /\ Tail(s)[i] = s[i + 1]
  BY <1>1
<1>4. \A i, j \in 1..(Len(s) - 1) : i + 1 = j + 1 => i = j
  OBVIOUS
<1>5. 1 \in 1..Len(s)
  BY <1>1
<1>6. Distinct(Tail(s))
  BY <1>2, <1>3, <1>4 DEF Distinct
<1>7. Head(s) \notin Range(Tail(s)) \/ Head(s) = Refused
  BY <1>1, <1>2, <1>3, <1>5 DEF Distinct, Range
<1> QED BY <1>6, <1>7
-------------------------------------------------------------------------------
\* Facts about the constants and about what a pointer leads to.
LEMMA GivenIsFree ==
    ASSUME free # {}
    PROVE  Given \in free
BY DEF Given

LEMMA PointedSet ==
    /\ \A n \in Netconns : n # None /\ n # Refused /\ Pointed({n}) = {n}
    /\ Pointed({None}) = {}
BY ConnectionsAssumption DEF ConnectionsAssumption, Pointed

LEMMA InitInv == Init => Inv
<1> SUFFICES ASSUME Init PROVE Inv
  OBVIOUS
<1> USE ConnectionsAssumption DEF ConnectionsAssumption
<1>1. /\ box \in [Servers -> Seq(Netconns \cup {Refused})]
      /\ \A s \in Servers : Distinct(box[s]) /\ Range(box[s]) = {}
  BY EmptySeq DEF Init, Servers, Distinct, Range
<1>2. TypeOK
  <2>1. Gone \in [open : BOOLEAN, took : BOOLEAN, sent : 0..MaxSent, owed : Int]
    BY DEF Gone
  <2>2. /\ 0 \in 0..Setup
        /\ peer \in [Netconns -> [open : BOOLEAN, took : BOOLEAN, sent : 0..MaxSent, owed : Int]]
    BY <2>1 DEF Init
  <2> QED BY <1>1, <2>2 DEF Init, TypeOK
<1>3. Control
  BY DEF Init, Control
<1>4. BoxesDistinct
  BY <1>1 DEF BoxesDistinct
<1>5. /\ Places[1] = Netconns
      /\ \A i \in 2..9 : Places[i] = {}
  BY <1>1, PointedSet DEF Places, Init, Boxed, Pointed, Servers
<1>6. Separate
  BY <1>5 DEF Separate
<1>7. Covered
  BY <1>5 DEF Covered
<1>8. AnsweredInTurn
  BY DEF Init, AnsweredInTurn, Executing, Gone
<1> QED BY <1>2, <1>3, <1>4, <1>6, <1>7, <1>8 DEF Inv
-------------------------------------------------------------------------------
Talking == [open : BOOLEAN, took : BOOLEAN, sent : 0..MaxSent, owed : Int]

\* The parts of the type invariant, named for the steps that change them.
PoolOK == free \subseteq Netconns /\ lost \subseteq Netconns
PeerOK == peer \in [Netconns -> Talking]
BoxOK == box \in [Servers -> Seq(Netconns \cup {Refused})]
ModbusOK == modbus \in [at : {"init", "poll", "recv", "exec", "write"}, listener : Netconns \cup {None},
                         conn : Netconns \cup {None}, event : {"none", "EV_EXECUTE"}]
HttpOK == http \in [at : {"init", "accept", "recv", "send", "close", "deleted"},
                     listener : Netconns \cup {None}, conn : Netconns \cup {None}]
RadmonOK == radmon \in [at : {"resolve", "new", "connect", "talk", "sleep", "deleted"},
                         conn : Netconns \cup {None}, calls : 0..Setup, heard : BOOLEAN]

LEMMA TypeParts ==
    /\ TypeOK <=> PoolOK /\ PeerOK /\ BoxOK /\ ModbusOK /\ HttpOK /\ RadmonOK /\ halted \in BOOLEAN
    /\ TypeOK' <=> PoolOK' /\ PeerOK' /\ BoxOK' /\ ModbusOK' /\ HttpOK' /\ RadmonOK' /\ halted' \in BOOLEAN
BY DEF TypeOK, PoolOK, PeerOK, BoxOK, ModbusOK, HttpOK, RadmonOK, Talking

LEMMA CalledOK ==
    ASSUME TypeOK, Control, radmon.at \in {"connect", "talk"}, radmon' = Called
    PROVE  /\ RadmonOK'
           /\ radmon'.conn = None
           /\ radmon'.at \in {"new", "sleep"}
           /\ radmon'.at = "new" => radmon'.calls \in 1..Setup
<1>1. radmon.calls \in 1..Setup /\ Setup \in Nat
  BY ConnectionsAssumption DEF ConnectionsAssumption, Control
<1>2. radmon.calls - 1 \in 0..Setup /\ (radmon.calls # 1 => radmon.calls - 1 \in 1..Setup)
  BY <1>1
<1> QED BY <1>2 DEF Called, RadmonOK

\* What the messages of a box become.
LEMMA BoxTaken ==
    ASSUME NEW s \in Servers, TypeOK, BoxesDistinct, box[s] # <<>>,
           box' = [box EXCEPT ![s] = Tail(@)]
    PROVE  /\ BoxOK'
           /\ BoxesDistinct'
           /\ \A t \in Servers \ {s} : Boxed(t)' = Boxed(t)
           /\ Head(box[s]) \in Netconns \cup {Refused}
           /\ Head(box[s]) = Refused => Boxed(s)' = Boxed(s)
           /\ Head(box[s]) # Refused =>
                 Head(box[s]) \in Boxed(s) /\ Boxed(s)' = Boxed(s) \ {Head(box[s])}
<1> DEFINE S == Netconns \cup {Refused}
<1>1. box[s] \in Seq(S) /\ Distinct(box[s])
  BY DEF TypeOK, BoxesDistinct
<1>2. /\ Head(box[s]) \in S
      /\ Tail(box[s]) \in Seq(S)
      /\ Range(box[s]) = Range(Tail(box[s])) \cup {Head(box[s])}
  BY <1>1, TailTaken
<1>3. /\ Distinct(Tail(box[s]))
      /\ Head(box[s]) \notin Range(Tail(box[s])) \/ Head(box[s]) = Refused
  BY <1>1, DistinctTail
<1>4. /\ box'[s] = Tail(box[s])
      /\ \A t \in Servers \ {s} : box'[t] = box[t]
      /\ DOMAIN box' = Servers
  BY DEF TypeOK
<1>5. BoxOK'
  BY <1>2, <1>4 DEF BoxOK, TypeOK
<1>6. BoxesDistinct'
  BY <1>3, <1>4 DEF BoxesDistinct
<1>7. \A t \in Servers \ {s} : Boxed(t)' = Boxed(t)
  BY <1>4 DEF Boxed
<1>8. Boxed(s)' = Range(Tail(box[s])) \ {None, Refused}
  BY <1>4 DEF Boxed, Pointed
<1>9. Boxed(s) = Range(box[s]) \ {None, Refused}
  BY DEF Boxed, Pointed
<1>10. Head(box[s]) = Refused => Boxed(s)' = Boxed(s)
  BY <1>2, <1>8, <1>9
<1>11. Head(box[s]) # Refused =>
          Head(box[s]) \in Boxed(s) /\ Boxed(s)' = Boxed(s) \ {Head(box[s])}
  BY <1>2, <1>3, <1>8, <1>9, PointedSet
<1> QED BY <1>2, <1>5, <1>6, <1>7, <1>10, <1>11

LEMMA BoxFilled ==
    ASSUME NEW s \in Servers, NEW m \in Netconns \cup {Refused}, TypeOK, BoxesDistinct,
           m \notin Boxed(s), box' = [box EXCEPT ![s] = Append(@, m)]
    PROVE  /\ BoxOK'
           /\ BoxesDistinct'
           /\ \A t \in Servers \ {s} : Boxed(t)' = Boxed(t)
           /\ Boxed(s)' = Boxed(s) \cup Pointed({m})
<1> DEFINE S == Netconns \cup {Refused}
<1>1. box[s] \in Seq(S) /\ Distinct(box[s])
  BY DEF TypeOK, BoxesDistinct
<1>2. m \notin Range(box[s]) \/ m = Refused
  BY PointedSet DEF Boxed, Pointed
<1>3. /\ Append(box[s], m) \in Seq(S)
      /\ Range(Append(box[s], m)) = Range(box[s]) \cup {m}
  BY <1>1, RangeAppended
<1>4. Distinct(Append(box[s], m))
  BY <1>1, <1>2, DistinctAppended
<1>5. /\ box'[s] = Append(box[s], m)
      /\ \A t \in Servers \ {s} : box'[t] = box[t]
      /\ DOMAIN box' = Servers
  BY DEF TypeOK
<1>6. BoxOK'
  BY <1>3, <1>5 DEF BoxOK, TypeOK
<1>7. BoxesDistinct'
  BY <1>4, <1>5 DEF BoxesDistinct
<1>8. \A t \in Servers \ {s} : Boxed(t)' = Boxed(t)
  BY <1>5 DEF Boxed
<1>9. Boxed(s)' = Boxed(s) \cup Pointed({m})
  BY <1>3, <1>5 DEF Boxed, Pointed
<1> QED BY <1>6, <1>7, <1>8, <1>9
-------------------------------------------------------------------------------
LEMMA PlaceIs ==
    /\ Places[1] = free
    /\ Places[2] = lost
    /\ Places[3] = Pointed({modbus.listener})
    /\ Places[4] = Pointed({modbus.conn})
    /\ Places[5] = Pointed({http.listener})
    /\ Places[6] = Pointed({http.conn})
    /\ Places[7] = Pointed({radmon.conn})
    /\ Places[8] = Boxed("modbus")
    /\ Places[9] = Boxed("http")
BY DEF Places

LEMMA PlaceBecomes ==
    /\ Places'[1] = free'
    /\ Places'[2] = lost'
    /\ Places'[3] = Pointed({modbus.listener})'
    /\ Places'[4] = Pointed({modbus.conn})'
    /\ Places'[5] = Pointed({http.listener})'
    /\ Places'[6] = Pointed({http.conn})'
    /\ Places'[7] = Pointed({radmon.conn})'
    /\ Places'[8] = Boxed("modbus")'
    /\ Places'[9] = Boxed("http")'
BY DEF Places

LEMMA FreeIsNotBoxed ==
    ASSUME Separate, NEW n \in free, NEW s \in Servers
    PROVE  n \notin Boxed(s)
<1>1. Places[1] \cap Places[8] = {} /\ Places[1] \cap Places[9] = {}
  BY DEF Separate
<1> QED BY <1>1, PlaceIs DEF Servers

\* A step that changes the end of one connection keeps the types of all.
LEMMA PeerChanged ==
    ASSUME PeerOK, NEW n \in Netconns, NEW r \in Talking, peer' = [peer EXCEPT ![n] = r]
    PROVE  PeerOK'
BY DEF PeerOK

LEMMA TypeStep ==
    ASSUME TypeOK, Control, BoxesDistinct, Separate, [Next]_vars
    PROVE  TypeOK' /\ Control' /\ BoxesDistinct'
<1> USE DEF Runs
<1>0. /\ PoolOK /\ PeerOK /\ BoxOK /\ ModbusOK /\ HttpOK /\ RadmonOK /\ halted \in BOOLEAN
      /\ (PoolOK' /\ PeerOK' /\ BoxOK' /\ ModbusOK' /\ HttpOK' /\ RadmonOK' /\ halted' \in BOOLEAN) => TypeOK'
  BY TypeParts
<1>a. /\ \A n \in free : n \in Netconns
      /\ box' = box => BoxesDistinct' /\ BoxOK'
      /\ peer' = peer => PeerOK'
      /\ free' = free /\ lost' = lost => PoolOK'
      /\ modbus' = modbus => ModbusOK'
      /\ http' = http => HttpOK'
      /\ radmon' = radmon => RadmonOK'
      /\ modbus' = modbus /\ http' = http /\ radmon' = radmon => Control'
  BY <1>0 DEF BoxesDistinct, BoxOK, PeerOK, PoolOK, ModbusOK, HttpOK, RadmonOK, Control
<1>b. free \ {Given} \subseteq Netconns /\ (free # {} => Given \in Netconns)
  BY <1>0, GivenIsFree DEF PoolOK
<1>c. \A n \in Netconns : peer[n] \in Talking /\ Gone \in Talking
  BY <1>0, ConnectionsAssumption DEF ConnectionsAssumption, PeerOK, Talking, Gone
<1>1. ASSUME NEW s \in Servers, ClientConnects(s)
      PROVE  TypeOK' /\ Control' /\ BoxesDistinct'
  <2>1. CASE free # {} /\ free' = free \ {Given}
             /\ peer' = [peer EXCEPT ![Given] = [Gone EXCEPT !.open = TRUE]]
             /\ box' = [box EXCEPT ![s] = Append(@, Given)]
    <3>1. PoolOK'
      BY <1>b, <1>0, <2>1, <1>1 DEF PoolOK, ClientConnects
    <3>2. [Gone EXCEPT !.open = TRUE] \in Talking
      BY <1>b, <1>c, <2>1 DEF Talking
    <3>3. PeerOK'
      BY <1>0, <1>b, <2>1, <3>2, PeerChanged
    <3>4. Given \notin Boxed(s)
      BY <2>1, GivenIsFree, FreeIsNotBoxed
    <3>5. BoxOK' /\ BoxesDistinct'
      BY <1>b, <2>1, <3>4, BoxFilled
    <3> QED BY <1>0, <1>a, <3>1, <3>3, <3>5, <1>1 DEF ClientConnects
  <2>2. CASE free = {} /\ box' = [box EXCEPT ![s] = Append(@, Refused)] /\ UNCHANGED <<free, peer>>
    <3>1. Refused \notin Boxed(s)
      BY DEF Boxed, Pointed
    <3>2. BoxOK' /\ BoxesDistinct'
      BY <2>2, <3>1, BoxFilled
    <3> QED BY <1>0, <1>a, <2>2, <3>2, <1>1 DEF ClientConnects
  <2> QED BY <2>1, <2>2, <1>1 DEF ClientConnects
<1>2. ASSUME NEW n \in Netconns, ClientSends(n)
      PROVE  TypeOK' /\ Control' /\ BoxesDistinct'
  <2>1. [peer[n] EXCEPT !.sent = @ + 1] \in Talking
    BY <1>2, <1>c, ConnectionsAssumption DEF ConnectionsAssumption, ClientSends, Talking
  <2>2. peer' = [peer EXCEPT ![n] = [peer[n] EXCEPT !.sent = @ + 1]]
    BY <1>2 DEF ClientSends
  <2>3. PeerOK'
    BY <1>0, <2>1, <2>2, PeerChanged
  <2> QED BY <1>0, <1>a, <2>3, <1>2 DEF ClientSends
<1>3. ASSUME NEW n \in Netconns, ClientCloses(n)
      PROVE  TypeOK' /\ Control' /\ BoxesDistinct'
  <2>1. [peer[n] EXCEPT !.open = FALSE] \in Talking
    BY <1>c DEF Talking
  <2>2. peer' = [peer EXCEPT ![n] = [peer[n] EXCEPT !.open = FALSE]]
    BY <1>3 DEF ClientCloses
  <2>3. PeerOK'
    BY <1>0, <2>1, <2>2, PeerChanged
  <2> QED BY <1>0, <1>a, <2>3, <1>3 DEF ClientCloses
<1>24. ASSUME NEW n \in Netconns, ClientReads(n)
       PROVE  TypeOK' /\ Control' /\ BoxesDistinct'
  <2>1. [peer[n] EXCEPT !.took = TRUE] \in Talking
    BY <1>c DEF Talking
  <2>2. peer' = [peer EXCEPT ![n] = [peer[n] EXCEPT !.took = TRUE]]
    BY <1>24 DEF ClientReads
  <2>3. PeerOK'
    BY <1>0, <2>1, <2>2, PeerChanged
  <2> QED BY <1>0, <1>a, <2>3, <1>24 DEF ClientReads
<1>4. CASE ModbusListens
  <2>1. PoolOK'
    BY <1>0, <1>b, <1>4 DEF PoolOK, ModbusListens
  <2>2. ModbusOK'
    BY <1>0, <1>b, <1>4 DEF ModbusOK, ModbusListens
  <2>3. Control'
    BY <1>0, <1>4 DEF Control, ModbusOK, ModbusListens
  <2> QED BY <1>0, <1>a, <2>1, <2>2, <2>3, <1>4 DEF ModbusListens
<1>5. CASE ModbusFaults
  BY <1>0, <1>a, <1>5 DEF ModbusFaults
<1>6. CASE ModbusAccepts
  <2>1. "modbus" \in Servers
    BY DEF Servers
  <2>2. BoxOK' /\ BoxesDistinct' /\ Head(box["modbus"]) \in Netconns \cup {Refused}
    BY <1>6, <2>1, BoxTaken DEF ModbusAccepts
  <2>3. CASE Head(box["modbus"]) = Refused
    BY <1>0, <1>a, <1>6, <2>2, <2>3 DEF ModbusAccepts
  <2>4. CASE Head(box["modbus"]) # Refused
    <3>1. /\ Head(box["modbus"]) \in Netconns /\ Head(box["modbus"]) # None
          /\ modbus' = [modbus EXCEPT !.at = "recv", !.conn = Head(box["modbus"]), !.event = "none"]
      BY <1>6, <2>2, <2>4, PointedSet DEF ModbusAccepts
    <3>2. ModbusOK'
      BY <1>0, <3>1 DEF ModbusOK
    <3>3. Control'
      BY <1>0, <1>6, <3>1 DEF Control, ModbusOK, ModbusAccepts
    <3> QED BY <1>0, <1>a, <1>6, <2>2, <3>2, <3>3 DEF ModbusAccepts
  <2> QED BY <2>3, <2>4
<1>7. CASE ModbusPolls
  <2>1. ModbusOK'
    BY <1>0, <1>7 DEF ModbusOK, ModbusPolls
  <2>2. Control'
    BY <1>0, <1>7 DEF Control, ModbusOK, ModbusPolls
  <2> QED BY <1>0, <1>a, <2>1, <2>2, <1>7 DEF ModbusPolls
<1>8. CASE ModbusReceives
  <2>1. modbus.conn \in Netconns
    BY <1>0, <1>8 DEF Control, ModbusOK, ModbusReceives
  <2>2. PICK valid \in BOOLEAN :
          /\ modbus' = [modbus EXCEPT !.at = "poll", !.event = IF valid THEN "EV_EXECUTE" ELSE @]
          /\ peer' = [peer EXCEPT ![modbus.conn].sent = @ - 1,
                                  ![modbus.conn].owed = IF valid THEN @ + 1 ELSE @]
    BY <1>8 DEF ModbusReceives
  <2> DEFINE r == [peer[modbus.conn] EXCEPT !.sent = @ - 1, !.owed = IF valid THEN @ + 1 ELSE @]
  <2>a. peer[modbus.conn] \in Talking /\ peer[modbus.conn].sent > 0
    BY <1>8, <1>c, <2>1 DEF ModbusReceives
  <2>b. /\ peer[modbus.conn].sent - 1 \in 0..MaxSent
        /\ (IF valid THEN peer[modbus.conn].owed + 1 ELSE peer[modbus.conn].owed) \in Int
    BY <2>a, ConnectionsAssumption DEF ConnectionsAssumption, Talking
  <2>3. r \in Talking
    BY <2>a, <2>b DEF Talking
  <2>4. peer' = [peer EXCEPT ![modbus.conn] = r]
    BY <1>0, <2>1, <2>2 DEF PeerOK
  <2>5. PeerOK'
    BY <1>0, <2>1, <2>3, <2>4, PeerChanged
  <2>6. ModbusOK'
    BY <1>0, <2>2 DEF ModbusOK
  <2>7. Control'
    BY <1>0, <1>8, <2>2 DEF Control, ModbusOK, ModbusReceives
  <2> QED BY <1>0, <1>a, <2>5, <2>6, <2>7, <1>8 DEF ModbusReceives
<1>9. CASE ModbusDrops
  <2>1. modbus.conn \in Netconns
    BY <1>0, <1>9 DEF Control, ModbusOK, ModbusDrops
  <2>2. PoolOK'
    BY <1>0, <2>1, <1>9 DEF PoolOK, ModbusDrops, AfterDrop
  <2>3. PeerOK'
    BY <1>0, <1>c, <2>1, <1>9, PeerChanged DEF ModbusDrops
  <2>4. ModbusOK'
    BY <1>0, <1>9 DEF ModbusOK, ModbusDrops, WithoutClient
  <2>5. Control'
    BY <1>0, <1>9 DEF Control, ModbusOK, ModbusDrops, WithoutClient
  <2> QED BY <1>0, <1>a, <2>2, <2>3, <2>4, <2>5, <1>9 DEF ModbusDrops
<1>10. CASE ModbusExecutes
  <2>1. ModbusOK'
    BY <1>0, <1>10 DEF ModbusOK, ModbusExecutes
  <2>2. Control'
    BY <1>0, <1>10 DEF Control, ModbusOK, ModbusExecutes
  <2> QED BY <1>0, <1>a, <2>1, <2>2, <1>10 DEF ModbusExecutes
<1>11. CASE ModbusAnswers
  <2>1. modbus.conn \in Netconns
    BY <1>0, <1>11 DEF Control, ModbusOK, ModbusAnswers
  <2>a. peer[modbus.conn] \in Talking /\ peer[modbus.conn].owed - 1 \in Int
    BY <1>c, <2>1 DEF Talking
  <2>2. [peer[modbus.conn] EXCEPT !.owed = @ - 1, !.took = FALSE] \in Talking
    BY <2>a DEF Talking
  <2>3. peer' = [peer EXCEPT ![modbus.conn] = [peer[modbus.conn] EXCEPT !.owed = @ - 1, !.took = FALSE]]
    BY <1>0, <2>1, <1>11 DEF PeerOK, ModbusAnswers
  <2>4. PeerOK'
    BY <1>0, <2>1, <2>2, <2>3, PeerChanged
  <2>5. ModbusOK'
    BY <1>0, <1>11 DEF ModbusOK, ModbusAnswers
  <2>6. Control'
    BY <1>0, <1>11 DEF Control, ModbusOK, ModbusAnswers
  <2> QED BY <1>0, <1>a, <2>4, <2>5, <2>6, <1>11 DEF ModbusAnswers
<1>12. CASE HttpListens
  <2>1. PoolOK'
    BY <1>0, <1>b, <1>12 DEF PoolOK, HttpListens
  <2>2. HttpOK'
    BY <1>0, <1>b, <1>12 DEF HttpOK, HttpListens
  <2>3. Control'
    BY <1>0, <1>12 DEF Control, HttpOK, HttpListens
  <2> QED BY <1>0, <1>a, <2>1, <2>2, <2>3, <1>12 DEF HttpListens
<1>13. CASE HttpEnds
  <2>1. HttpOK'
    BY <1>0, <1>13 DEF HttpOK, HttpEnds
  <2>2. Control'
    BY <1>0, <1>13 DEF Control, HttpOK, HttpEnds
  <2> QED BY <1>0, <1>a, <2>1, <2>2, <1>13 DEF HttpEnds
<1>14. CASE HttpAccepts
  <2>1. "http" \in Servers
    BY DEF Servers
  <2>2. BoxOK' /\ BoxesDistinct' /\ Head(box["http"]) \in Netconns \cup {Refused}
    BY <1>14, <2>1, BoxTaken DEF HttpAccepts
  <2>3. CASE Head(box["http"]) = Refused
    BY <1>0, <1>a, <1>14, <2>2, <2>3 DEF HttpAccepts
  <2>4. CASE Head(box["http"]) # Refused
    <3>1. /\ Head(box["http"]) \in Netconns /\ Head(box["http"]) # None
          /\ http' = [http EXCEPT !.at = "recv", !.conn = Head(box["http"])]
          /\ halted' = halted
      BY <1>14, <2>2, <2>4, PointedSet DEF HttpAccepts
    <3>2. HttpOK'
      BY <1>0, <3>1 DEF HttpOK
    <3>3. Control'
      BY <1>0, <1>14, <3>1 DEF Control, HttpOK, HttpAccepts
    <3> QED BY <1>0, <1>a, <1>14, <2>2, <3>1, <3>2, <3>3 DEF HttpAccepts
  <2> QED BY <2>3, <2>4
<1>15. CASE HttpServes
  <2>1. http.conn \in Netconns
    BY <1>0, <1>15 DEF Control, HttpOK, HttpServes
  <2> DEFINE r == [peer[http.conn] EXCEPT !.sent = IF @ > 0 THEN @ - 1 ELSE 0]
  <2>2. r \in Talking
    BY <1>c, <2>1, ConnectionsAssumption DEF ConnectionsAssumption, Talking
  <2>3. peer' = [peer EXCEPT ![http.conn] = r]
    BY <1>15 DEF HttpServes
  <2>4. PeerOK'
    BY <1>0, <2>1, <2>2, <2>3, PeerChanged
  <2>5. HttpOK'
    BY <1>0, <1>15 DEF HttpOK, HttpServes
  <2>6. Control'
    BY <1>0, <1>15 DEF Control, HttpOK, HttpServes
  <2> QED BY <1>0, <1>a, <2>4, <2>5, <2>6, <1>15 DEF HttpServes
<1>25. CASE HttpSends
  <2>1. http.conn \in Netconns
    BY <1>0, <1>25 DEF Control, HttpOK, HttpSends
  <2>2. [peer[http.conn] EXCEPT !.took = FALSE] \in Talking
    BY <1>c, <2>1 DEF Talking
  <2>3. peer' = [peer EXCEPT ![http.conn] = [peer[http.conn] EXCEPT !.took = FALSE]]
    BY <1>25 DEF HttpSends
  <2>4. PeerOK'
    BY <1>0, <2>1, <2>2, <2>3, PeerChanged
  <2>5. HttpOK'
    BY <1>0, <1>25 DEF HttpOK, HttpSends
  <2>6. Control'
    BY <1>0, <1>25 DEF Control, HttpOK, HttpSends
  <2> QED BY <1>0, <1>a, <2>4, <2>5, <2>6, <1>25 DEF HttpSends
<1>16. CASE HttpDeletes
  <2>1. http.conn \in Netconns
    BY <1>0, <1>16 DEF Control, HttpOK, HttpDeletes
  <2>2. PoolOK'
    BY <1>0, <2>1, <1>16 DEF PoolOK, HttpDeletes
  <2>3. PeerOK'
    BY <1>0, <1>c, <2>1, <1>16, PeerChanged DEF HttpDeletes
  <2>4. HttpOK'
    BY <1>0, <1>16 DEF HttpOK, HttpDeletes
  <2>5. Control'
    BY <1>0, <1>16 DEF Control, HttpOK, HttpDeletes
  <2> QED BY <1>0, <1>a, <2>2, <2>3, <2>4, <2>5, <1>16 DEF HttpDeletes
<1>17. CASE RadmonResolves
  <2>1. Setup \in 0..Setup /\ Setup \in 1..Setup
    BY ConnectionsAssumption DEF ConnectionsAssumption
  <2>2. RadmonOK'
    BY <1>0, <2>1, <1>17 DEF RadmonOK, RadmonResolves
  <2>3. Control'
    BY <1>0, <2>1, <1>17 DEF Control, RadmonOK, RadmonResolves
  <2> QED BY <1>0, <1>a, <2>2, <2>3, <1>17 DEF RadmonResolves
<1>18. CASE RadmonAllocates
  <2>1. CASE free # {} /\ free' = free \ {Given}
             /\ radmon' = [radmon EXCEPT !.at = "connect", !.conn = Given]
    <3>1. PoolOK'
      BY <1>0, <1>b, <2>1, <1>18 DEF PoolOK, RadmonAllocates
    <3>2. RadmonOK'
      BY <1>0, <1>b, <2>1 DEF RadmonOK
    <3>3. Given # None
      BY <1>b, <2>1, PointedSet
    <3>4. Control'
      BY <1>0, <2>1, <3>3, <1>18 DEF Control, RadmonOK, RadmonAllocates
    <3> QED BY <1>0, <1>a, <3>1, <3>2, <3>4, <1>18 DEF RadmonAllocates
  <2>2. CASE radmon' = [radmon EXCEPT !.at = "deleted"] /\ UNCHANGED free
    <3>1. RadmonOK'
      BY <1>0, <2>2 DEF RadmonOK
    <3>2. Control'
      BY <1>0, <2>2, <1>18 DEF Control, RadmonOK, RadmonAllocates
    <3> QED BY <1>0, <1>a, <2>2, <3>1, <3>2, <1>18 DEF RadmonAllocates
  <2> QED BY <2>1, <2>2, <1>18 DEF RadmonAllocates
<1>19. CASE RadmonConnects
  <2>1. radmon.conn \in Netconns
    BY <1>0, <1>19 DEF Control, RadmonOK, RadmonConnects
  <2>2. CASE radmon' = [radmon EXCEPT !.at = "talk"] /\ UNCHANGED lost
    <3>1. RadmonOK'
      BY <1>0, <2>2 DEF RadmonOK
    <3>2. Control'
      BY <1>0, <2>2, <1>19 DEF Control, RadmonOK, RadmonConnects
    <3> QED BY <1>0, <1>a, <2>2, <3>1, <3>2, <1>19 DEF RadmonConnects
  <2>3. CASE radmon' = Called /\ lost' = lost \cup {radmon.conn}
    <3>1. PoolOK'
      BY <1>0, <2>1, <2>3, <1>19 DEF PoolOK, RadmonConnects
    <3>2. /\ RadmonOK' /\ radmon'.conn = None /\ radmon'.at \in {"new", "sleep"}
          /\ radmon'.at = "new" => radmon'.calls \in 1..Setup
      BY <2>3, <1>19, CalledOK DEF RadmonConnects
    <3>3. Control'
      BY <3>2, <1>19 DEF Control, RadmonConnects
    <3> QED BY <1>0, <1>a, <3>1, <3>2, <3>3, <1>19 DEF RadmonConnects
  <2> QED BY <2>2, <2>3, <1>19 DEF RadmonConnects
<1>20. CASE SiteAnswers
  <2>1. RadmonOK'
    BY <1>0, <1>20 DEF RadmonOK, SiteAnswers
  <2>2. Control'
    BY <1>0, <1>20 DEF Control, RadmonOK, SiteAnswers
  <2> QED BY <1>0, <1>a, <2>1, <2>2, <1>20 DEF SiteAnswers
<1>21. CASE RadmonDeletes
  <2>1. radmon.conn \in Netconns
    BY <1>0, <1>21 DEF Control, RadmonOK, RadmonDeletes
  <2>2. PoolOK'
    BY <1>0, <2>1, <1>21 DEF PoolOK, RadmonDeletes, AfterReport
  <2>3. /\ RadmonOK' /\ radmon'.conn = None /\ radmon'.at \in {"new", "sleep"}
        /\ radmon'.at = "new" => radmon'.calls \in 1..Setup
    BY <1>21, CalledOK DEF RadmonDeletes
  <2>4. Control'
    BY <2>3, <1>21 DEF Control, RadmonDeletes
  <2> QED BY <1>0, <1>a, <2>2, <2>3, <2>4, <1>21 DEF RadmonDeletes
<1>22. CASE RadmonWakes
  <2>1. 1 \in 0..Setup /\ 1 \in 1..Setup
    BY ConnectionsAssumption DEF ConnectionsAssumption
  <2>2. RadmonOK'
    BY <1>0, <2>1, <1>22 DEF RadmonOK, RadmonWakes
  <2>3. Control'
    BY <1>0, <2>1, <1>22 DEF Control, RadmonOK, RadmonWakes
  <2> QED BY <1>0, <1>a, <2>2, <2>3, <1>22 DEF RadmonWakes
<1>23. CASE UNCHANGED vars
  BY <1>0, <1>a, <1>23 DEF vars
<1> QED
  BY <1>1, <1>2, <1>3, <1>4, <1>5, <1>6, <1>7, <1>8, <1>9, <1>10, <1>11, <1>12, <1>13, <1>14, <1>15,
     <1>16, <1>17, <1>18, <1>19, <1>20, <1>21, <1>22, <1>23, <1>24, <1>25
     DEF Next, Outside, ModbusStarts, ModbusServes, HttpStarts, HttpTask, RadmonReports
-------------------------------------------------------------------------------
\* A netconn that moves leaves the places a partition.
LEMMA MovesKeep ==
    ASSUME Separate, Covered, NEW n, NEW a, NEW b, Moves(n, a, b)
    PROVE  Separate' /\ Covered'
<1>1. /\ a \in 1..9 /\ b \in 1..9 /\ a # b
      /\ n \in Places[a]
      /\ Places'[a] = Places[a] \ {n}
      /\ Places'[b] = Places[b] \cup {n}
      /\ \A i \in 1..9 : i # a /\ i # b => Places'[i] = Places[i]
  BY DEF Moves
<1>2. \A i \in 1..9 : i # a => n \notin Places[i]
  BY <1>1 DEF Separate
<1>3. ASSUME NEW i \in 1..9, NEW j \in 1..9, i # j
      PROVE  Places'[i] \cap Places'[j] = {}
  <2>1. Places[i] \cap Places[j] = {}
    BY <1>3 DEF Separate
  <2>2. CASE i = b
    BY <2>1, <2>2, <1>1, <1>2, <1>3
  <2>3. CASE j = b
    BY <2>1, <2>3, <1>1, <1>2, <1>3
  <2>4. CASE i # b /\ j # b
    BY <2>1, <2>4, <1>1
  <2> QED BY <2>2, <2>3, <2>4
<1>4. ASSUME NEW m \in Netconns
      PROVE  \E i \in 1..9 : m \in Places'[i]
  BY <1>1 DEF Covered
<1> QED BY <1>3, <1>4 DEF Separate, Covered

LEMMA StaysKeep ==
    ASSUME Separate, Covered, Stays
    PROVE  Separate' /\ Covered'
BY DEF Separate, Covered, Stays

\* All that the places depend on.
LEMMA Untouched ==
    /\ modbus'.listener = modbus.listener => Pointed({modbus.listener})' = Pointed({modbus.listener})
    /\ modbus'.conn = modbus.conn => Pointed({modbus.conn})' = Pointed({modbus.conn})
    /\ http'.listener = http.listener => Pointed({http.listener})' = Pointed({http.listener})
    /\ http'.conn = http.conn => Pointed({http.conn})' = Pointed({http.conn})
    /\ radmon'.conn = radmon.conn => Pointed({radmon.conn})' = Pointed({radmon.conn})
    /\ box' = box => Boxed("modbus")' = Boxed("modbus") /\ Boxed("http")' = Boxed("http")
BY DEF Pointed, Boxed

\* One step, one move.
LEMMA StepMoves ==
    ASSUME TypeOK, Control, BoxesDistinct, Separate, [Next]_vars
    PROVE  Stays \/ \E n, a, b : Moves(n, a, b)
<1> USE DEF Runs
<1>0. /\ PoolOK /\ ModbusOK /\ HttpOK /\ RadmonOK
      /\ "modbus" \in Servers /\ "http" \in Servers /\ Servers = {"modbus", "http"}
  BY TypeParts DEF Servers
<1>b. free # {} => /\ Given \in free /\ Given \in Netconns /\ Given # None
                   /\ Pointed({Given}) = {Given}
  BY <1>0, GivenIsFree, PointedSet DEF PoolOK
<1>1. ASSUME NEW s \in Servers, ClientConnects(s)
      PROVE  Stays \/ \E n, a, b : Moves(n, a, b)
  <2>1. CASE free # {} /\ free' = free \ {Given} /\ box' = [box EXCEPT ![s] = Append(@, Given)]
    <3>1. Given \notin Boxed(s)
      BY <1>b, <2>1, FreeIsNotBoxed
    <3>2. /\ \A t \in Servers \ {s} : Boxed(t)' = Boxed(t)
          /\ Boxed(s)' = Boxed(s) \cup {Given}
      BY <1>b, <2>1, <3>1, BoxFilled
    <3>3. Moves(Given, 1, IF s = "modbus" THEN 8 ELSE 9)
      BY <1>0, <1>b, <1>1, <2>1, <3>2, PlaceIs, PlaceBecomes, Untouched DEF Moves, ClientConnects
    <3> QED BY <3>3
  <2>2. CASE free' = free /\ box' = [box EXCEPT ![s] = Append(@, Refused)]
    <3>1. Refused \notin Boxed(s) /\ Pointed({Refused}) = {}
      BY DEF Boxed, Pointed
    <3>2. \A t \in Servers : Boxed(t)' = Boxed(t)
      BY <2>2, <3>1, BoxFilled
    <3>3. Stays
      BY <1>0, <1>1, <2>2, <3>2, PlaceIs, PlaceBecomes, Untouched DEF Stays, ClientConnects
    <3> QED BY <3>3
  <2> QED BY <2>1, <2>2, <1>1 DEF ClientConnects
<1>2. ASSUME NEW n \in Netconns, ClientSends(n) \/ ClientReads(n) \/ ClientCloses(n)
      PROVE  Stays
  BY <1>2, PlaceIs, PlaceBecomes, Untouched DEF Stays, ClientSends, ClientReads, ClientCloses
<1>3. CASE ModbusListens
  <2>1. /\ Pointed({modbus.listener}) = {} /\ Pointed({modbus.listener})' = {Given}
        /\ modbus'.conn = modbus.conn /\ free # {}
    BY <1>0, <1>b, <1>3, PointedSet DEF Control, ModbusOK, ModbusListens
  <2>2. Moves(Given, 1, 3)
    BY <1>b, <1>3, <2>1, PlaceIs, PlaceBecomes, Untouched DEF Moves, ModbusListens
  <2> QED BY <2>2
<1>4. CASE ModbusFaults \/ ModbusPolls \/ ModbusReceives \/ ModbusExecutes \/ ModbusAnswers
  <2>1. /\ modbus'.listener = modbus.listener /\ modbus'.conn = modbus.conn
        /\ UNCHANGED <<free, lost, box, http, radmon>>
    BY <1>0, <1>4 DEF ModbusOK, ModbusFaults, ModbusPolls, ModbusReceives, ModbusExecutes, ModbusAnswers
  <2> QED BY <2>1, PlaceIs, PlaceBecomes, Untouched DEF Stays
<1>5. CASE ModbusAccepts
  <2> DEFINE m == Head(box["modbus"])
  <2>1. /\ Boxed("http")' = Boxed("http")
        /\ m \in Netconns \cup {Refused}
        /\ m = Refused => Boxed("modbus")' = Boxed("modbus")
        /\ m # Refused => m \in Boxed("modbus") /\ Boxed("modbus")' = Boxed("modbus") \ {m}
    BY <1>0, <1>5, BoxTaken, SMTT(30) DEF ModbusAccepts
  <2>2. CASE m = Refused
    BY <1>5, <2>1, <2>2, PlaceIs, PlaceBecomes, Untouched DEF Stays, ModbusAccepts
  <2>3. CASE m # Refused
    <3>1. /\ modbus'.listener = modbus.listener
          /\ Pointed({modbus.conn}) = {} /\ Pointed({modbus.conn})' = {m}
      BY <1>0, <1>5, <2>1, <2>3, PointedSet DEF ModbusOK, ModbusAccepts
    <3>2. /\ Pointed({modbus.conn})' = Pointed({modbus.conn}) \cup {m}
          /\ UNCHANGED <<free, lost, http, radmon>>
      BY <1>5, <3>1 DEF ModbusAccepts
    <3> HIDE DEF m
    <3>3. Moves(m, 8, 4)
      BY <2>1, <2>3, <3>1, <3>2, PlaceIs, PlaceBecomes, Untouched DEF Moves
    <3> QED BY <3>3
  <2> QED BY <2>2, <2>3
<1>6. CASE ModbusDrops
  <2>1. /\ modbus.conn \in Netconns
        /\ modbus'.listener = modbus.listener
        /\ Pointed({modbus.conn}) = {modbus.conn} /\ Pointed({modbus.conn})' = {}
    BY <1>0, <1>6, PointedSet DEF Control, ModbusOK, ModbusDrops, WithoutClient
  <2>2. /\ Pointed({modbus.conn})' = Pointed({modbus.conn}) \ {modbus.conn}
        /\ free' = free \cup {modbus.conn}
        /\ UNCHANGED <<lost, box, http, radmon>>
    BY <1>6, <2>1 DEF ModbusDrops, AfterDrop
  <2>3. Moves(modbus.conn, 4, 1)
    BY <2>1, <2>2, PlaceIs, PlaceBecomes, Untouched, SMTT(30) DEF Moves
  <2> QED BY <2>3
<1>7. CASE HttpListens
  <2>1. /\ Pointed({http.listener}) = {} /\ Pointed({http.listener})' = {Given}
        /\ http'.conn = http.conn /\ free # {}
    BY <1>0, <1>b, <1>7, PointedSet DEF Control, HttpOK, HttpListens
  <2>2. Moves(Given, 1, 5)
    BY <1>b, <1>7, <2>1, PlaceIs, PlaceBecomes, Untouched, SMTT(30) DEF Moves, HttpListens
  <2> QED BY <2>2
<1>8. CASE HttpEnds \/ HttpServes \/ HttpSends
  <2>1. /\ http'.listener = http.listener /\ http'.conn = http.conn
        /\ UNCHANGED <<free, lost, box, modbus, radmon>>
    BY <1>0, <1>8 DEF HttpOK, HttpEnds, HttpServes, HttpSends
  <2> QED BY <2>1, PlaceIs, PlaceBecomes, Untouched DEF Stays
<1>9. CASE HttpAccepts
  <2> DEFINE m == Head(box["http"])
  <2>1. /\ Boxed("modbus")' = Boxed("modbus")
        /\ m \in Netconns \cup {Refused}
        /\ m = Refused => Boxed("http")' = Boxed("http")
        /\ m # Refused => m \in Boxed("http") /\ Boxed("http")' = Boxed("http") \ {m}
    BY <1>0, <1>9, BoxTaken DEF HttpAccepts
  <2>2. CASE m = Refused
    BY <1>9, <2>1, <2>2, PlaceIs, PlaceBecomes, Untouched DEF Stays, HttpAccepts
  <2>3. CASE m # Refused
    <3>1. /\ http'.listener = http.listener
          /\ Pointed({http.conn}) = {} /\ Pointed({http.conn})' = {m}
      BY <1>0, <1>9, <2>1, <2>3, PointedSet DEF Control, HttpOK, HttpAccepts
    <3>2. /\ Pointed({http.conn})' = Pointed({http.conn}) \cup {m}
          /\ UNCHANGED <<free, lost, modbus, radmon>>
      BY <1>9, <3>1 DEF HttpAccepts
    <3> HIDE DEF m
    <3>3. Moves(m, 9, 6)
      BY <2>1, <2>3, <3>1, <3>2, PlaceIs, PlaceBecomes, Untouched, SMTT(30) DEF Moves
    <3> QED BY <3>3
  <2> QED BY <2>2, <2>3
<1>10. CASE HttpDeletes
  <2>1. /\ http.conn \in Netconns
        /\ http'.listener = http.listener
        /\ Pointed({http.conn}) = {http.conn} /\ Pointed({http.conn})' = {}
    BY <1>0, <1>10, PointedSet DEF Control, HttpOK, HttpDeletes
  <2>2. /\ Pointed({http.conn})' = Pointed({http.conn}) \ {http.conn}
        /\ free' = free \cup {http.conn}
        /\ UNCHANGED <<lost, box, modbus, radmon>>
    BY <1>10, <2>1 DEF HttpDeletes
  <2>3. Moves(http.conn, 6, 1)
    BY <2>1, <2>2, PlaceIs, PlaceBecomes, Untouched DEF Moves
  <2> QED BY <2>3
<1>11. CASE RadmonResolves \/ SiteAnswers \/ RadmonWakes
  <2>1. radmon'.conn = radmon.conn /\ UNCHANGED <<free, lost, box, modbus, http>>
    BY <1>0, <1>11 DEF RadmonOK, RadmonResolves, SiteAnswers, RadmonWakes
  <2> QED BY <2>1, PlaceIs, PlaceBecomes, Untouched DEF Stays
<1>12. CASE RadmonAllocates
  <2>1. CASE free # {} /\ free' = free \ {Given}
             /\ radmon' = [radmon EXCEPT !.at = "connect", !.conn = Given]
    <3>1. Pointed({radmon.conn}) = {} /\ Pointed({radmon.conn})' = {Given}
      BY <1>0, <1>b, <1>12, <2>1, PointedSet DEF Control, RadmonOK, RadmonAllocates
    <3>2. Moves(Given, 1, 7)
      BY <1>b, <1>12, <2>1, <3>1, PlaceIs, PlaceBecomes, Untouched DEF Moves, RadmonAllocates
    <3> QED BY <3>2
  <2>2. CASE radmon' = [radmon EXCEPT !.at = "deleted"] /\ UNCHANGED free
    <3>1. radmon'.conn = radmon.conn
      BY <1>0, <2>2 DEF RadmonOK
    <3> QED BY <1>12, <2>2, <3>1, PlaceIs, PlaceBecomes, Untouched DEF Stays, RadmonAllocates
  <2> QED BY <2>1, <2>2, <1>12 DEF RadmonAllocates
<1>13. CASE RadmonConnects \/ RadmonDeletes
  <2>1. radmon.conn \in Netconns /\ Pointed({radmon.conn}) = {radmon.conn}
    BY <1>0, <1>13, PointedSet DEF Control, RadmonOK, RadmonConnects, RadmonDeletes
  <2>2. radmon' = Called => Pointed({radmon.conn})' = {}
    BY PointedSet DEF Called
  <2>3. CASE RadmonDeletes
    <3>1. Moves(radmon.conn, 7, 1)
      BY <2>1, <2>2, <2>3, PlaceIs, PlaceBecomes, Untouched, SMTT(30) DEF Moves, RadmonDeletes, AfterReport
    <3> QED BY <3>1
  <2>4. CASE RadmonConnects /\ radmon' = Called /\ lost' = lost \cup {radmon.conn}
    <3>1. Moves(radmon.conn, 7, 2)
      BY <2>1, <2>2, <2>4, PlaceIs, PlaceBecomes, Untouched, SMTT(30) DEF Moves, RadmonConnects
    <3> QED BY <3>1
  <2>5. CASE RadmonConnects /\ radmon' = [radmon EXCEPT !.at = "talk"] /\ UNCHANGED lost
    <3>1. radmon'.conn = radmon.conn
      BY <1>0, <2>5 DEF RadmonOK
    <3> QED BY <2>5, <3>1, PlaceIs, PlaceBecomes, Untouched DEF Stays, RadmonConnects
  <2> QED BY <1>13, <2>3, <2>4, <2>5 DEF RadmonConnects
<1>14. CASE UNCHANGED vars
  BY <1>14, PlaceIs, PlaceBecomes, Untouched DEF Stays, vars
<1> QED
  BY <1>1, <1>2, <1>3, <1>4, <1>5, <1>6, <1>7, <1>8, <1>9, <1>10, <1>11, <1>12, <1>13, <1>14
     DEF Next, Outside, ModbusStarts, ModbusServes, HttpStarts, HttpTask, RadmonReports
-------------------------------------------------------------------------------
\* A step of another task or of a client owes nothing new.
LEMMA OwedKept ==
    ASSUME AnsweredInTurn, modbus' = modbus,
           \A n \in Netconns : peer'[n].owed = peer[n].owed
    PROVE  AnsweredInTurn'
BY DEF AnsweredInTurn, Executing

LEMMA OwedStep ==
    ASSUME TypeOK, Control, Separate, AnsweredInTurn, [Next]_vars
    PROVE  AnsweredInTurn'
<1> USE DEF Runs
<1>0. PoolOK /\ PeerOK /\ ModbusOK /\ HttpOK
  BY TypeParts
<1>a. \A n \in Netconns : peer[n] \in Talking /\ peer[n].owed = Executing(n)
  BY <1>0 DEF PeerOK, AnsweredInTurn
<1>b. \A n : n \in Pointed({modbus.conn}) => n \notin free /\ n \notin Pointed({http.conn})
  <2>1. Places[1] \cap Places[4] = {} /\ Places[4] \cap Places[6] = {}
    BY DEF Separate
  <2> QED BY <2>1, PlaceIs
<1>c. modbus.conn \in Netconns => modbus.conn \notin free /\ modbus.conn # http.conn
  BY <1>b, PointedSet
<1>1. ASSUME NEW s \in Servers, ClientConnects(s)
      PROVE  AnsweredInTurn'
  <2>1. CASE free # {} /\ peer' = [peer EXCEPT ![Given] = [Gone EXCEPT !.open = TRUE]]
    <3>1. Given \in Netconns /\ Given # modbus.conn
      BY <1>0, <1>c, <2>1, GivenIsFree DEF PoolOK
    <3>2. Executing(Given) = 0
      BY <3>1 DEF Executing
    <3>3. \A n \in Netconns : peer'[n].owed = peer[n].owed
      BY <1>0, <1>a, <2>1, <3>1, <3>2 DEF PeerOK, Gone
    <3> QED BY <1>1, <3>3, OwedKept DEF ClientConnects
  <2>2. CASE peer' = peer
    BY <1>1, <2>2, OwedKept DEF ClientConnects
  <2> QED BY <1>1, <2>1, <2>2 DEF ClientConnects
<1>2. ASSUME NEW m \in Netconns, ClientSends(m) \/ ClientReads(m) \/ ClientCloses(m)
      PROVE  AnsweredInTurn'
  <2>1. \A n \in Netconns : peer'[n].owed = peer[n].owed
    BY <1>0, <1>a, <1>2 DEF PeerOK, Talking, ClientSends, ClientReads, ClientCloses
  <2> QED BY <1>2, <2>1, OwedKept DEF ClientSends, ClientReads, ClientCloses
<1>3. CASE HttpServes \/ HttpSends
  <2>1. \A n \in Netconns : peer'[n].owed = peer[n].owed
    BY <1>0, <1>a, <1>3 DEF PeerOK, Talking, HttpServes, HttpSends
  <2> QED BY <1>3, <2>1, OwedKept DEF HttpServes, HttpSends
<1>4. CASE HttpDeletes
  <2>1. http.conn \in Netconns /\ http.conn # modbus.conn
    BY <1>0, <1>c, <1>4 DEF Control, HttpOK, HttpDeletes
  <2>2. Executing(http.conn) = 0
    BY <2>1 DEF Executing
  <2>3. \A n \in Netconns : peer'[n].owed = peer[n].owed
    BY <1>0, <1>a, <1>4, <2>1, <2>2 DEF PeerOK, HttpDeletes, Gone
  <2> QED BY <1>4, <2>3, OwedKept DEF HttpDeletes
<1>5. CASE UNCHANGED <<peer, modbus>>
  BY <1>5, OwedKept
\* Nothing is executed before or after these steps.
<1>6. CASE ModbusListens \/ ModbusAccepts \/ ModbusPolls
  <2>1. \A n \in Netconns : Executing(n) = 0
    BY <1>6, PointedSet DEF Executing, Control, ModbusListens, ModbusAccepts, ModbusPolls, MayPoll
  <2>2. modbus' = modbus \/ (modbus'.event = "none" /\ modbus'.at \notin {"exec", "write"})
    BY <1>0, <1>6 DEF Control, ModbusOK, ModbusListens, ModbusAccepts, ModbusPolls
  <2>3. \A n \in Netconns : Executing(n)' = 0
    BY <2>1, <2>2 DEF Executing
  <2>4. peer' = peer
    BY <1>6 DEF ModbusListens, ModbusAccepts, ModbusPolls
  <2> QED BY <1>a, <2>1, <2>3, <2>4 DEF AnsweredInTurn
<1>7. CASE ModbusReceives
  <2>1. modbus.conn \in Netconns /\ \A n \in Netconns : Executing(n) = 0
    BY <1>0, <1>7 DEF Executing, Control, ModbusOK, ModbusReceives
  <2>2. PICK valid \in BOOLEAN :
          /\ modbus' = [modbus EXCEPT !.at = "poll", !.event = IF valid THEN "EV_EXECUTE" ELSE @]
          /\ peer' = [peer EXCEPT ![modbus.conn].sent = @ - 1,
                                  ![modbus.conn].owed = IF valid THEN @ + 1 ELSE @]
    BY <1>7 DEF ModbusReceives
  <2>3. /\ \A n \in Netconns \ {modbus.conn} : peer'[n] = peer[n]
        /\ peer'[modbus.conn].owed = IF valid THEN 1 ELSE 0
    BY <1>0, <1>a, <2>1, <2>2 DEF PeerOK, Talking
  <2>4. \A n \in Netconns : Executing(n)' = IF n = modbus.conn /\ valid THEN 1 ELSE 0
    BY <1>0, <1>7, <2>2 DEF Executing, Control, ModbusOK, ModbusReceives
  <2> QED BY <1>a, <2>1, <2>3, <2>4 DEF AnsweredInTurn
<1>8. CASE ModbusDrops
  <2>1. modbus.conn \in Netconns /\ \A n \in Netconns : Executing(n) = 0
    BY <1>0, <1>8 DEF Executing, Control, ModbusOK, ModbusDrops
  <2>2. \A n \in Netconns : peer'[n].owed = 0
    BY <1>0, <1>a, <1>8, <2>1 DEF PeerOK, ModbusDrops, Gone
  <2>3. \A n \in Netconns : Executing(n)' = 0
    BY <1>0, <1>8, PointedSet DEF Executing, ModbusOK, ModbusDrops, WithoutClient
  <2> QED BY <2>2, <2>3 DEF AnsweredInTurn
<1>9. CASE ModbusExecutes
  <2>1. \A n \in Netconns : Executing(n)' = Executing(n)
    BY <1>0, <1>9 DEF Executing, ModbusOK, ModbusExecutes
  <2>2. peer' = peer
    BY <1>9 DEF ModbusExecutes
  <2> QED BY <1>a, <2>1, <2>2 DEF AnsweredInTurn
<1>10. CASE ModbusAnswers
  <2>1. modbus.conn \in Netconns
    BY <1>0, <1>10 DEF Control, ModbusOK, ModbusAnswers
  <2>2. \A n \in Netconns : Executing(n) = IF n = modbus.conn THEN 1 ELSE 0
    BY <1>10 DEF Executing, Control, ModbusAnswers
  <2>3. \A n \in Netconns : peer'[n].owed = 0
    BY <1>0, <1>a, <1>10, <2>1, <2>2 DEF PeerOK, Talking, ModbusAnswers
  <2>4. \A n \in Netconns : Executing(n)' = 0
    BY <1>0, <1>10 DEF Executing, Control, ModbusOK, ModbusAnswers
  <2> QED BY <2>3, <2>4 DEF AnsweredInTurn
<1> QED
  BY <1>1, <1>2, <1>3, <1>4, <1>5, <1>6, <1>7, <1>8, <1>9, <1>10
     DEF Next, Outside, ModbusStarts, ModbusServes, HttpStarts, HttpTask, RadmonReports, vars,
         ModbusFaults, HttpListens, HttpEnds, HttpAccepts, RadmonResolves, RadmonAllocates,
         RadmonConnects, SiteAnswers, RadmonDeletes, RadmonWakes
-------------------------------------------------------------------------------
LEMMA InvStep == Inv /\ [Next]_vars => Inv'
<1> SUFFICES ASSUME Inv, [Next]_vars PROVE Inv'
  OBVIOUS
<1>1. TypeOK' /\ Control' /\ BoxesDistinct'
  BY TypeStep DEF Inv
<1>2. Separate' /\ Covered'
  BY StepMoves, MovesKeep, StaysKeep DEF Inv
<1>3. AnsweredInTurn'
  BY OwedStep DEF Inv
<1> QED BY <1>1, <1>2, <1>3 DEF Inv

LEMMA AlwaysInv == Spec => []Inv
BY InitInv, InvStep, PTL DEF Spec

LEMMA PlacesInPool ==
    ASSUME TypeOK
    PROVE  \A i \in 1..9 : Places[i] \subseteq Netconns
<1>1. \A s \in Servers : Boxed(s) \subseteq Netconns
  <2> TAKE s \in Servers
  <2>1. box[s] \in Seq(Netconns \cup {Refused})
    BY DEF TypeOK
  <2>2. \A i \in DOMAIN box[s] : box[s][i] \in Netconns \cup {Refused}
    BY <2>1, ElementOfSeq, LenProperties
  <2> QED BY <2>2 DEF Boxed, Pointed, Range
<1>2. \A x \in Netconns \cup {None} : Pointed({x}) \subseteq Netconns
  BY DEF Pointed
<1>3. modbus.listener \in Netconns \cup {None} /\ modbus.conn \in Netconns \cup {None}
  BY DEF TypeOK
<1>4. http.listener \in Netconns \cup {None} /\ http.conn \in Netconns \cup {None}
  BY DEF TypeOK
<1>5. radmon.conn \in Netconns \cup {None}
  BY DEF TypeOK
<1>6. "modbus" \in Servers /\ "http" \in Servers /\ free \subseteq Netconns /\ lost \subseteq Netconns
  BY DEF TypeOK, Servers
<1> QED BY <1>1, <1>2, <1>3, <1>4, <1>5, <1>6, PlaceIs

\* Every variable of the three tasks keeps to its range, whatever the clients do: the
\* owed answers of any connection stay an integer, the boxes hold netconns of the pool.
THEOREM ConnectionsTypeCorrect == Spec => []TypeOK
<1>1. Inv => TypeOK
  BY DEF Inv
<1> QED BY <1>1, AlwaysInv, PTL

\* No netconn is used by two of Modbus server, web server and radmon client or used
\* after it was freed, for any size of the pool and of the accept boxes.
THEOREM NoneIsShared == Spec => []NoneShared
<1>1. DOMAIN Places = 1..9
  BY DEF Places
<1>2. Inv => NoneShared
  BY <1>1 DEF Inv, NoneShared, Separate, BoxesDistinct, Distinct
<1> QED BY <1>2, AlwaysInv, PTL

\* A netconn is in the pool, in use, or lost by a connect of the radmon client that
\* failed; nothing else loses one, in any interleaving.
THEOREM NoneIsForgotten == Spec => []NoneForgotten
<1>1. DOMAIN Places = 1..9
  BY DEF Places
<1>2. Inv => NoneForgotten
  BY <1>1, PlacesInPool DEF Inv, NoneForgotten, Covered, Range
<1> QED BY <1>2, AlwaysInv, PTL

\* The Modbus server answers each request once and to the connection it came from,
\* before it receives another, for any number of clients and requests.
THEOREM AnswersKeepTurn == Spec => []AnsweredInTurn
<1>1. Inv => AnsweredInTurn
  BY DEF Inv
<1> QED BY <1>1, AlwaysInv, PTL
===============================================================================
