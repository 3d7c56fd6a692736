------------------------------ MODULE FlowProofs ------------------------------
(***************************************************************************)
(* The window, the timers and the completion line of Flow, for a flow of    *)
(* any size, packets of any size and any window.                            *)
(***************************************************************************)
EXTENDS Flow, CommonLemmas

(* The inductive invariant. *)
Typed ==
  /\ started \in BOOLEAN
  /\ flow \in FlowRecord(SizeByte)
  /\ timers \in [Seqs -> Nat]
  /\ data \in SUBSET Nat /\ acks \in SUBSET Nat
  /\ reports \in Nat

Fresh ==
  /\ flow = NewFlow(1, 2, SizeByte)
  /\ data = {} /\ acks = {}

InFlight ==
  /\ data \subseteq Sent /\ acks \subseteq Sent

TimersMatch ==
  /\ \A s \in Seqs : timers[s] <= 1
  /\ \A s \in Missing(flow) : timers[s] = 1
  /\ \A s \in Seqs \ Sent : timers[s] = 0

IInv ==
  /\ Typed
  /\ IF started THEN Filled(flow, SizeByte) ELSE Fresh
  /\ InFlight
  /\ TimersMatch
  /\ ReportedOnce
-----------------------------------------------------------------------------
(* How often s is among the packets sent. *)
Copies(sent, s) == Cardinality({i \in DOMAIN sent : sent[i] = s})

LEMMA Sizes == SizeByte \in Nat /\ NPackets = PacketsOf(SizeByte) /\ NPackets \in Nat
<1>1. SizeByte \in Nat /\ NPackets = PacketsOf(SizeByte)
  BY FlowAssumption DEF NPackets, PacketsOf
<1> QED  BY <1>1, PacketCount

LEMMA SentOnce ==
  ASSUME NEW q \in Nat, NEW n \in Nat, NEW s \in Nat, NEW sent, sent = [k \in 1 .. n |-> q + k - 1]
  PROVE  Copies(sent, s) = IF s \in q .. q + n - 1 THEN 1 ELSE 0
<1> DEFINE S == {i \in DOMAIN sent : sent[i] = s}
<1>1. S = IF s \in q .. q + n - 1 THEN {s - q + 1} ELSE {}
  OBVIOUS
<1> HIDE DEF S
<1>2. Cardinality(S) = IF s \in q .. q + n - 1 THEN 1 ELSE 0
  BY <1>1, FS_EmptySet, FS_Singleton
<1> QED  BY <1>2 DEF S, Copies

LEMMA Numbers ==
  ASSUME NEW f \in FlowRecord(SizeByte)
  PROVE  /\ Seqs = 0 .. NPackets /\ Seqs \subseteq Nat
         /\ f.next_seq \in Nat /\ f.next_seq <= NPackets
         /\ 0 .. f.next_seq - 1 \subseteq Seqs
<1>1. f.next_seq \in 0 .. NPackets /\ NPackets \in Nat
  BY Sizes DEF FlowRecord
<1> DEFINE q == f.next_seq
<1> HIDE DEF q
<1>2. 0 .. q - 1 \subseteq 0 .. NPackets /\ q \in Nat /\ q <= NPackets /\ 0 .. NPackets \subseteq Nat
  BY <1>1 DEF q
<1> QED  BY <1>2 DEF q, Seqs

(* The end of a handler that sends new packets. *)
LEMMA SendKeeps ==
  ASSUME NEW r, NEW q \in Nat, Sends(r, q), r.flow \in FlowRecord(SizeByte),
         timers \in [Seqs -> Nat],
         \A s \in Seqs : timers[s] <= 1,
         \A s \in Seqs : s \in 0 .. q - 1 /\ s \notin r.flow.acked => timers[s] = 1,
         \A s \in Seqs : s \notin 0 .. q - 1 => timers[s] = 0,
         data \subseteq 0 .. q - 1,
         Send(r, {})
  PROVE  /\ flow' = r.flow /\ timers' \in [Seqs -> Nat] /\ TimersMatch'
         /\ 0 .. q - 1 \subseteq Sent' /\ data' \subseteq Sent'
<1> DEFINE sent == r.sent
<1>1. PICK n \in Nat : sent = [k \in 1 .. n |-> q + k - 1] /\ r.flow.next_seq = q + n
  BY DEF Sends
<1>2. /\ flow' = r.flow /\ data' = data \cup ToSet(sent)
      /\ timers' = [s \in Seqs |-> timers[s] + Copies(sent, s) - 0]
  BY DEF Send, Copies
<1>3. Sent' = 0 .. (q + n) - 1
  BY <1>1, <1>2 DEF Sent
<1>4. Seqs \subseteq Nat /\ 0 .. (q + n) - 1 \subseteq Seqs
  BY <1>1, Numbers
<1>5. 0 .. q - 1 \subseteq 0 .. (q + n) - 1 /\ q .. q + n - 1 \subseteq 0 .. (q + n) - 1
  BY <1>1
<1> HIDE DEF sent
<1>6. \A s \in Seqs : timers'[s] = timers[s] + IF s \in q .. q + n - 1 THEN 1 ELSE 0
  <2> TAKE s \in Seqs
  <2>0. s \in Nat
    BY <1>4
  <2>1. Copies(sent, s) = IF s \in q .. q + n - 1 THEN 1 ELSE 0
    BY ONLY q \in Nat, n \in Nat, <1>1, <2>0, SentOnce
  <2> QED  BY <1>2, <2>1
<1>7. timers' \in [Seqs -> Nat]
  <2>1. \A s \in Seqs : timers'[s] \in Nat
    BY <1>6
  <2> QED  BY <1>2, <2>1
<1>8. data' \subseteq Sent'
  <2>1. ToSet(sent) \subseteq q .. q + n - 1
    BY <1>1 DEF ToSet
  <2> QED  BY <1>2, <1>3, <1>5, <2>1
<1>9. TimersMatch'
  <2>1. \A s \in Seqs : /\ s \in 0 .. q - 1 \/ s \in q .. q + n - 1 \/ s \notin 0 .. (q + n) - 1
                        /\ s \in q .. q + n - 1 => s \notin 0 .. q - 1
    BY <1>1, <1>4
  <2>2. \A s : s \in Missing(flow') <=> s \in 0 .. (q + n) - 1 /\ s \notin r.flow.acked
    BY <1>1, <1>2 DEF Missing, SentOf
  <2>3. \A s \in Seqs : timers'[s] <= 1
    BY <1>6, <2>1
  <2>4. \A s \in Missing(flow') : timers'[s] = 1
    BY <1>4, <1>6, <2>1, <2>2
  <2>5. \A s \in Seqs \ Sent' : timers'[s] = 0
    BY <1>3, <1>5, <1>6
  <2> QED  BY <2>3, <2>4, <2>5 DEF TimersMatch, Missing, SentOf, Sent
<1> QED  BY <1>2, <1>3, <1>5, <1>7, <1>8, <1>9
-----------------------------------------------------------------------------
LEMMA NewTyped ==
  /\ NewFlow(1, 2, SizeByte) \in FlowRecord(SizeByte)
  /\ LET f == NewFlow(1, 2, SizeByte)
     IN  /\ f.rtx_queue = <<>> /\ f.acked = {} /\ f.next_seq = 0
         /\ f.n_acked = 0 /\ f.outstanding = 0 /\ f.start = 0
<1>1. 0 \in 0 .. Cwnd /\ 0 \in 0 .. PacketsOf(SizeByte) /\ <<>> \in Seq(Nat)
  BY Sizes, TcpAssumption
<1> QED  BY <1>1 DEF NewFlow, FlowRecord

LEMMA InitKeeps == Init => IInv
<1> SUFFICES ASSUME Init  PROVE IInv
  OBVIOUS
<1>1. /\ ~started /\ started \in BOOLEAN /\ data = {} /\ acks = {} /\ reports = 0
      /\ flow = NewFlow(1, 2, SizeByte)
      /\ timers = [s \in Seqs |-> 0]
  BY DEF Init
<1>2. flow \in FlowRecord(SizeByte) /\ flow.acked = {} /\ flow.next_seq = 0
  BY <1>1, NewTyped
<1>3. Typed /\ Fresh /\ InFlight
  BY <1>1, <1>2 DEF Typed, Fresh, InFlight
<1>4. TimersMatch
  <2>1. Missing(flow) = {}
    BY <1>2 DEF Missing, SentOf
  <2> QED  BY <1>1, <2>1 DEF TimersMatch
<1>5. ReportedOnce
  <2>1. NPackets > 0 => 0 \in Everything
    BY Sizes DEF Everything
  <2> QED  BY <1>1, <1>2, <2>1 DEF ReportedOnce
<1> QED  BY <1>1, <1>3, <1>4, <1>5 DEF IInv

LEMMA StartKeeps ==
  ASSUME IInv, StartFlow
  PROVE  IInv'
<1>1. Typed /\ Fresh /\ InFlight /\ TimersMatch /\ ReportedOnce
  BY DEF IInv, StartFlow
<1>2. started' = TRUE /\ Send(Start(flow, 0), {}) /\ UNCHANGED <<acks, reports>>
  BY DEF StartFlow
<1>3. /\ flow \in FlowRecord(SizeByte) /\ flow.rtx_queue = <<>> /\ flow.acked = {} /\ flow.next_seq = 0
      /\ flow.n_acked = 0 /\ flow.outstanding = 0 /\ flow.start = 0
      /\ data = {} /\ acks = {}
  BY <1>1, NewTyped DEF Fresh
<1> DEFINE r == Start(flow, 0)
<1>4. r.flow \in FlowRecord(SizeByte) /\ Filled(r.flow, SizeByte) /\ r.flow.acked = {} /\ Sends(r, 0)
  <2>1. r = Start(NewFlow(1, 2, SizeByte), 0) /\ 0 \in Nat /\ 1 \in Nat /\ 2 \in Nat /\ SizeByte \in Nat
    BY <1>1, Sizes DEF Fresh
  <2> HIDE DEF r
  <2> QED  BY ONLY <2>1, StartFills
<1> HIDE DEF r
<1>5. Send(r, {})
  BY <1>2 DEF r
<1>6. flow' = r.flow /\ timers' \in [Seqs -> Nat] /\ TimersMatch' /\ data' \subseteq Sent'
  <2>1. timers \in [Seqs -> Nat] /\ \A s \in Seqs : timers[s] <= 1
    BY <1>1 DEF Typed, TimersMatch
  <2>2. \A s \in Seqs : s \notin 0 .. 0 - 1 => timers[s] = 0
    BY <1>1, <1>3 DEF TimersMatch, Sent
  <2>3. \A s \in Seqs : s \in 0 .. 0 - 1 /\ s \notin r.flow.acked => timers[s] = 1
    OBVIOUS
  <2>4. data \subseteq 0 .. 0 - 1 /\ 0 \in Nat
    BY <1>3
  <2> QED  BY ONLY <1>4, <1>5, <2>1, <2>2, <2>3, <2>4, SendKeeps
<1>8. /\ flow' \in FlowRecord(SizeByte) /\ Filled(flow', SizeByte) /\ flow'.acked = flow.acked
      /\ timers' \in [Seqs -> Nat] /\ TimersMatch' /\ data' \subseteq Sent'
  BY <1>3, <1>4, <1>6
<1>9. Sent' \subseteq Nat
  BY <1>8, Numbers DEF Sent
<1>10. Typed' /\ InFlight'
  BY <1>1, <1>2, <1>3, <1>8, <1>9 DEF Typed, InFlight
<1>11. ReportedOnce'
  BY <1>1, <1>2, <1>8 DEF ReportedOnce
<1> QED  BY <1>2, <1>8, <1>10, <1>11 DEF IInv

LEMMA AckKeeps ==
  ASSUME IInv, NEW s \in Seqs, NEW keep \in BOOLEAN, AckArrives(s, keep)
  PROVE  IInv'
<1>1. Typed /\ InFlight /\ TimersMatch /\ ReportedOnce /\ (IF started THEN Filled(flow, SizeByte) ELSE Fresh)
  BY DEF IInv
<1>2. /\ s \in acks /\ acks' \subseteq acks
      /\ Send(SrcReceive(flow, s), {})
      /\ reports' = IF Completes(flow, s) THEN reports + 1 ELSE reports
      /\ started' = started
  BY DEF AckArrives
<1>3. started /\ Filled(flow, SizeByte)
  BY <1>1, <1>2 DEF Fresh
<1>4. flow \in FlowRecord(SizeByte) /\ timers \in [Seqs -> Nat]
  BY <1>1 DEF Typed
<1>5. s \in 0 .. flow.next_seq - 1 /\ acks \subseteq 0 .. flow.next_seq - 1 /\ data \subseteq 0 .. flow.next_seq - 1
  BY <1>1, <1>2 DEF InFlight, Sent
<1>6. /\ \A x \in Seqs : timers[x] <= 1
      /\ \A x \in Missing(flow) : timers[x] = 1
      /\ \A x \in Seqs \ (0 .. flow.next_seq - 1) : timers[x] = 0
  BY <1>1 DEF TimersMatch, Sent
<1>7. ASSUME /\ flow' \in FlowRecord(SizeByte) /\ Filled(flow', SizeByte) /\ timers' \in [Seqs -> Nat] /\ TimersMatch'
             /\ 0 .. flow.next_seq - 1 \subseteq Sent' /\ data' \subseteq Sent'
             /\ ReportedOnce' /\ reports' \in Nat
      PROVE  IInv'
  <2>1. Sent' \subseteq Nat
    BY <1>7, Numbers DEF Sent
  <2>2. acks' \subseteq Sent'
    BY <1>2, <1>5, <1>7
  <2>3. Typed' /\ InFlight'
    BY <1>1, <1>2, <1>7, <2>1, <2>2 DEF Typed, InFlight
  <2> QED  BY <1>2, <1>3, <1>7, <2>3 DEF IInv
<1> DEFINE r == SrcReceive(flow, s)
<1>8. /\ r.flow \in FlowRecord(SizeByte) /\ Filled(r.flow, SizeByte)
      /\ r.flow.acked = flow.acked \cup {s} /\ Sends(r, flow.next_seq)
  BY <1>3, <1>4, <1>5, Sizes, ReceiveFills DEF SentOf
<1> HIDE DEF r
<1>9. /\ flow' \in FlowRecord(SizeByte) /\ Filled(flow', SizeByte) /\ flow'.acked = flow.acked \cup {s}
      /\ timers' \in [Seqs -> Nat] /\ TimersMatch'
      /\ 0 .. flow.next_seq - 1 \subseteq Sent' /\ data' \subseteq Sent'
  <2>1. flow.next_seq \in Nat /\ Send(r, {})
    BY <1>2, <1>4, Numbers DEF r
  <2>2. \A x \in Seqs : x \in 0 .. flow.next_seq - 1 /\ x \notin r.flow.acked => timers[x] = 1
    BY <1>6, <1>8 DEF Missing, SentOf
  <2>3. flow' = r.flow /\ timers' \in [Seqs -> Nat] /\ TimersMatch'
        /\ 0 .. flow.next_seq - 1 \subseteq Sent' /\ data' \subseteq Sent'
    BY <1>4, <1>5, <1>6, <1>8, <2>1, <2>2, SendKeeps
  <2> QED  BY <1>8, <2>3
<1>10. CASE s \in flow.acked
  <2>1. reports' = reports /\ flow'.acked = flow.acked
    BY <1>2, <1>9, <1>10 DEF Completes
  <2>2. ReportedOnce' /\ reports' \in Nat
    BY <1>1, <2>1 DEF ReportedOnce, Typed
  <2> QED  BY <1>7, <1>9, <2>2
<1>11. CASE s \notin flow.acked
  <2> DEFINE m == NPackets
             A == flow.acked
             a == flow.n_acked
  <2>5. /\ m \in Nat /\ a \in Nat /\ a + 1 <= flow.next_seq /\ flow.next_seq <= m /\ a + 1 <= m
        /\ flow.next_seq \in Nat
    <3>1. Cardinality(A \cup {s}) = Cardinality(A) + 1 /\ A \cup {s} \in SUBSET (0 .. flow.next_seq - 1)
      BY <1>3, <1>4, <1>5, <1>11, Numbers, AckedMore DEF Filled, Counters, SentOf
    <3>2. Cardinality(A \cup {s}) \in 0 .. flow.next_seq /\ a = Cardinality(A) /\ a \in Nat
      BY <1>3, <1>4, <3>1, Numbers, SizeOfAcked DEF Filled, Counters, FlowRecord
    <3>3. m \in Nat /\ flow.next_seq \in Nat /\ flow.next_seq <= m
      BY <1>4, Sizes, Numbers
    <3> QED  BY ONLY <3>1, <3>2, <3>3
  <2>6. A \cup {s} \in SUBSET (0 .. m - 1) /\ Cardinality(A \cup {s}) = a + 1
    <3>1. A \in SUBSET (0 .. flow.next_seq - 1) /\ a = Cardinality(A)
      BY <1>3 DEF Filled, Counters, SentOf
    <3> QED  BY <1>5, <1>11, <2>5, <3>1, AckedMore
  <2>7. A \cup {s} = 0 .. m - 1 <=> a + 1 = m
    <3>1. Cardinality(A \cup {s}) = m => A \cup {s} = 0 .. m - 1
      BY <2>5, <2>6, SizeOfAcked
    <3>2. Cardinality(0 .. m - 1) = m
      BY <2>5, SizeOfSent
    <3> QED  BY <2>6, <3>1, <3>2
  <2>8. Completes(flow, s) <=> a + 1 = m
    <3>1. (a + 1) * BytesPerPacket < SizeByte <=> a + 1 < m
      BY <2>5, Sizes, PacketCount
    <3>2. flow.size_byte = SizeByte
      BY <1>4 DEF FlowRecord
    <3>3. (a + 1) * BytesPerPacket \in Nat /\ SizeByte \in Nat
      BY <2>5, TcpAssumption, FlowAssumption
    <3>4. (a + 1) * BytesPerPacket >= SizeByte <=> ~((a + 1) * BytesPerPacket < SizeByte)
      BY <3>3
    <3> QED  BY <1>11, <2>5, <3>1, <3>2, <3>4 DEF Completes
  <2>9. reports = 0
    <3>1. s \in Everything
      BY <2>6 DEF Everything
    <3> QED  BY <1>1, <1>11, <3>1 DEF ReportedOnce
  <2>10. ReportedOnce' /\ reports' \in Nat
    <3>1. flow'.acked = Everything <=> a + 1 = m
      BY <1>9, <2>7 DEF Everything
    <3>2. m > 0
      BY <2>5
    <3> QED  BY <1>2, <2>8, <2>9, <3>1, <3>2 DEF ReportedOnce
  <2> QED  BY <1>7, <1>9, <2>10
<1> QED  BY <1>10, <1>11

LEMMA FireKeeps ==
  ASSUME IInv, NEW s \in Seqs, Fire(s)
  PROVE  IInv'
<1>1. Typed /\ InFlight /\ TimersMatch /\ ReportedOnce /\ (IF started THEN Filled(flow, SizeByte) ELSE Fresh)
  BY DEF IInv
<1>2. /\ timers[s] > 0 /\ Send(Timeout(flow, s), {s})
      /\ UNCHANGED <<started, acks, reports>>
  BY DEF Fire
<1>3. flow \in FlowRecord(SizeByte) /\ timers \in [Seqs -> Nat]
  BY <1>1 DEF Typed
<1>4. s \in Sent /\ timers[s] = 1
  BY <1>1, <1>2, <1>3 DEF TimersMatch
<1>5. started /\ Filled(flow, SizeByte)
  <2> SUFFICES ASSUME ~started  PROVE FALSE
    BY <1>1
  <2>1. flow.next_seq = 0
    BY <1>1, NewTyped DEF Fresh
  <2> QED  BY <1>4, <2>1 DEF Sent
<1>6. ASSUME flow' = flow, data' \subseteq Sent,
             \A x \in Seqs : timers'[x] = timers[x] \/ (x = s /\ s \in flow.acked /\ timers'[x] = 0),
             timers' \in [Seqs -> Nat]
      PROVE  IInv'
  <2>1. Sent' = Sent /\ Missing(flow') = Missing(flow)
    BY <1>6 DEF Sent
  <2>2. Sent \subseteq Seqs /\ Sent \subseteq Nat
    BY <1>3, Numbers DEF Sent
  <2>3. InFlight' /\ Typed'
    BY <1>1, <1>2, <1>6, <2>1, <2>2 DEF InFlight, Typed
  <2>4. TimersMatch'
    <3>1. \A x \in Missing(flow) : x \in Seqs /\ x \notin flow.acked
      BY <2>2 DEF Missing, SentOf, Sent
    <3>2. \A x \in Seqs : timers'[x] <= 1
      BY <1>1, <1>6 DEF TimersMatch
    <3>3. \A x \in Missing(flow') : timers'[x] = 1
      BY <1>1, <1>6, <2>1, <3>1 DEF TimersMatch
    <3>4. \A x \in Seqs \ Sent' : timers'[x] = 0
      BY <1>1, <1>6, <2>1 DEF TimersMatch
    <3> QED  BY <3>2, <3>3, <3>4 DEF TimersMatch, Missing, SentOf, Sent
  <2>5. ReportedOnce'
    BY <1>1, <1>2, <1>6 DEF ReportedOnce
  <2> QED  BY <1>2, <1>5, <1>6, <2>3, <2>4, <2>5 DEF IInv
<1> DEFINE sent == Timeout(flow, s).sent
<1>7. /\ flow' = Timeout(flow, s).flow /\ data' = data \cup ToSet(sent)
      /\ timers' = [x \in Seqs |-> timers[x] + Copies(sent, x) - (IF x = s THEN 1 ELSE 0)]
  BY <1>2 DEF Send, Copies
<1> HIDE DEF sent
<1>8. data \subseteq Sent
  BY <1>1 DEF InFlight
<1>9. /\ flow' = flow
      /\ sent = IF s \in flow.acked THEN <<>> ELSE <<s>>
  BY <1>3, <1>4, <1>5, <1>7, Sizes, TimeoutRepeats DEF Sent, SentOf, sent
<1>10. CASE s \in flow.acked
  <2>1. sent = <<>>
    BY <1>9, <1>10
  <2>2. ToSet(sent) = {} /\ \A x \in Seqs : Copies(sent, x) = 0
    <3>1. DOMAIN sent = {}
      BY <2>1
    <3> QED  BY <3>1, FS_EmptySet DEF ToSet, Copies
  <2>3. \A x \in Seqs : timers'[x] = IF x = s THEN 0 ELSE timers[x]
    BY <1>3, <1>4, <1>7, <2>2
  <2>4. timers' \in [Seqs -> Nat]
    BY <1>3, <1>7, <2>3
  <2> QED  BY <1>6, <1>7, <1>8, <1>9, <1>10, <2>2, <2>3, <2>4
<1>11. CASE s \notin flow.acked
  <2>1. sent = <<s>>
    BY <1>9, <1>11
  <2>2. ToSet(sent) = {s} /\ \A x \in Seqs : Copies(sent, x) = IF x = s THEN 1 ELSE 0
    <3>1. DOMAIN sent = {1} /\ sent[1] = s
      BY <2>1
    <3>2. \A x \in Seqs : {i \in DOMAIN sent : sent[i] = x} = IF x = s THEN {1} ELSE {}
      BY <3>1
    <3> QED  BY <3>1, <3>2, FS_EmptySet, FS_Singleton DEF ToSet, Copies
  <2>3. \A x \in Seqs : timers'[x] = timers[x]
    BY <1>3, <1>7, <2>2
  <2>4. timers' \in [Seqs -> Nat]
    BY <1>3, <1>7, <2>3
  <2> QED  BY <1>4, <1>6, <1>7, <1>8, <1>9, <2>2, <2>3, <2>4
<1> QED  BY <1>10, <1>11

(* Steps of the network. *)
LEMMA TravelKeeps ==
  ASSUME IInv, UNCHANGED <<started, flow, timers, reports>>,
         data' \subseteq data, acks' \subseteq acks \cup data
  PROVE  IInv'
<1>1. Typed /\ InFlight /\ TimersMatch /\ ReportedOnce /\ (IF started THEN Filled(flow, SizeByte) ELSE Fresh)
  BY DEF IInv
<1>2. Typed' /\ InFlight' /\ TimersMatch' /\ ReportedOnce'
  BY <1>1 DEF Typed, InFlight, TimersMatch, Missing, SentOf, Sent, ReportedOnce
<1>3. IF started' THEN Filled(flow', SizeByte) ELSE Fresh'
  BY <1>1 DEF Fresh
<1> QED  BY <1>2, <1>3 DEF IInv

LEMMA NextKeeps == IInv /\ [Next]_vars => IInv'
<1> SUFFICES ASSUME IInv, [Next]_vars  PROVE IInv'
  OBVIOUS
<1>1. CASE UNCHANGED vars
  BY <1>1, TravelKeeps DEF vars
<1>2. ASSUME NEW s \in Seqs, NEW keep \in BOOLEAN, DataArrives(s, keep)  PROVE IInv'
  <2>1. UNCHANGED <<started, flow, timers, reports>> /\ data' \subseteq data /\ acks' \subseteq acks \cup data
    BY <1>2 DEF DataArrives
  <2> QED  BY <2>1, TravelKeeps
<1>3. ASSUME NEW s \in Seqs, Lose(s)  PROVE IInv'
  <2>1. UNCHANGED <<started, flow, timers, reports>> /\ data' \subseteq data /\ acks' \subseteq acks \cup data
    BY <1>3 DEF Lose
  <2> QED  BY <2>1, TravelKeeps
<1> QED  BY <1>1, <1>2, <1>3, StartKeeps, AckKeeps, FireKeeps DEF Next, Over

(* A flow never leaves the states of the inductive invariant. *)
THEOREM Invariant == Spec => []IInv
  BY InitKeeps, NextKeeps, PTL DEF Spec
-----------------------------------------------------------------------------
LEMMA InvariantsFollow == IInv => TypeOK /\ WindowExact /\ OneTimerEach /\ ReportedOnce
<1> SUFFICES ASSUME IInv  PROVE TypeOK /\ WindowExact /\ OneTimerEach /\ ReportedOnce
  OBVIOUS
<1> DEFINE q == flow.next_seq
           A == flow.acked
<1>1. Typed /\ InFlight /\ TimersMatch /\ ReportedOnce /\ (IF started THEN Filled(flow, SizeByte) ELSE Fresh)
  BY DEF IInv
<1>2. flow \in FlowRecord(SizeByte) /\ timers \in [Seqs -> Nat]
  BY <1>1 DEF Typed
<1>3. q \in Nat /\ q <= NPackets /\ q \in 0 .. NPackets /\ flow.outstanding \in 0 .. Cwnd
      /\ flow.n_acked \in Nat /\ NPackets \in Nat
  BY <1>2, Numbers, Sizes DEF FlowRecord
<1>4. /\ A \in SUBSET (0 .. q - 1) /\ flow.rtx_queue = <<>>
      /\ flow.n_acked = Cardinality(A) /\ flow.outstanding = q - flow.n_acked
  <2>1. CASE started
    BY <1>1, <2>1 DEF Filled, Counters, SentOf
  <2>2. CASE ~started
    <3>1. A = {} /\ q = 0 /\ flow.n_acked = 0 /\ flow.outstanding = 0 /\ flow.rtx_queue = <<>>
      BY <1>1, <2>2, NewTyped DEF Fresh
    <3>2. Cardinality(A) = 0 /\ 0 = 0 - 0
      BY <3>1, FS_EmptySet
    <3> QED  BY <3>1, <3>2
  <2> QED  BY <2>1, <2>2
<1>5. Cardinality(A) \in 0 .. q /\ Cardinality((0 .. q - 1) \ A) = q - Cardinality(A)
  BY <1>3, <1>4, SizeOfAcked
<1>6. Sent = 0 .. q - 1
  BY DEF Sent
<1>7. TypeOK
  <2>1. flow.n_acked \in 0 .. NPackets
    BY <1>3, <1>4, <1>5
  <2>2. flow.rtx_queue \in Seq(Sent)
    BY <1>4
  <2> QED  BY <1>1, <1>2, <1>3, <1>4, <1>6, <2>1, <2>2 DEF TypeOK, Typed, InFlight, TimersMatch
<1>8. WindowExact
  <2>1. started => (flow.outstanding < Cwnd => q = NPackets)
    BY <1>1, Sizes DEF Filled
  <2> QED  BY <1>4, <1>5, <1>6, <2>1 DEF WindowExact
<1>9. OneTimerEach
  BY <1>1, <1>6 DEF OneTimerEach, TimersMatch, Missing, SentOf, Sent
<1> QED  BY <1>1, <1>7, <1>8, <1>9

(* For every size, packet size and window, outstanding never underflows and *)
(* no sequence number is past the end of acked.                             *)
THEOREM TypeCorrect == Spec => []TypeOK
  BY Invariant, InvariantsFollow, PTL

(* The window counts stay exact whatever the network loses, duplicates,     *)
(* delays or reorders and whenever the timers fire.                         *)
THEOREM Exact == Spec => []WindowExact
  BY Invariant, InvariantsFollow, PTL

(* Every packet not acked has exactly one timer, so it is sent again.       *)
THEOREM OneTimer == Spec => []OneTimerEach
  BY Invariant, InvariantsFollow, PTL

(* The completion line is printed once, when the last packet is acked.      *)
THEOREM Reported == Spec => []ReportedOnce
  BY Invariant, InvariantsFollow, PTL
=============================================================================
