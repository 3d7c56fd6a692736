------------------------------- MODULE Server --------------------------------
(***************************************************************************)
(* Server::advance of rustasim-dcsim/src/server.rs, one action per event    *)
(* type.  A server's out_queues are the one to itself, for its timer, and   *)
(* the one to its top-of-rack router.                                       *)
(***************************************************************************)
EXTENDS Network

CONSTANT MinRto   \* MIN_RTO

ASSUME ServerAssumption == MinRto \in Nat \ {0}

VARIABLES
  tor_time,   \* time up to which the link to the router is busy, or known to it
  timeouts,   \* the entries <<time, flow, sequence number>> of the heap
  flows,      \* flow ids are positions in this sequence
  fcts        \* history: the completion lines printed

serverVars == <<tor_time, timeouts, flows, fcts>>

Tor(h) == Net[h][1]

ServerInit ==
  /\ tor_time = [h \in Hosts |-> 0]
  /\ timeouts = [h \in Hosts |-> {}]
  /\ flows = [h \in Hosts |-> <<>>]
  /\ fcts = {}

(* Mutant: what the router has been promised is forgotten. *)
ServerStallForgets(t, b, h) ==
  /\ StallsAt(t, b, h)
  /\ tor_time[h] < t
  /\ HandleStall(h, [n \in {Tor(h)} |-> <<Null(t + Latency)>>], "running")
  /\ UNCHANGED <<count, serverVars>>

ServerStall(t, b, h) ==
  /\ StallsAt(t, b, h)
  /\ tor_time[h] < t
  /\ tor_time' = [tor_time EXCEPT ![h] = t]
  /\ HandleStall(h, [n \in {Tor(h)} |-> <<Null(t + Latency)>>], "running")
  /\ UNCHANGED <<count, timeouts, flows, fcts>>

ServerClose(b, h) ==
  /\ IsNext(b, h) /\ First(b, h).kind = "Close"
  /\ Handle(b, h, [n \in {h, Tor(h)} |-> <<Close(First(b, h).time + Latency)>>], "done")
  /\ UNCHANGED <<count, serverVars>>

(* The end of the handlers of Timeout, Flow and ack: the packets r.sent of  *)
(* flow id are sent one after the other, starting at tor_time, and get a    *)
(* timer each.  heap: the timers left; self: what goes to the server.       *)
Transmit(b, h, id, r, heap, self) ==
  LET now      == First(b, h).time
      TxEnd(k) == tor_time[h] + k * TxTime(BytesPerPacket)
      Data(k)  == [src |-> r.flow.src, dst |-> r.flow.dst, seq_num |-> r.sent[k],
                   flow_id |-> id, is_ack |-> FALSE]
      burst    == [k \in DOMAIN r.sent |-> PacketAt(TxEnd(k) + Latency, Data(k))]
  IN  /\ tor_time' = [tor_time EXCEPT ![h] = TxEnd(Len(r.sent))]
      /\ timeouts' = [timeouts EXCEPT ![h] =
                        heap \cup {<<now + MinRto, id, s>> : s \in ToSet(r.sent)}]
      /\ Handle(b, h, [n \in {h, Tor(h)} |-> IF n = h THEN self ELSE burst], "running")

ServerFlow(b, h) ==
  LET e  == First(b, h)
      id == Len(flows[h]) + 1
      r  == Start(NewFlow(e.src, e.dst, e.size_byte), e.time)
  IN  /\ IsNext(b, h) /\ e.kind = "Flow"
      /\ flows' = [flows EXCEPT ![h] = Append(@, r.flow)]
      /\ Transmit(b, h, id, r, timeouts[h], <<>>)
      /\ Counted(h)
      /\ UNCHANGED fcts

ServerAck(b, h) ==
  LET e == First(b, h)
      p == e.packet
      f == flows[h][p.flow_id]
      r == SrcReceive(f, p.seq_num)
  IN  /\ IsNext(b, h) /\ e.kind = "Packet" /\ e.packet.is_ack
      /\ flows' = [flows EXCEPT ![h][p.flow_id] = r.flow]
      /\ fcts' = IF Completes(f, p.seq_num)
                 THEN fcts \cup {[src |-> f.src, dst |-> f.dst, size_byte |-> f.size_byte,
                                  start |-> f.start, end |-> e.time]}
                 ELSE fcts
      /\ Transmit(b, h, p.flow_id, r, timeouts[h], <<>>)
      /\ Counted(h)

(* Data is answered with an ack, sent at tor_time. *)
ServerData(b, h) ==
  LET p     == First(b, h).packet
      txEnd == tor_time[h] + TxTime(AckBytes)
      ack   == [p EXCEPT !.dst = p.src, !.src = h, !.is_ack = TRUE]
  IN  /\ IsNext(b, h) /\ First(b, h).kind = "Packet" /\ ~First(b, h).packet.is_ack
      /\ tor_time' = [tor_time EXCEPT ![h] = txEnd]
      /\ Handle(b, h, [n \in {Tor(h)} |-> <<PacketAt(txEnd + Latency, ack)>>], "running")
      /\ Counted(h)
      /\ UNCHANGED <<timeouts, flows, fcts>>

(* The order of (time, flow_id, seq_num) tuples. *)
Earlier(x, y) ==
  \/ x[1] < y[1]
  \/ x[1] = y[1] /\ x[2] < y[2]
  \/ x[1] = y[1] /\ x[2] = y[2] /\ x[3] <= y[3]

Top(heap) == CHOOSE x \in heap : \A y \in heap : Earlier(x, y)

(* Mutant: the rest of the heap is not looked at. *)
UpcomingSkips(heap, now) == now + MinRto

(* At most one due entry is processed; the next Timeout is scheduled for    *)
(* the entry after it, if that comes before MIN_RTO.                        *)
Upcoming(heap, now) == Min({x[1] : x \in heap} \cup {now + MinRto})

Due(h, now) == \E x \in timeouts[h] : x[1] <= now

ServerTimeout(b, h) ==
  LET now  == First(b, h).time
      top  == Top(timeouts[h])
      heap == timeouts[h] \ {top}
      r    == Timeout(flows[h][top[2]], top[3])
  IN  /\ IsNext(b, h) /\ First(b, h).kind = "Timeout"
      /\ Counted(h)
      /\ UNCHANGED fcts
      /\ \/ /\ Due(h, now)
            /\ flows' = [flows EXCEPT ![h][top[2]] = r.flow]
            /\ Transmit(b, h, top[2], r, heap, <<TimeoutAt(Upcoming(heap, now))>>)
         \/ /\ ~Due(h, now)
            /\ Handle(b, h, [n \in {h} |-> <<TimeoutAt(Upcoming(timeouts[h], now))>>], "running")
            /\ UNCHANGED <<tor_time, timeouts, flows>>

ServerStep(b, h) ==
  \/ ServerClose(b, h) \/ ServerFlow(b, h) \/ ServerAck(b, h)
  \/ ServerData(b, h) \/ ServerTimeout(b, h)
=============================================================================
