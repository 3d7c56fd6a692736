-------------------------------- MODULE Flow --------------------------------
(***************************************************************************)
(* One TCP flow (Tcp) with the parts of server.rs it lives in: the timers   *)
(* its server keeps for it, the acks of the other server, and a network     *)
(* that may lose, duplicate, delay and reorder packets and acks.            *)
(*                                                                          *)
(* Time is abstracted away: a timer may fire at any moment, also before an  *)
(* ack that is on its way.  timers[s] counts the entries for sequence       *)
(* number s in the server's heap; data and acks are the sequence numbers    *)
(* in flight (two copies of one are one that may be delivered twice).       *)
(***************************************************************************)
EXTENDS Integers, Sequences, FiniteSets, SequencesExt, Tcp

CONSTANT SizeByte   \* size_byte of the flow

ASSUME FlowAssumption == SizeByte \in Nat

VARIABLES
  started,        \* the server has the flow
  flow,
  timers, data, acks,
  reports         \* history: completion lines printed

vars == <<started, flow, timers, data, acks, reports>>

(* The packets a flow of this size is cut into. *)
NPackets == (SizeByte + BytesPerPacket - 1) \div BytesPerPacket

(* Room for one sequence number more than the flow should use. *)
Seqs == 0 .. NPackets

-----------------------------------------------------------------------------
(* After a handler the server sends the packets and pushes a timer for each *)
(* of them.  spent is the timer that was popped, if any.                    *)
Send(r, spent) ==
  /\ flow' = r.flow
  /\ data' = data \cup ToSet(r.sent)
  /\ timers' = [s \in Seqs |->
                  timers[s] + Cardinality({i \in DOMAIN r.sent : r.sent[i] = s})
                            - (IF s \in spent THEN 1 ELSE 0)]

(* NetworkEvent::Flow *)
StartFlow ==
  /\ ~started
  /\ started' = TRUE
  /\ Send(Start(flow, 0), {})
  /\ UNCHANGED <<acks, reports>>

(* NetworkEvent::Packet with is_ack.  keep: another copy of the ack is      *)
(* still on its way.                                                        *)
AckArrives(s, keep) ==
  /\ s \in acks
  /\ acks' = IF keep THEN acks ELSE acks \ {s}
  /\ Send(SrcReceive(flow, s), {})
  /\ reports' = IF Completes(flow, s) THEN reports + 1 ELSE reports
  /\ UNCHANGED started

(* Mutant: the entry stays in the heap. *)
FireStays(s) ==
  /\ timers[s] > 0
  /\ s \notin flow.acked
  /\ Send(Timeout(flow, s), {})
  /\ UNCHANGED <<started, acks, reports>>

(* Mutant: the timer is armed again but nothing is sent. *)
FireRearms(s) ==
  /\ timers[s] > 0
  /\ timers' = IF s \in flow.acked THEN [timers EXCEPT ![s] = @ - 1] ELSE timers
  /\ UNCHANGED <<started, flow, data, acks, reports>>

(* NetworkEvent::Timeout, the entry of s is at the top of the heap. *)
Fire(s) ==
  /\ timers[s] > 0
  /\ Send(Timeout(flow, s), {s})
  /\ UNCHANGED <<started, acks, reports>>

(* NetworkEvent::Packet with data: the other server answers every one, new  *)
(* or not, with an ack.                                                     *)
DataArrives(s, keep) ==
  /\ s \in data
  /\ data' = IF keep THEN data ELSE data \ {s}
  /\ acks' = acks \cup {s}
  /\ UNCHANGED <<started, flow, timers, reports>>

(* A router drops a packet or an ack. *)
Lose(s) ==
  /\ \/ s \in data /\ data' = data \ {s} /\ UNCHANGED acks
     \/ s \in acks /\ acks' = acks \ {s} /\ UNCHANGED data
  /\ UNCHANGED <<started, flow, timers, reports>>

-----------------------------------------------------------------------------
Init ==
  /\ started = FALSE
  /\ flow = NewFlow(1, 2, SizeByte)
  /\ timers = [s \in Seqs |-> 0]
  /\ data = {} /\ acks = {}
  /\ reports = 0

Everything == 0 .. NPackets - 1

(* The flow is complete and nothing of it is left in flight or in the heap. *)
Over ==
  /\ started /\ flow.acked = Everything
  /\ data = {} /\ acks = {} /\ \A s \in Seqs : timers[s] = 0
  /\ UNCHANGED vars

Next ==
  \/ StartFlow
  \/ Over
  \/ \E s \in Seqs : \/ \E keep \in BOOLEAN : AckArrives(s, keep) \/ DataArrives(s, keep)
                     \/ Fire(s)
                     \/ Lose(s)

Spec == Init /\ [][Next]_vars

(* Timers fire; a packet or ack that is sent again and again gets through   *)
(* again and again (a router only drops while a queue is too long).         *)
FairSpec ==
  /\ Spec
  /\ WF_vars(StartFlow)
  /\ \A s \in Seqs : /\ WF_vars(Fire(s))
                     /\ SF_vars(DataArrives(s, FALSE))
                     /\ SF_vars(AckArrives(s, FALSE))

-----------------------------------------------------------------------------
(* Properties *)

Sent == 0 .. flow.next_seq - 1

(* No usize underflow of outstanding, no index past acked (every number in  *)
(* flight or on a timer was sent), no packet past the end of the flow.      *)
TypeOK ==
  /\ started \in BOOLEAN
  /\ flow.outstanding \in 0 .. Cwnd
  /\ flow.n_acked \in 0 .. NPackets
  /\ flow.next_seq \in 0 .. NPackets
  /\ flow.acked \subseteq Sent /\ data \subseteq Sent /\ acks \subseteq Sent
  /\ flow.rtx_queue \in Seq(Sent)
  /\ timers \in [Seqs -> Nat] /\ \A s \in Seqs \ Sent : timers[s] = 0
  /\ reports \in Nat

(* The window counters stay exact through any mix of acks, duplicate acks   *)
(* and timeouts: outstanding is the number of packets sent and not acked,   *)
(* no wanted retransmission is left waiting, and the window is only open    *)
(* when there is nothing more to send.                                      *)
WindowExact ==
  started =>
    /\ flow.outstanding = Cardinality(Sent \ flow.acked)
    /\ flow.n_acked = Cardinality(flow.acked)
    /\ flow.rtx_queue = <<>>
    /\ flow.outstanding < Cwnd => flow.next_seq = NPackets

(* Every packet that still needs an ack has exactly one timer: without one  *)
(* it would never be sent again, with two it would be counted out of the    *)
(* window twice.                                                            *)
OneTimerEach ==
  \A s \in Seqs : /\ timers[s] <= 1
                  /\ s \in Sent \ flow.acked => timers[s] = 1

(* The completion line is printed once, by the ack of the last packet       *)
(* missing.                                                                 *)
ReportedOnce ==
  reports = IF NPackets > 0 /\ flow.acked = Everything THEN 1 ELSE 0

(* Every flow completes although any packet or ack may be lost. *)
FlowCompletes == <>(flow.acked = Everything)
=============================================================================
