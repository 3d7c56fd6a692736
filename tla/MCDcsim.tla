------------------------------- MODULE MCDcsim -------------------------------
(* Dcsim on a single rack. *)
EXTENDS Dcsim, Config

(* Two hosts and their router; three hosts and theirs. *)
Rack2 == BuildFc(1, 2)
Rack3 == BuildFc(1, 3)

Fl(t, s, d, n) == [time |-> t, src |-> s, dst |-> d, size_byte |-> n]

(* Two packets from one host, the second not full, and, later, one from     *)
(* another, all to the third.                                               *)
Incast == AddFlows(<<Fl(0, 1, 3, 3), Fl(10, 2, 3, 1)>>, 1 .. 3)

(* A flow of two full packets. *)
Single == AddFlows(<<Fl(0, 1, 2, 3000)>>, 1 .. 2)

(* The completion time of a lone flow in a rack depends on the network      *)
(* only: the transmissions of its packets, four times the latency, two of   *)
(* an ack.  For ten packets that is the 16 016 of                           *)
(* rustasim-dcsim/tests/single_rack_single_flow.rs.                         *)
FctExact ==
  \A f \in fcts :
    f.end - f.start =
      (f.size_byte \div BytesPerPacket) * TxTime(BytesPerPacket) + 4 * Latency + 2 * TxTime(AckBytes)
=============================================================================
