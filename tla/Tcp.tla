--------------------------------- MODULE Tcp ---------------------------------
(***************************************************************************)
(* The Flow of rustasim-dcsim/src/tcp.rs as operators: start, src_receive   *)
(* and timeout take a flow and return its next state and the sequence       *)
(* numbers of the packets to send, each of which also gets a timer.         *)
(* acked is the set of sequence numbers whose entry in acked is true.       *)
(***************************************************************************)
EXTENDS Integers, Sequences, FiniteSets

CONSTANTS
  BytesPerPacket,   \* BYTES_PER_PACKET
  Cwnd              \* 30 in Flow::new

ASSUME TcpAssumption == BytesPerPacket \in Nat \ {0} /\ Cwnd \in Nat \ {0}

NewFlow(src, dst, size) ==
  [src |-> src, dst |-> dst, size_byte |-> size, start |-> 0,
   outstanding |-> 0, n_acked |-> 0, next_seq |-> 0, acked |-> {}, rtx_queue |-> <<>>]

(* Flow::next, called again and again, returns the retransmissions that are *)
(* still wanted, by their places in rtx_queue, and then new packets while   *)
(* the size is not reached.                                                 *)
Wanted(f) == {i \in DOMAIN f.rtx_queue : f.rtx_queue[i] \notin f.acked}
NRtx(f)   == Cardinality(Wanted(f))

Rtx(f, k) == CHOOSE i \in Wanted(f) : Cardinality({j \in Wanted(f) : j <= i}) = k
NewSeq(f, k) == f.next_seq + k - 1 - NRtx(f)

(* The sequence number of the k-th packet, if there is one. *)
HasNext(f, k) == k <= NRtx(f) \/ NewSeq(f, k) * BytesPerPacket < f.size_byte
NextSeq(f, k) == IF k <= NRtx(f) THEN f.rtx_queue[Rtx(f, k)] ELSE NewSeq(f, k)

(* What n calls, the last of which may have returned None, leave in         *)
(* rtx_queue.                                                               *)
LeftToRtx(f, n) ==
  CASE n = 0       -> f.rtx_queue
    [] n > NRtx(f) -> <<>>
    [] OTHER       -> SubSeq(f.rtx_queue, Rtx(f, n) + 1, Len(f.rtx_queue))

(* Mutant: one packet more than the window. *)
FillOver(f) ==
  LET n == Cardinality({k \in 1 .. Cwnd + 1 : f.outstanding + k <= Cwnd + 1 /\ HasNext(f, k)})
  IN  [flow |-> [f EXCEPT !.outstanding = @ + n, !.rtx_queue = LeftToRtx(f, Cwnd - f.outstanding),
                          !.next_seq = IF n > NRtx(f) THEN NewSeq(f, n + 1) ELSE @],
       sent |-> [k \in 1 .. n |-> NextSeq(f, k)]]

(* The end of every handler: next() until the window is full or nothing is  *)
(* left to send.                                                            *)
Fill(f) ==
  LET n == Cardinality({k \in 1 .. Cwnd : f.outstanding + k <= Cwnd /\ HasNext(f, k)})
  IN  [flow |-> [f EXCEPT !.outstanding = @ + n, !.rtx_queue = LeftToRtx(f, Cwnd - f.outstanding),
                          !.next_seq = IF n > NRtx(f) THEN NewSeq(f, n + 1) ELSE @],
       sent |-> [k \in 1 .. n |-> NextSeq(f, k)]]

Start(f, time) == Fill([f EXCEPT !.start = time])

(* Mutant: the size is compared before the ack is counted. *)
CompletesBefore(f, s) == s \notin f.acked /\ f.n_acked * BytesPerPacket >= f.size_byte

(* This ack is the one that completes the flow. *)
Completes(f, s) == s \notin f.acked /\ (f.n_acked + 1) * BytesPerPacket >= f.size_byte

(* Mutant: every copy of an ack is counted. *)
SrcReceiveAll(f, s) ==
  Fill([f EXCEPT !.outstanding = @ - 1, !.n_acked = @ + 1, !.acked = @ \cup {s}])

SrcReceive(f, s) ==
  IF s \in f.acked
  THEN Fill(f)
  ELSE Fill([f EXCEPT !.outstanding = @ - 1, !.n_acked = @ + 1, !.acked = @ \cup {s}])

Timeout(f, s) ==
  IF s \in f.acked
  THEN [flow |-> f, sent |-> <<>>]
  ELSE Fill([f EXCEPT !.outstanding = @ - 1, !.rtx_queue = Append(@, s)])
=============================================================================
