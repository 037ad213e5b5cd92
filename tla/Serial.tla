------------------------------- MODULE Serial -------------------------------
(***************************************************************************)
(* The serial port.  A transfer with the internal clock completes in the   *)
(* write that starts it; what comes back depends on the peer.  The host    *)
(* takes the bytes sent from a log and queues the bytes of a remote peer.  *)
(* MaxBytes bounds the bytes sent and the bytes offered.                   *)
(***************************************************************************)
EXTENDS Integers, SequencesExt

CONSTANTS Bytes, Idle, MaxBytes

ASSUME SerialAssumption == Idle \in Bytes /\ MaxBytes \in Nat

Modes == {"Disconnected", "LocalLoopback", "NetworkedPeer"}

VARIABLES
  sb,       \* the data register
  sc,       \* start and clock bits: a subset of {"start", "internal"}
  peer,     \* connection_mode
  log,      \* transfer_log
  queue,    \* peer_receive_queue
  sent,     \* history: bytes the program sent since the last reset, with the
            \* ones the host took before
  taken,    \* history: bytes the host took
  offered,  \* history: bytes the remote peer offered since the queue was emptied
  received, \* history: bytes the program got of those
  offers    \* bytes offered so far, for the bound

serialVars == <<sb, sc, peer, log, queue, sent, taken, offered, received, offers>>

SerialInit ==
  /\ sb = 0 /\ sc = {} /\ peer = "Disconnected" /\ log = <<>> /\ queue = <<>>
  /\ sent = <<>> /\ taken = <<>> /\ offered = <<>> /\ received = <<>> /\ offers = 0

\* write_sb
WriteSb(byte) ==
  /\ sb' = byte
  /\ UNCHANGED <<sc, peer, log, queue, sent, taken, offered, received, offers>>

\* Mutant of Answer: the oldest byte is looked at and stays.
AnswerKept ==
  IF peer = "NetworkedPeer" /\ queue # <<>> THEN <<Head(queue), queue>> ELSE <<Idle, queue>>

\* received_byte_for_transfer: the byte, and the queue after it.
Answer ==
  CASE peer = "Disconnected"  -> <<Idle, queue>>
    [] peer = "LocalLoopback" -> <<sb, queue>>
    [] peer = "NetworkedPeer" -> IF queue = <<>> THEN <<Idle, queue>> ELSE <<Head(queue), Tail(queue)>>

\* maybe_complete_internal_transfer
Transfer ==
  /\ Len(sent) < MaxBytes
  /\ log' = Append(log, sb) /\ sent' = Append(sent, sb)
  /\ sb' = Answer[1] /\ queue' = Answer[2]
  /\ received' = IF peer = "NetworkedPeer" /\ queue # <<>> THEN Append(received, sb') ELSE received
  /\ sc' = {"internal"}

\* write_sc
WriteSc(bits) ==
  /\ IF bits = {"start", "internal"} THEN Transfer
     ELSE sc' = bits /\ UNCHANGED <<sb, log, queue, sent, received>>
  /\ UNCHANGED <<peer, taken, offered, offers>>

\* Mutant of SetMode: bytes of the peer before wait for the next one.
SetModeKeeping(mode) ==
  /\ peer' = mode
  /\ offered' = IF mode # peer THEN <<>> ELSE offered
  /\ received' = IF mode # peer THEN <<>> ELSE received
  /\ UNCHANGED <<sb, sc, log, queue, sent, taken, offers>>

\* set_connection_mode
SetMode(mode) ==
  /\ peer' = mode
  /\ IF mode # peer THEN queue' = <<>> /\ offered' = <<>> /\ received' = <<>>
     ELSE UNCHANGED <<queue, offered, received>>
  /\ UNCHANGED <<sb, sc, log, sent, taken, offers>>

\* take_transfer_log
TakeLog ==
  /\ taken' = taken \o log /\ log' = <<>>
  /\ UNCHANGED <<sb, sc, peer, queue, sent, offered, received, offers>>

\* enqueue_peer_received_bytes, in any mode
Enqueue(bytes) ==
  /\ offers + Len(bytes) <= MaxBytes
  /\ queue' = queue \o bytes /\ offered' = offered \o bytes /\ offers' = offers + Len(bytes)
  /\ UNCHANGED <<sb, sc, peer, log, sent, taken, received>>

\* Bus::reset: a new port with the same peer; what was not taken is lost.
SerialReset ==
  /\ sb' = 0 /\ sc' = {} /\ log' = <<>> /\ queue' = <<>>
  /\ sent' = taken /\ offered' = <<>> /\ received' = <<>>
  /\ UNCHANGED <<peer, taken, offers>>

SerialNext ==
  \/ \E byte \in Bytes : WriteSb(byte)
  \/ \E bits \in SUBSET {"start", "internal"} : WriteSc(bits)
  \/ \E mode \in Modes : SetMode(mode)
  \/ \E bytes \in SeqOf(Bytes, 2) : Enqueue(bytes)
  \/ TakeLog \/ SerialReset

SerialSpec == SerialInit /\ [][SerialNext]_serialVars

-----------------------------------------------------------------------------

SerialTypeOK ==
  /\ sb \in Bytes \union {0} /\ peer \in Modes /\ sc \subseteq {"start", "internal"}
  /\ {log, queue, sent, taken, offered, received} \subseteq Seq(Bytes \union {0})

(***************************************************************************)
(* The program gets the bytes of the remote peer in order, each once, and  *)
(* none of a peer that was there before: what it got and what waits is     *)
(* what this peer offered.  The comment on enqueue_peer_received_byte      *)
(* promises it.                                                            *)
(***************************************************************************)
PeerInOrder == received \o queue = offered

(***************************************************************************)
(* The host sees every byte the program sent, in order and once, however   *)
(* often it looks; a reset loses only what it had not taken.               *)
(***************************************************************************)
LogIsExact == taken \o log = sent
=============================================================================
