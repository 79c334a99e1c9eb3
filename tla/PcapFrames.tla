------------------------------ MODULE PcapFrames ------------------------------
(***************************************************************************)
(* The capture file of a scenario (scenarios/pcap.py): two frames per        *)
(* transaction, packed into fields of fixed width.  struct.pack raises when  *)
(* a number does not fit its field; addresses, checksums and bytes are left  *)
(* out.                                                                      *)
(***************************************************************************)
EXTENDS Integers, Sequences

CONSTANTS
  Byte, Word,      \* 255 and 65535
  ClientPort       \* 40000

ASSUME PcapAssumption ==
  Byte \in Nat /\ Word \in Nat /\ ClientPort \in 0 .. Word

(* A captured transaction: [ordinal, fc, address, quantity, wire, refused], where  *)
(* refused says that its recorded response is an exception.                    *)
RequestFits(t) ==
  /\ t.address \in 0 .. Word
  /\ t.fc \in {3, 4, 16} => t.quantity \in 0 .. Word
  /\ t.fc \in {5, 6} => t.wire # <<>>
  /\ t.fc = 16 => 2 * Len(t.wire) <= Byte
  /\ \A i \in 1 .. Len(t.wire) : t.fc # 5 => t.wire[i] \in 0 .. Word

ResponseFits(t) == t.fc \in {3, 4} /\ ~t.refused => 2 * t.quantity <= Byte

(* The client's port, the packet identifier (masked) and the sequence numbers    *)
(* are all computed from the ordinal; the port overflows first.                *)
HeaderFits(t) == t.ordinal <= Word /\ ClientPort + t.ordinal <= Word

Renders(t) == RequestFits(t) /\ ResponseFits(t) /\ HeaderFits(t)
=============================================================================
