------------------------------- MODULE Packets -------------------------------
(***************************************************************************)
(* What a packet is made of: the packet the virtual bus driver makes from  *)
(* an URB (set_read_irp_data and the prepare_* functions), the reply of    *)
(* the remote device as it travels, and the result the driver makes of it  *)
(* (process_write_irp).  Operators only.                                   *)
(*                                                                         *)
(* Lengths are counted in units: a header is Header of them, a descriptor  *)
(* of an isochronous packet is IsoDesc.  An URB is the record of what the  *)
(* lengths depend on:                                                      *)
(*   fn       its function, in Functions                                   *)
(*   in       its direction, from the pipe's handle or TransferFlags       *)
(*   len      TransferBufferLength                                         *)
(*   offsets  IsoPacket[i].Offset, for an isochronous transfer             *)
(*   mapped   can the driver get at its transfer buffer?                   *)
(*   sel      for SELECT_INTERFACE, the interface num, its setting alt and *)
(*            the number of pipes there is room for                        *)
(* The contents of the setup packet, the flags and the endpoint are left   *)
(* out, and so are the tests that a pipe is of the kind its URB needs      *)
(* (busenum.c:880, 960): u.in stands for TransferFlags and for the         *)
(* direction of the pipe, which a function driver has agree.               *)
(***************************************************************************)
EXTENDS Integers, Sequences, FiniteSets

CONSTANTS
  Header,   (* sizeof(struct usbip_header)                                  *)
  IsoDesc   (* sizeof(struct usbip_iso_packet_descriptor)                   *)

ASSUME SizesAssumption == Header \in Nat \ {0} /\ IsoDesc \in Nat \ {0}

(* "reset port" is an IOCTL of its own, the others are URBs. *)
Local == {"reset pipe", "get frame"}
Control == {"device descriptor", "config descriptor", "other descriptor",
            "interface descriptor", "class", "vendor", "vendor other",
            "select interface", "reset port"}
Functions == Local \cup Control \cup {"bulk", "iso", "unknown"}

IsUrb(u) ==
  /\ u.fn \in Functions /\ u.in \in BOOLEAN /\ u.mapped \in BOOLEAN
  /\ u.len \in Nat /\ u.offsets \in Seq(Nat)
  /\ u.fn = "iso" => u.offsets # <<>>
  /\ u.sel \in [num : Nat, alt : Nat, room : Nat]

-----------------------------------------------------------------------------
(* proc_urb: what is done with an URB before it may be queued. *)
ProcUrb(u) ==
  CASE u.fn \in Local -> "success"
    [] u.fn = "unknown" -> "invalid"
    [] OTHER -> "pending"

-----------------------------------------------------------------------------
(* A packet: its direction, transfer_buffer_length, number_of_packets, the *)
(* lengths of the isochronous packets, and the bytes it takes in all.  The *)
(* empty set is what a failed prepare_* returns.                           *)
Packet(in, len, lengths, size) ==
  {[in |-> in, len |-> len, lengths |-> lengths, size |-> size]}
NoPacket == {}

(* CHECK_SIZE_READ and the requests that carry no data. *)
PrepareShort(u, room) ==
  IF room < Header THEN NoPacket ELSE Packet(FALSE, 0, <<>>, Header)

(* A descriptor is read: the packet is a header, the data come back. *)
PrepareDescriptor(u, room) ==
  IF room < Header THEN NoPacket ELSE Packet(TRUE, u.len, <<>>, Header)

(* CHECK_SIZE_RW: the data go out behind the header. *)
OutBytes(u) == IF u.in THEN 0 ELSE u.len
PrepareClassVendor(u, room) ==
  IF room < Header + OutBytes(u) THEN NoPacket
  ELSE Packet(u.in, u.len, <<>>, Header + OutBytes(u))

PrepareBulk(u, room) ==
  IF room < Header + OutBytes(u) \/ (~u.in /\ ~u.mapped) THEN NoPacket
  ELSE Packet(u.in, u.len, <<>>, Header + OutBytes(u))

(* The length of an isochronous packet reaches to the next one's offset. *)
IsoLength(u, i) ==
  (IF i = Len(u.offsets) THEN u.len ELSE u.offsets[i + 1]) - u.offsets[i]

PrepareIso(u, room) ==
  LET n == Len(u.offsets)
      size == Header + OutBytes(u) + n * IsoDesc
  IN IF \/ room < size
        \/ ~u.in /\ ~u.mapped
        \/ \E i \in 1 .. n - 1 : u.offsets[i + 1] < u.offsets[i]
     THEN NoPacket
     ELSE Packet(u.in, u.len, [i \in 1 .. n |-> IsoLength(u, i)], size)

(* set_read_irp_data.  proc_urb queues URB_FUNCTION_VENDOR_OTHER and its     *)
(* reply would be taken, but no packet is made for it; nor for a descriptor  *)
(* of another type than device, configuration, interface and string.         *)
SetReadIrpData(u, room) ==
  CASE u.fn = "bulk" -> PrepareBulk(u, room)
    [] u.fn = "iso" -> PrepareIso(u, room)
    [] u.fn \in {"class", "vendor"} -> PrepareClassVendor(u, room)
    [] u.fn \in {"device descriptor", "config descriptor",
                 "interface descriptor"} -> PrepareDescriptor(u, room)
    [] u.fn \in {"select interface", "reset port"} -> PrepareShort(u, room)
    [] OTHER -> NoPacket

-----------------------------------------------------------------------------
(* A reply is a record of its status, actual_length, number_of_packets      *)
(* (npackets), and each isochronous packet's offset and actual_length.  On  *)
(* the way it is Header units, then the data if the request was an IN, then *)
(* the descriptors.                                                         *)
TranUsbStatus(status) ==
  CASE status = "0" -> "success"
    [] status = "EPIPE" -> "halted"
    [] status = "EREMOTEIO" -> "short"
    [] status = "EOVERFLOW" -> "overrun"
    [] OTHER -> "error"

(* process_write_irp's direction: for a request without data, OUT. *)
IsIn(u) ==
  \/ u.fn \in {"device descriptor", "config descriptor",
               "interface descriptor"}
  \/ u.fn \in {"class", "vendor", "vendor other", "bulk", "iso"} /\ u.in

(* How many units of data come before packet i of an isochronous reply. *)
Before(actuals, i) ==
  LET f[j \in 0 .. i - 1] == IF j = 0 THEN 0 ELSE f[j - 1] + actuals[j]
  IN f[i - 1]

(* A buffer is a function from the places that have been written. *)
CopyPlain(data) == [x \in 0 .. Len(data) - 1 |-> data[x + 1]]

(* As it would be if the packets' offsets were ignored. *)
CopyIsoInRow(u, actuals, data) == CopyPlain(data)

(* copy_iso_data: the data of the packets follow each other in the reply,  *)
(* and go to the packets' offsets in the buffer; it stops at the first     *)
(* packet that does not fit.                                               *)
Fits(u, actuals, data, i) ==
  \/ actuals[i] = 0
  \/ /\ u.offsets[i] + actuals[i] <= u.len
     /\ Before(actuals, i) + actuals[i] <= Len(data)
CopyIsoData(u, actuals, data) ==
  LET copied == {i \in 1 .. Len(actuals) :
                   \A j \in 1 .. i : Fits(u, actuals, data, j)}
      Places(i) == u.offsets[i] .. u.offsets[i] + actuals[i] - 1
      Source(x) == CHOOSE i \in copied : x \in Places(i)
  IN [x \in UNION {Places(i) : i \in copied} |->
        data[Before(actuals, Source(x)) + x - u.offsets[Source(x)] + 1]]

(* The result of an URB: the status of its IRP, that of the URB, the data. *)
Refused(status) == [irp |-> status, usbd |-> "stale", data |-> <<>>]

(* What process_write_irp makes of reply r to URB u.  written is the number *)
(* of units that were written to the driver, data the units behind the      *)
(* header that it takes for the data; selectable says whether               *)
(* post_select_interface succeeds.                                          *)
ProcessWrite(u, r, written, data, selectable) ==
  LET inLen == IF IsIn(u) THEN r.actual ELSE 0
      isoLen == IF u.fn = "iso" THEN Len(u.offsets) * IsoDesc ELSE 0
  IN CASE u.fn = "reset port" -> [Refused("success") EXCEPT !.usbd = "none"]
       [] u.fn # "reset port"
          /\ \/ u.fn = "select interface" /\ ~selectable
             \/ r.actual > u.len
             \/ u.fn = "iso" /\ r.npackets # Len(u.offsets)
             \/ written # Header + inLen + isoLen
             \/ u.fn = "iso" /\ \E i \in 1 .. r.npackets :
                                   r.offsets[i] > u.offsets[i]
          -> Refused("invalid parameter")
       [] OTHER ->
            IF inLen > 0 /\ ~u.mapped THEN Refused("insufficient resources")
            ELSE [irp |-> "success",
                  usbd |-> TranUsbStatus(r.status),
                  data |-> IF inLen = 0 THEN <<>>
                           ELSE IF isoLen > 0 /\ inLen # u.len
                           THEN CopyIsoData(u, r.actuals, data)
                           ELSE CopyPlain(data)]

(* try_save_config: is this the whole configuration descriptor?  total is  *)
(* the device's wTotalLength.                                              *)
TrySaveConfig(u, r, total) ==
  u.fn = "config descriptor" /\ r.actual = total
=============================================================================
