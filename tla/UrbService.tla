----------------------------- MODULE UrbService -----------------------------
(***************************************************************************)
(* What the virtual bus promises a function driver that sends it URBs:     *)
(* each URB ends at most once and for a reason.  It is answered only       *)
(* when the remote device has answered this URB's packet, cancelled only   *)
(* when its sender asked for it, gone only when the device is unplugged,   *)
(* rejected only when its packet was never handed out.  An URB that was    *)
(* not sent may be hit by a reply to another packet; it then ends as       *)
(* "unsent".                                                               *)
(***************************************************************************)
CONSTANT Urbs

VARIABLES
  plugged,    (* is the device plugged in?                                  *)
  state,      (* new, open, or the way the URB has ended                    *)
  packet,     (* its packet: none, out to the device, answered              *)
  withdrawn   (* the URBs whose senders have cancelled them                 *)

vars == <<plugged, state, packet, withdrawn>>

Init ==
  /\ plugged = TRUE
  /\ state = [u \in Urbs |-> "new"]
  /\ packet = [u \in Urbs |-> "none"]
  /\ withdrawn = {}

Open(u) ==
  /\ state[u] = "new" /\ plugged
  /\ state' = [state EXCEPT ![u] = "open"]
  /\ UNCHANGED <<plugged, packet, withdrawn>>

(* The packet goes out; the URB may have been cancelled meanwhile. *)
HandOut(u) ==
  /\ state[u] # "new" /\ packet[u] = "none"
  /\ packet' = [packet EXCEPT ![u] = "out"]
  /\ UNCHANGED <<plugged, state, withdrawn>>

Answer(u) ==
  /\ packet[u] = "out"
  /\ packet' = [packet EXCEPT ![u] = "answered"]
  /\ UNCHANGED <<plugged, state, withdrawn>>

Withdraw(u) ==
  /\ state[u] = "open"
  /\ withdrawn' = withdrawn \cup {u}
  /\ UNCHANGED <<plugged, state, packet>>

Unplug ==
  /\ plugged' = FALSE
  /\ UNCHANGED <<state, packet, withdrawn>>

(* Why an URB may end the way it does. *)
Reason(u, how) ==
  \/ how = "answered" /\ state[u] = "open" /\ packet[u] = "answered"
  \/ how = "cancelled" /\ state[u] = "open" /\ u \in withdrawn
  \/ how = "gone" /\ state[u] = "open" /\ ~plugged
  \/ how = "rejected" /\ state[u] = "open" /\ packet[u] = "none"
  \/ how = "unsent" /\ state[u] = "open" /\ packet[u] = "none"
                    /\ \E v \in Urbs \ {u} : packet[v] = "answered"
  \/ how = "immediate" /\ (state[u] = "new" \/ packet[u] = "none"
                                            \/ u \in withdrawn)

End(u, how) ==
  /\ state[u] \in {"new", "open"}
  /\ Reason(u, how)
  /\ state' = [state EXCEPT ![u] = how]
  /\ UNCHANGED <<plugged, packet, withdrawn>>

Next ==
  \/ \E u \in Urbs : Open(u) \/ HandOut(u) \/ Answer(u) \/ Withdraw(u)
  \/ \E u \in Urbs, how \in {"immediate", "rejected", "answered", "unsent",
                             "cancelled", "gone"} : End(u, how)
  \/ Unplug

Spec == Init /\ [][Next]_vars
=============================================================================
