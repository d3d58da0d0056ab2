----------------------------- MODULE MCForwarder -----------------------------
(* The values of the constants of Forwarder. *)
EXTENDS Forwarder

CONSTANTS u1, u2

Ask(fn, in, len) ==
  [fn |-> fn, in |-> in, len |-> len, offsets |-> <<>>, mapped |-> TRUE,
   sel |-> [num |-> 0, alt |-> 0, room |-> 0]]

(* One interface with two settings; the second has two endpoints. *)
MCDeviceConfig ==
  <<[type |-> "interface", num |-> 0, alt |-> 0, eps |-> 1],
    [type |-> "endpoint", addr |-> 129, kind |-> 3, interval |-> 8, size |-> 8],
    [type |-> "interface", num |-> 0, alt |-> 1, eps |-> 2],
    [type |-> "endpoint", addr |-> 3, kind |-> 2, interval |-> 0, size |-> 64],
    [type |-> "endpoint", addr |-> 130, kind |-> 1, interval |-> 1, size |-> 4092]>>
MCSelections == {<<[num |-> 0, alt |-> 0, room |-> 1]>>,
                 <<[num |-> 0, alt |-> 1, room |-> 2]>>}

Iso == [Ask("iso", TRUE, 4) EXCEPT !.offsets = <<0, 2>>]
Select == [Ask("select interface", FALSE, 0) EXCEPT
             !.sel = [num |-> 0, alt |-> 1, room |-> 2]]

(* The packets' numbers are 1 and 2 in the first case, 2 and 0 in the       *)
(* others.                                                                  *)
MCSettings ==
  {[first |-> 0,
    kinds |-> (u1 :> {Ask("bulk", FALSE, 1), Iso})
              @@ (u2 :> {Ask("bulk", TRUE, 1), Ask("bulk", FALSE, 1)})],
   [first |-> 1,
    kinds |-> (u1 :> {Ask("bulk", FALSE, 1)})
              @@ (u2 :> {Ask("bulk", TRUE, 1), Ask("vendor other", FALSE, 0)})],
   [first |-> 1,
    kinds |-> (u1 :> {Ask("get frame", FALSE, 0),
                      Ask("config descriptor", TRUE, 5)})
              @@ (u2 :> {Select})]}
=============================================================================
