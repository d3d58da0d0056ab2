---------------------------- MODULE MCIsolation -----------------------------
(* The values of the constants of RedirService. *)
EXTENDS RedirService, TLC

CONSTANTS t1, t2, h1, h2, d1, d2, pr, cam, sys

Ask(do, d) == [do |-> do, dev |-> d]
Case(a, b, local, vs, fails, logs, stops) ==
    [req |-> t1 :> a @@ t2 :> b, local |-> local, vols |-> vs,
     fails |-> fails, logs |-> logs, stops |-> stops,
     rounds |-> IF fails THEN 2 ELSE 1,
     session |-> h1 :> (IF logs THEN "none" ELSE "active") @@ h2 :> "active"]

MCOwner == d1 :> h1 @@ d2 :> h2 @@ pr :> h1 @@ cam :> h1 @@ sys :> h2
MCKind == d1 :> "storage" @@ d2 :> "storage" @@ pr :> "printer" @@ cam :> "other"
          @@ sys :> "storage"
MCAlike == [d \in Devs |-> CASE d = pr -> {pr, cam} [] d = d1 -> {d1, d2}
                            [] OTHER -> {d}]
MCDevOf == <<d1, d1, d2, sys>>

MCSettings ==
    { Case(Ask("redirect", d1), Ask("redirect", d2), {}, {1, 3}, FALSE, FALSE, FALSE),
      Case(Ask("redirect", d1), Ask("none", d2), {sys}, {1, 4}, TRUE, FALSE, FALSE),
      Case(Ask("redirect", d1), Ask("none", d2), {}, {1, 2}, FALSE, TRUE, FALSE),
      Case(Ask("redirect", d1), Ask("query", d2), {sys}, {1, 2, 4}, FALSE, FALSE, TRUE),
      Case(Ask("redirect", pr), Ask("redirect", cam), {}, {}, TRUE, TRUE, TRUE) }
=============================================================================
