----------------------------- MODULE MCSharing -----------------------------
EXTENDS Sharing

CONSTANTS p1, p2, p3, b1, b2

MCNumIfs == <<2, 1>>

Do(do, arg) == [do |-> do, arg |-> arg]
Bind(do, dev) == [do |-> do, dev |-> dev]
NoBind == b1 :> Bind("none", 1) @@ b2 :> Bind("none", 1)
Run(a, b, c) == p1 :> a @@ p2 :> b @@ p3 :> c

\* Two runs of bind-driver on one device, where the stub driver is "usbip".
BindSettings ==
    {[stub |-> "usbip", os |-> "linux", body |-> TRUE, driver |-> "local",
      pull |-> TRUE, kills |-> FALSE, stops |-> FALSE, ports |-> {0, 1},
      cmd |-> Run(Do("none", 0), Do("none", 0), Do("list", 0)),
      bind |-> b1 :> Bind("usbip", 1) @@ b2 :> Bind(do, 1)] : do \in {"usbip", "other"}}

\* Clients of usbipd, where the stub driver is "usbip-host".
Share(os, body, kills, stops, ports, cmd, bind_) ==
    [stub |-> "usbip-host", os |-> os, body |-> body, driver |-> "stub",
     pull |-> FALSE, kills |-> kills, stops |-> stops,
     ports |-> ports, cmd |-> cmd, bind |-> bind_]

ShareSettings ==
    { Share("linux", FALSE, TRUE, FALSE, {0, 1},
            Run(Do("attach", 1), Do("attach", 2), Do("detach", 0)), NoBind),
      Share("linux", FALSE, FALSE, TRUE, {0},
            Run(Do("attachall", 0), Do("attach", 1), Do("none", 0)), NoBind),
      Share("linux", TRUE, TRUE, FALSE, {0, 1},
            Run(Do("attach", 1), Do("list", 0), Do("none", 0)), NoBind),
      Share("windows", FALSE, TRUE, FALSE, {0, 1},
            Run(Do("attach", 1), Do("attach", 1), Do("detach", 0)), NoBind),
      Share("windows", TRUE, TRUE, FALSE, {0, 1},
            Run(Do("attach", 1), Do("attach", 2), Do("none", 0)), NoBind),
      Share("linux", FALSE, FALSE, FALSE, {0, 1},
            Run(Do("attach", 1), Do("list", 0), Do("none", 0)),
            b1 :> Bind("usbip", 1) @@ b2 :> Bind("usbip", 2)) }

MCSettings == BindSettings \cup ShareSettings
=============================================================================
