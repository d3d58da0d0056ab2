----------------------------- MODULE SharedHost -----------------------------
(* The state that usbipd, bind-driver and the usbip client share: the        *)
(* bindings of the USB interfaces under /sys on the machine that exports, its *)
(* TCP connections, and the ports of the machine that imports.  The kernels   *)
(* of the two machines are not in the repository: they are modelled from what *)
(* the programs write to sysfs and expect of it, and from what TCP gives.     *)
(*                                                                            *)
(* A connection is <<p, d>>: process p opened it to import device d, or to    *)
(* read the list of devices when d is 0.  NoConn is no connection.            *)
EXTENDS Integers, Sequences, FiniteSets, SequencesExt, FiniteSetsExt

CONSTANTS Devs,       \* the busids of the exporting machine, positive numbers
          NumIfs,     \* number of interfaces of a device
          Hubs,       \* the devices whose bDeviceClass is 9
          Procs,      \* runs of the program usbip
          Binders,    \* runs of the program usbip_bind_driver
          Ports,      \* the ports of the importing machine
          SockBuf,    \* devices and headers a connection holds unread
          Settings    \* the machines and the commands of a behaviour

ASSUME SharedAssumption ==
    /\ Devs \subseteq Nat \ {0} /\ IsFiniteSet(Devs)
    /\ NumIfs \in [Devs -> Nat \ {0}] /\ Hubs \subseteq Devs
    /\ Ports \subseteq Nat /\ IsFiniteSet(Ports)
    /\ SockBuf \in Nat \ {0}

\* The driver that the interfaces have at first, and the commands of
\* usbip_bind_driver, each for a busid.
ASSUME BindAssumption ==
    \A s \in Settings :
       /\ s.driver \in {"none", "local", "stub"}
       /\ \A b \in Binders : /\ s.bind[b].dev \in Devs
                             /\ s.bind[b].do \in {"none", "usbip", "other"}

\* The commands of usbip, each with a busid or a port, and the ports of the
\* client's system.
ASSUME CommandAssumption ==
    \A s \in Settings :
       /\ s.ports \subseteq Ports
       /\ \A p \in Procs :
             /\ s.cmd[p].do \in {"none", "list", "attach", "attachall", "detach"}
             /\ s.cmd[p].do = "attach" => s.cmd[p].arg \in Devs
             /\ s.cmd[p].do = "detach" => s.cmd[p].arg \in Ports

VARIABLES
    set,        \* the setting: driver name, client's system, list body, commands
    plugged,    \* devices that are plugged in
    driver,     \* driver of each interface: "none", "local" or "stub"
    matched,    \* match_busid of the stub driver
    exported,   \* the connection the stub driver serves a device on
    cl, sv,     \* who holds the client's and the server's end of a connection
    toS, toC,   \* what is on its way in a connection
    backlog,    \* connections that wait for usbipd's accept
    port,       \* the connection a port of the importing machine is attached to
    record,     \* the files VHCI_STATE_PATH/port<n>
    bind,       \* the runs of usbip_bind_driver
    daemon,     \* usbipd
    proc,       \* the runs of usbip
    granted,    \* history: connections the stub driver has accepted
    stale,      \* history: ports whose record was overtaken or never written
    disturbed   \* history: runs of bind-driver whose device another one changed

stubVars  == <<plugged, driver, matched>>
netVars   == <<cl, sv, toS, toC, backlog>>
portVars  == <<port, record, stale>>
vars == <<set, stubVars, exported, netVars, portVars, bind, daemon, proc,
          granted, disturbed>>

NoConn == <<>>
Conns == Procs \X ({0} \cup Devs)
Interfaces(d) == 0 .. NumIfs[d] - 1

-----------------------------------------------------------------------------
(* The exporting machine's kernel.  Interface 0 carries the stub driver's     *)
(* attributes: unbinding it ends the export.                                  *)
Bound(d) == {i \in Interfaces(d) : driver[d][i] = "stub"}
Available(d) == 0 \in Bound(d) /\ exported[d] = NoConn

EndExport(d) ==
    /\ exported' = [exported EXCEPT ![d] = NoConn]
    /\ sv' = [c \in Conns |-> IF c = exported[d] THEN sv[c] \ {"kernel"} ELSE sv[c]]

SetDriver(d, i, name) ==
    /\ driver' = [driver EXCEPT ![d][i] = name]
    /\ IF i = 0 THEN EndExport(d) ELSE UNCHANGED <<exported, sv>>

\* The runs of bind-driver under way on d, those in S apart, are disturbed.
Disturb(d, S) ==
    disturbed' = disturbed \cup
       {b \in Binders \ S : set.bind[b].dev = d /\ bind[b].pc \notin {"start", "ended"}}

\* A local driver takes an interface that has none.
Probe ==
    \E d \in plugged : \E i \in Interfaces(d) :
       /\ driver[d][i] = "none"
       /\ driver' = [driver EXCEPT ![d][i] = "local"]
       /\ Disturb(d, {})
       /\ UNCHANGED <<set, plugged, matched, exported, netVars, portVars, bind,
                      daemon, proc, granted>>

Pull ==
    \E d \in plugged :
       /\ set.pull
       /\ plugged' = plugged \ {d}
       /\ driver' = [driver EXCEPT ![d] = [i \in Interfaces(d) |-> "none"]]
       /\ EndExport(d)
       /\ Disturb(d, {})
       /\ UNCHANGED <<set, matched, cl, toS, toC, backlog, portVars, bind, daemon, proc,
                      granted>>

\* The peer has closed: the stub driver makes the device available again.
Release(d) ==
    /\ exported[d] # NoConn /\ cl[exported[d]] = {}
    /\ EndExport(d)
    /\ UNCHANGED <<set, stubVars, cl, toS, toC, backlog, portVars, bind, daemon, proc,
                   granted, disturbed>>

-----------------------------------------------------------------------------
(* Connections.                                                               *)
\* Mutant: usbip_xmit takes only a negative result for an error.
RecvLoops(c) == FALSE
\* recv returns 0 when all is read and the peer has closed: usbip_xmit fails.
DaemonRecvFails(c) == toS[c] = <<>> /\ cl[c] = {}
ClientRecvFails(c) == toC[c] = <<>> /\ sv[c] = {}

\* The importing machine's kernel drops a port whose connection is lost.
Lost(i) ==
    /\ set.os = "linux"
    /\ port[i] # NoConn /\ sv[port[i]] = {}
    /\ port' = [port EXCEPT ![i] = NoConn]
    /\ cl' = [cl EXCEPT ![port[i]] = @ \ {"kernel"}]
    /\ UNCHANGED <<set, stubVars, exported, sv, toS, toC, backlog, record, stale, bind,
                   daemon, proc, granted, disturbed>>
=============================================================================
