----------------------------- MODULE RedirHost ------------------------------
(* The Windows server on which the redirection service (usbDevRedir) runs:    *)
(* the sessions of its users, the children usbip.exe that the service starts  *)
(* in them, the devices these attach, with their volumes and printers, and    *)
(* who can reach them.  Windows is not in the repository: it is modelled from *)
(* what the service asks of it.                                               *)
EXTENDS Integers, FiniteSets, FiniteSetsExt

CONSTANTS Threads,     \* the connections, each with its thread of the service
          Hosts,       \* client machines, each with at most one session
          Devs,        \* devices, named host&busid
          Owner,       \* the host of a device
          Kind,        \* what FindDeviceType finds: storage, printer or other
          Alike,       \* devices whose compatible id contains a device's name
          Vols,        \* the volumes, numbers in the order of enumeration
          DevOf,       \* the device a volume is on
          LastLetter,  \* drive letters are 1 .. LastLetter, "C:" to "Z:"
          Cells,       \* addresses of the heap
          Public, Everyone, Admins,
          Settings     \* requests, sessions, disks of the server itself,
                       \* volumes and faults of a behaviour, and a bound: how
                       \* often one thread may find volumes (rounds)

ASSUME RedirAssumption ==
    /\ Vols \subseteq Nat \ {0} /\ Cells \subseteq Nat \ {0}
    /\ IsFiniteSet(Vols) /\ IsFiniteSet(Cells) /\ IsFiniteSet(Devs)
    /\ Owner \in [Devs -> Hosts] /\ DevOf \in [Vols -> Devs]
    /\ Kind \in [Devs -> {"storage", "printer", "other"}]
    /\ Alike \in [Devs -> SUBSET Devs] /\ \A d \in Devs : d \in Alike[d]
    /\ LastLetter \in Nat \ {0} /\ Threads # {}
    /\ Public \notin Hosts /\ Everyone \notin Hosts /\ Admins \notin Hosts

ASSUME SettingsAssumption ==
    \A s \in Settings :
        /\ s.req \in [Threads -> [do : {"redirect", "query", "none"}, dev : Devs]]
        /\ s.session \in [Hosts -> {"none", "active"}]
        /\ s.local \subseteq Devs /\ s.vols \subseteq Vols /\ s.rounds \in Nat

VARIABLES
    set,       \* the setting: requests, sessions, calls that fail, log off, stop
    session,   \* of each host: "none", "active" or "ended"
    child,     \* usbip.exe of each thread: "none", "running" or "ended"
    dev,       \* of each device: "absent", "usb" or "ready"
    holder,    \* the thread whose child attached the device
    disk,      \* the number Windows gave to a disk, or NoDisk
    vols,      \* the volumes that are there
    vletter,   \* the letter under which everybody sees a volume, or 0
    defs,      \* <<where, letter, volume>>: made with DefineDosDevice
    acl,       \* who may use the printer of a device
    sddl,      \* the security descriptor of a device
    alive,     \* the process of the service: "running", "stopped", or ended
               \* by a fault: "faulted", or "logfault"
    sock,      \* the service's end of a connection: "none", "open", "closed"
    th,        \* the threads
    head, cell,\* StorIsolation.c: the global list, and the heap
    crowd,     \* history: pairs of threads that used the list at once
    lost       \* history: threads that ended with the process

userVars   == <<session, child>>
deviceVars == <<dev, holder, disk, vols, vletter, acl, sddl>>
listVars   == <<head, cell, crowd>>
vars == <<set, userVars, deviceVars, defs, alive, sock, th, listVars, lost>>

Host(t) == Owner[set.req[t].dev]
Running(t) == child[t] = "running"
NsOf(h) == IF session[h] = "active" THEN h ELSE Public

NoDisk == -1
DiskNumbers == 0 .. Cardinality(Devs) - 1

Letters == 1 .. LastLetter
Defined(where) == {def \in defs : def[1] = where}
Used(where) == {vletter[v] : v \in vols}
               \cup {def[2] : def \in Defined(where) \cup Defined(Public)}

-----------------------------------------------------------------------------
\* A child attaches its device; Windows then finds a disk, a printer, volumes.
Attach(t) ==
    LET d == set.req[t].dev IN
    /\ Running(t) /\ dev[d] = "absent"
    /\ dev' = [dev EXCEPT ![d] = "usb"]
    /\ holder' = [holder EXCEPT ![d] = t]
    /\ UNCHANGED <<set, userVars, disk, vols, vletter, acl, sddl, defs, alive, sock,
                   th, listVars, lost>>

\* A disk gets the first number that no other disk has.
FreeNumber == Min(DiskNumbers \ {disk[e] : e \in Devs})
Install(d) ==
    /\ dev[d] = "usb" /\ dev' = [dev EXCEPT ![d] = "ready"]
    /\ disk' = [disk EXCEPT ![d] = IF Kind[d] = "storage" THEN FreeNumber ELSE NoDisk]
    /\ UNCHANGED <<set, userVars, holder, vols, vletter, acl, sddl, defs, alive, sock,
                   th, listVars, lost>>

\* A volume gets the first letter nobody uses, if there is one.
Arrive(v) ==
    LET free == Letters \ Used(Public) IN
    /\ dev[DevOf[v]] = "ready" /\ v \in set.vols \ vols
    /\ set.fails \/ \A w \in set.vols : w < v /\ DevOf[w] = DevOf[v] => w \in vols
    /\ vols' = vols \cup {v}
    /\ vletter' = [vletter EXCEPT ![v] = IF free = {} THEN 0 ELSE Min(free)]
    /\ UNCHANGED <<set, userVars, dev, holder, disk, acl, sddl, defs, alive, sock, th,
                   listVars, lost>>

\* The devices of the children of T go with them, their volumes too, and the
\* letters Windows gave; what DefineDosDevice made stays.
Gone(T) ==
    LET D == {d \in Devs \ set.local : dev[d] # "absent" /\ holder[d] \in T} IN
    /\ child' = [t \in Threads |-> IF t \in T THEN "ended" ELSE child[t]]
    /\ dev' = [d \in Devs |-> IF d \in D THEN "absent" ELSE dev[d]]
    /\ disk' = [d \in Devs |-> IF d \in D THEN NoDisk ELSE disk[d]]
    /\ vols' = {v \in vols : DevOf[v] \notin D}
    /\ vletter' = [v \in Vols |-> IF DevOf[v] \in D THEN 0 ELSE vletter[v]]
    /\ sddl' = [d \in Devs |-> IF d \in D THEN "default" ELSE sddl[d]]

\* usbip.exe ends: the device is unplugged, the attach refused, the link lost.
ChildEnds(t) ==
    /\ Running(t) /\ Gone({t})
    /\ UNCHANGED <<set, session, holder, acl, defs, alive, sock, th, listVars, lost>>

Served(h) == set.logs /\ \E t \in Threads : set.req[t].do = "redirect" /\ Host(t) = h

LogOn(h) ==
    /\ session[h] = "none" /\ Served(h)
    /\ session' = [session EXCEPT ![h] = "active"]
    /\ UNCHANGED <<set, child, deviceVars, defs, alive, sock, th, listVars, lost>>

\* A session takes its processes and its letters with it.
LogOff(h) ==
    /\ session[h] = "active" /\ Served(h)
    /\ session' = [session EXCEPT ![h] = "ended"]
    /\ Gone({t \in Threads : Running(t) /\ Host(t) = h})
    /\ defs' = defs \ Defined(h)
    /\ UNCHANGED <<set, holder, acl, alive, sock, th, listVars, lost>>
=============================================================================
