-------------------------------- MODULE Usb --------------------------------
(***************************************************************************)
(* USB: enumeration and hot plugging of devices and hubs (usb/usb.c), the  *)
(* interrupt pipes of the UHCI controller (usb/uhci.c), and who owns the   *)
(* console (usb/hid.c).                                                    *)
(*                                                                         *)
(* usb_tick() runs with interrupts off but takes hundreds of milliseconds: *)
(* devices come and go between any two ports it looks at.  `world` is what *)
(* is plugged in; an enumeration is one step that may fail before or after *)
(* the device took its address.  Hubs are one level deep.                  *)
(***************************************************************************)
EXTENDS Naturals, Sequences, FiniteSets, FiniteSetsExt

CONSTANTS NSlots,       \* USB_MAX_DEVICES
          NPorts,       \* hub_nports
          Probes,       \* HID_PROBE_TICKS
          Kinds,        \* what may be plugged in
          MaxPlugs,     \* devices plugged in or pulled out
          MaxFaults,    \* transfers that fail although the device is there
          Swaps         \* a port may be emptied and filled between two polls

VARIABLES world,    \* per port: the device and the address it answers at
          dev,      \* devices[]
          ignored,  \* root_ignored, and hub_ignored of every hub
          td,       \* td_bitmap: the descriptors in use
          bound,    \* kbd_dev and mouse_dev: a slot or None
          ps2,      \* ps2_enabled of keyboard.c and of mouse.c
          silent,   \* kbd_silent and mouse_silent
          at,       \* how far usb_tick() is
          left,     \* ports emptied since usb_tick() last looked at them (ghost)
          plugs, faults

vars == <<world, dev, ignored, td, bound, ps2, silent, at, left, plugs, faults>>

Slots == 0..(NSlots - 1)
TDs == 1..(NSlots + 1)
RootPorts == {1, 2}
Paths == {<<p>> : p \in RootPorts} \cup {<<p, q>> : p \in RootPorts, q \in 1..NPorts}

Root == 255             \* USB_ROOT_PARENT
None == NSlots          \* no slot: NULL
Idle == <<"idle">>
Free == [state |-> "free"]
Away == [kind |-> "none", addr |-> 0, on |-> FALSE]

\* "mute" is a keyboard whose pipe neither reports nor NAKs
Class(kind) == IF kind = "mute" THEN "kbd" ELSE kind
Hid == {"kbd", "mouse"}

Running(s) == dev[s].state = "running"
DeviceOn(parent, port) == {s \in Slots : Running(s) /\ dev[s].parent = parent /\ dev[s].port = port}

\* Who answers a transfer to the address of a slot; two at once collide
Answers(s) == {p \in Paths : world[p].on /\ world[p].addr = s + 1}

Init ==
  /\ world = [p \in Paths |-> Away] /\ dev = [s \in Slots |-> Free] /\ ignored = {} /\ td = {}
  /\ bound = [c \in Hid |-> None] /\ ps2 = [c \in Hid |-> TRUE] /\ silent = [c \in Hid |-> 0]
  /\ at = Idle /\ left = {} /\ plugs = 0 /\ faults = 0
-----------------------------------------------------------------------------
(* The cables.                                                             *)

Plug(p, kind) ==
  /\ plugs < MaxPlugs /\ plugs' = plugs + 1 /\ world[p] = Away
  /\ Swaps \/ p \notin left
  /\ Len(p) = 2 => kind # "hub" /\ world[<<p[1]>>].kind = "hub"
  /\ world' = [world EXCEPT ![p] = [Away EXCEPT !.kind = kind]]
  /\ UNCHANGED <<dev, ignored, td, bound, ps2, silent, at, left, faults>>

Below(p) == {q \in Paths : q = p \/ (Len(q) = 2 /\ p = <<q[1]>>)}

Pull(p) ==
  /\ plugs < MaxPlugs /\ plugs' = plugs + 1 /\ world[p] # Away
  /\ world' = [q \in Paths |-> IF q \in Below(p) THEN Away ELSE world[q]]
  /\ left' = left \cup Below(p)
  /\ UNCHANGED <<dev, ignored, td, bound, ps2, silent, at, faults>>
-----------------------------------------------------------------------------
(* unbind_device                                                           *)

\* Mutant: the devices behind a hub stay
OnlyItself(S) == S

\* Children first
WithChildren(S) == S \cup {c \in Slots : Running(c) /\ dev[c].parent \in S}

\* usb_hid_detach: the PS/2 counterpart gets the console back
Detach(S) == /\ bound' = [c \in Hid |-> IF bound[c] \in S THEN None ELSE bound[c]]
             /\ ps2' = [c \in Hid |-> ps2[c] \/ bound[c] \in S]

\* The devices D go; the ports in `forgotten` may be tried again
Unbind(D, forgotten) ==
  LET S == WithChildren(D)
  IN /\ td' = td \ {dev[s].td : s \in S}                      \* uhci_unqueue_interrupt
     /\ Detach(S)
     /\ dev' = [s \in Slots |-> IF s \in S THEN Free ELSE dev[s]]
     /\ ignored' = {i \in ignored : i[1] \notin S /\ i \notin forgotten}
-----------------------------------------------------------------------------
(* enumerate_port                                                          *)

FreeSlots == {s \in Slots : ~ Running(s)}
Slot == Min(FreeSlots)

\* The device is reset, and takes the address of the slot or fails before
Reset(p, a) == world' = [world EXCEPT ![p].on = TRUE, ![p].addr = a]

Fails(p, a) == Reset(p, a) /\ UNCHANGED <<dev, ignored, td, bound, ps2, silent>>

\* No boot keyboard or mouse, or a hub without a descriptor: not tried again
Ignored(parent, port, p) ==
  /\ Reset(p, Slot + 1) /\ ignored' = ignored \cup {<<parent, port>>}
  /\ UNCHANGED <<dev, td, bound, ps2, silent>>

Device(parent, port, kind) ==
  [state |-> "running", parent |-> parent, port |-> port, kind |-> kind, td |-> 0, st |-> "active",
   report |-> FALSE, dead |-> FALSE, moved |-> FALSE]

HubAttached(parent, port, p) ==
  /\ Reset(p, Slot + 1) /\ dev' = [dev EXCEPT ![Slot] = Device(parent, port, "hub")]
  /\ UNCHANGED <<ignored, td, bound, ps2, silent>>

\* usb_hid_attach and uhci_queue_interrupt: a second keyboard is run but not heard
HidAttached(parent, port, p) ==
  LET c == Class(world[p].kind)
      first == bound[c] = None
      t == Min(TDs \ td)
  IN /\ Reset(p, Slot + 1) /\ td' = td \cup {t}
     /\ dev' = [dev EXCEPT ![Slot] = [Device(parent, port, c) EXCEPT !.td = t, !.report = first]]
     /\ bound' = IF first THEN [bound EXCEPT ![c] = Slot] ELSE bound
     /\ ps2' = IF first THEN [ps2 EXCEPT ![c] = FALSE] ELSE ps2
     /\ silent' = IF first THEN [silent EXCEPT ![c] = 0] ELSE silent
     /\ UNCHANGED ignored

\* Another device that answers at address 0, or at the new one, spoils transfers
Collides(p) == \E q \in Paths \ {p} : world[q].on /\ world[q].addr \in {0, Slot + 1}
Fault(p) == \/ Collides(p) /\ UNCHANGED faults
            \/ faults < MaxFaults /\ faults' = faults + 1

Enumerate(parent, port, p) ==
  IF FreeSlots = {} THEN UNCHANGED <<world, dev, ignored, td, bound, ps2, silent, faults>>
  ELSE \/ Fault(p) /\ \E a \in {0, Slot + 1} : Fails(p, a)
       \/ world[p].kind = "hub" /\ Fault(p) /\ Ignored(parent, port, p)
       \/ world[p].kind = "hub" /\ UNCHANGED faults /\ HubAttached(parent, port, p)
       \/ world[p].kind = "other" /\ UNCHANGED faults /\ Ignored(parent, port, p)
       \/ Class(world[p].kind) \in Hid /\ UNCHANGED faults /\ HidAttached(parent, port, p)
-----------------------------------------------------------------------------
(* usb_tick: the ports of the root, those of the hubs, the dead pipes.     *)

HubSteps == {<<"hub", s, q>> : s \in Slots, q \in 1..NPorts}
Order(step) == IF step[1] = "hub" THEN 10 + step[2] * NPorts + step[3] ELSE step[2]
Pending(step) == {h \in HubSteps : Order(h) > Order(step) /\ Running(h[2])' /\ dev'[h[2]].kind = "hub"}
Advance(step) ==
  at' = IF step = <<"port", 1>> THEN <<"port", 2>>
        ELSE IF Pending(step) = {} THEN <<"dead">>
        ELSE CHOOSE h \in Pending(step) : \A o \in Pending(step) : Order(h) <= Order(o)

\* The port is empty
Gone(parent, port) == Unbind(DeviceOn(parent, port), {<<parent, port>>})

PollPort(parent, port, p) ==
  \/ /\ world[p].kind = "none" /\ Gone(parent, port) /\ left' = left \ Below(p)
     /\ UNCHANGED <<world, silent, faults>>
  \/ /\ world[p].kind # "none" /\ DeviceOn(parent, port) = {} /\ <<parent, port>> \notin ignored
     /\ Enumerate(parent, port, p) /\ UNCHANGED left
  \/ /\ world[p].kind # "none" /\ (DeviceOn(parent, port) # {} \/ <<parent, port>> \in ignored)
     /\ UNCHANGED <<world, dev, ignored, td, bound, ps2, silent, left, faults>>

RootStep == /\ at[1] = "port" /\ PollPort(Root, at[2], <<at[2]>>)
            /\ Advance(at) /\ UNCHANGED plugs

\* hub_get_status goes to whatever answers at the hub's address
Status(s) == {p \in Answers(s) : world[p].kind = "hub"}
HubStep == /\ at[1] = "hub"
           /\ \E p \in Status(at[2]) : PollPort(at[2], at[3], Append(p, at[3]))
           /\ Advance(at) /\ UNCHANGED plugs

HubSilent == /\ at[1] = "hub"
             /\ \/ (Cardinality(Answers(at[2])) > 1 \/ Status(at[2]) = {}) /\ UNCHANGED faults
                \/ faults < MaxFaults /\ faults' = faults + 1
             /\ UNCHANGED <<world, dev, ignored, td, bound, ps2, silent, left, plugs>> /\ Advance(at)

DeadStep == /\ at = <<"dead">> /\ Unbind({s \in Slots : Running(s) /\ dev[s].dead}, {})
            /\ at' = Idle /\ UNCHANGED <<world, silent, left, plugs, faults>>

\* usb_hid_probe_tick, at the start of a poll: nak_count or report_count went on
Moves(c) == dev[bound[c]].moved

Probe ==
  LET Live == {c \in Hid : bound[c] # None /\ Moves(c)}
      Out == {c \in Hid : bound[c] # None /\ ~ Moves(c) /\ silent[c] + 1 >= Probes}
  IN /\ at = Idle /\ at' = <<"port", 1>>
     /\ silent' = [c \in Hid |-> IF c \in Live \cup Out \/ bound[c] = None THEN 0 ELSE silent[c] + 1]
     /\ dev' = [s \in Slots |-> IF \E c \in Live : bound[c] = s THEN [dev[s] EXCEPT !.moved = FALSE] ELSE dev[s]]
     /\ bound' = [c \in Hid |-> IF c \in Out THEN None ELSE bound[c]]
     /\ ps2' = [c \in Hid |-> ps2[c] \/ c \in Out]
     /\ UNCHANGED <<world, ignored, td, left, plugs, faults>>
-----------------------------------------------------------------------------
(* The interrupt pipes.                                                    *)

Armed(s) == Running(s) /\ dev[s].td # 0 /\ dev[s].st = "active"

\* A live device NAKs or reports; nothing at the address is an error
Transaction(s) ==
  /\ Armed(s)
  /\ \/ /\ \E p \in Answers(s) : world[p].kind \in Hid
        /\ \E r \in {"nak", "data"} : dev' = [dev EXCEPT ![s].st = r]
     \/ /\ Cardinality(Answers(s)) # 1 \/ \E p \in Answers(s) : Class(world[p].kind) \notin Hid
        /\ dev' = [dev EXCEPT ![s].st = "error"]
  /\ UNCHANGED <<world, ignored, td, bound, ps2, silent, at, left, plugs, faults>>

\* Mutant: a failed descriptor is armed again like one without data
Rearmed(d) == [d EXCEPT !.st = "active"]

\* A stall, babble or timeout: usb_tick unbinds the device
Dead(d) == [d EXCEPT !.dead = TRUE]

\* int_td_service, from usb_tick or from the interrupt
Service(s) ==
  /\ at = Idle /\ Running(s) /\ dev[s].td # 0 /\ dev[s].st # "active" /\ ~ dev[s].dead
  /\ dev' = [dev EXCEPT ![s] = IF @.st = "error" THEN Dead(@)
                               ELSE [@ EXCEPT !.st = "active", !.moved = TRUE]]
  /\ UNCHANGED <<world, ignored, td, bound, ps2, silent, at, left, plugs, faults>>

TickStep == RootStep \/ HubStep \/ HubSilent \/ DeadStep \/ Probe
Next == \/ TickStep
        \/ \E p \in Paths : Pull(p) \/ \E k \in Kinds : Plug(p, k)
        \/ \E s \in Slots : Transaction(s) \/ Service(s)

\* The timer ticks, and the controller goes through its schedule every millisecond
Fairness == /\ WF_vars(TickStep)
            /\ \A s \in Slots : WF_vars(Transaction(s)) /\ SF_vars(Service(s))
Spec == Init /\ [][Next]_vars /\ Fairness
-----------------------------------------------------------------------------
(* Properties. *)

\* No device outlives its hub, also when the hub's slot is used again: whatever
\* hangs below a slot hangs below a running hub, at one of its ports, and no port
\* has two devices (unbind_device, enumerate_port).  A descriptor is in use by
\* exactly one running pipe.
TreeSound ==
  /\ \A s \in Slots : Running(s) /\ dev[s].parent # Root =>
       Running(dev[s].parent) /\ dev[dev[s].parent].kind = "hub" /\ dev[s].port \in 1..NPorts
  /\ \A s, t \in Slots : Running(s) /\ Running(t) /\ s # t =>
       /\ <<dev[s].parent, dev[s].port>> # <<dev[t].parent, dev[t].port>>
       /\ dev[s].td # 0 => dev[s].td # dev[t].td
  /\ td = {dev[s].td : s \in {t \in Slots : Running(t)}} \ {0}
  /\ \A i \in ignored : i[1] # Root => Running(i[1]) /\ dev[i[1]].kind = "hub"

\* The PS/2 keyboard is silenced exactly while a running USB keyboard owns the
\* console and its reports are heard, and the same for the mouse (hid.c).
ConsoleOwned ==
  \A c \in Hid : /\ ps2[c] <=> bound[c] = None
                 /\ bound[c] # None => Running(bound[c]) /\ dev[bound[c]].kind = c /\ dev[bound[c]].report

\* Every address is given to one device: "SET_ADDRESS (unique 1..USB_MAX_DEVICES)".
AddressesUnique ==
  \A p, q \in Paths : world[p].on /\ world[q].on /\ world[p].addr = world[q].addr /\ world[p].addr # 0 => p = q

\* The console never stays with a USB keyboard that is gone or says nothing: again
\* and again the PS/2 keyboard is heard or a live USB keyboard is bound
\* (usb_hid_probe_tick, "silenced the only working keyboard").
ConsoleComesBack ==
  []<>(ps2["kbd"] \/ \E p \in Answers(bound["kbd"]) : world[p].kind = "kbd")

\* A device exchanged for another between two polls is noticed by its pipe: while
\* keyboards and mice are plugged into the ports of the controller, in the end each
\* that stays is run at its own address (int_td_service, usb_tick).
PluggedIsRun ==
  <>[](FreeSlots = {} \/ \A p \in Paths : world[p].kind # "none" => \E s \in Slots : Running(s) /\ p \in Answers(s))
=============================================================================
