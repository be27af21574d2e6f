---------------------------------- MODULE Pci ----------------------------------
(***************************************************************************)
(* The search for PCI functions at start-up (pci/src/lib.rs): a recursive  *)
(* walk from check_all_buses over devices and functions, into the bus      *)
(* behind every bridge, that fills PCI_DEVICES; and the search of a driver *)
(* in that table.                                                          *)
(*                                                                         *)
(* The machine's functions are a constant of the machine: registers other  *)
(* than the ones the walk looks at are left out.  stack holds the calls of *)
(* check_bus that have not returned, each with the place it has reached.   *)
(***************************************************************************)
EXTENDS Integers, Sequences, FiniteSets

CONSTANTS
  Machines,        \* machines the kernel starts on: see Function
  LastDevice,      \* devices of a bus: 0 .. LastDevice (31)
  LastFunction,    \* functions of a device: 0 .. LastFunction (7)
  MAX_PCI_DEVICES  \* (256)

(* A function present has its place, the multi-function bit of its header,  *)
(* its class ("bridge", "ahci" or another) and, for a bridge, the bus behind*)
(* it.  machine.functions is the set of functions that answer.              *)
At(m, b, d, f) == {x \in m.functions : x.bus = b /\ x.device = d /\ x.function = f}
Present(m, b, d, f) == At(m, b, d, f) # {}
The(m, b, d, f) == CHOOSE x \in At(m, b, d, f) : TRUE
Multi(m, b, d) == Present(m, b, d, 0) /\ The(m, b, d, 0).multi

(* Reference: the functions of the machine the walk is to find.  A function *)
(* is seen if its device answers as function 0 and, if it is another one,   *)
(* has the multi-function bit; buses are those of the host bridges and of   *)
(* the bridges seen.                                                        *)
HostBuses(m) ==
  IF Present(m, 0, 0, 0) /\ ~Multi(m, 0, 0) THEN {0}
  ELSE {f \in 0 .. LastFunction : Present(m, 0, 0, f)}
Seen(m, buses) ==
  {x \in m.functions :
     /\ x.bus \in buses
     /\ Present(m, x.bus, x.device, 0)
     /\ x.function = 0 \/ Multi(m, x.bus, x.device)}
Behind(S) == {x.secondary : x \in {y \in S : y.class = "bridge"}}
Buses(m) ==
  LET reach[n \in 0 .. Cardinality(m.functions)] ==
        IF n = 0 THEN HostBuses(m)
        ELSE LET before == reach[n - 1] IN before \cup Behind(Seen(m, before))
  IN reach[Cardinality(m.functions)]
Functions == [m \in Machines |-> Seen(m, Buses(m))]

(* External: the firmware has numbered the buses.  A bus is behind one      *)
(* bridge, with a number above the bridge's own.                            *)
Bridges(m) == {x \in m.functions : x.class = "bridge"}
Numbered(m) ==
  /\ \A x \in Bridges(m) : x.secondary > x.bus
  /\ \A x, y \in Bridges(m) : x # y => x.secondary # y.secondary

ASSUME PciConstants ==
  /\ LastDevice \in Nat /\ LastFunction \in Nat /\ MAX_PCI_DEVICES \in Nat
  /\ \A m \in Machines : Numbered(m)

VARIABLES
  machine,  \* the machine the kernel is started on
  roots,    \* the buses check_all_buses has still to check
  stack,    \* the calls of check_bus: bus, and next device and function
  found     \* PCI_DEVICES

pciVars == <<machine, roots, stack, found>>

SortedHosts(m) ==
  LET hosts == HostBuses(m) IN
  [n \in 1 .. Cardinality(hosts) |->
     CHOOSE b \in hosts : Cardinality({c \in hosts : c < b}) = n - 1]

PciInit ==
  /\ machine \in Machines
  /\ roots = SortedHosts(machine)
  /\ stack = <<>>
  /\ found = <<>>

BusCall(b) == [bus |-> b, device |-> 0, function |-> 0]

(* check_all_buses goes on to the next bus.                                 *)
CheckRoot ==
  /\ stack = <<>> /\ roots # <<>>
  /\ stack' = <<BusCall(Head(roots))>>
  /\ roots' = Tail(roots)
  /\ UNCHANGED <<machine, found>>

Top == stack[Len(stack)]
Below == SubSeq(stack, 1, Len(stack) - 1)
NextDevice == [Top EXCEPT !.device = @ + 1, !.function = 0]
NextFunction ==
  IF Top.function < LastFunction THEN [Top EXCEPT !.function = @ + 1] ELSE NextDevice

(* The check of a device ends with function 0 unless it is multi-function.  *)
After ==
  IF Multi(machine, Top.bus, Top.device) THEN NextFunction ELSE NextDevice

(* pci_add_device drops a function that the table has no room for.          *)
Add(x) == IF Len(found) < MAX_PCI_DEVICES THEN Append(found, x) ELSE found

(* The bus behind a bridge of another function than 0 is not checked.       *)
CheckFunctionFirstBridge ==
  /\ stack # <<>> /\ Top.device <= LastDevice
  /\ Present(machine, Top.bus, Top.device, Top.function)
  /\ LET x == The(machine, Top.bus, Top.device, Top.function) IN
     /\ found' = Add(x)
     /\ stack' = Append(Below, After) \o
                   (IF x.class = "bridge" /\ x.function = 0
                    THEN <<BusCall(x.secondary)>> ELSE <<>>)
  /\ UNCHANGED <<machine, roots>>

(* check_function: pci_add_device and, behind a bridge, check_bus.          *)
CheckFunction ==
  /\ stack # <<>> /\ Top.device <= LastDevice
  /\ Present(machine, Top.bus, Top.device, Top.function)
  /\ LET x == The(machine, Top.bus, Top.device, Top.function) IN
     /\ found' = Add(x)
     /\ stack' = Append(Below, After) \o
                   (IF x.class = "bridge" THEN <<BusCall(x.secondary)>> ELSE <<>>)
  /\ UNCHANGED <<machine, roots>>

(* A device without function 0, or a function that does not answer.         *)
Skip ==
  /\ stack # <<>> /\ Top.device <= LastDevice
  /\ ~Present(machine, Top.bus, Top.device, Top.function)
  /\ stack' = Append(Below, IF Top.function = 0 THEN NextDevice ELSE NextFunction)
  /\ UNCHANGED <<machine, roots, found>>

ReturnBus ==
  /\ stack # <<>> /\ Top.device > LastDevice
  /\ stack' = Below
  /\ UNCHANGED <<machine, roots, found>>

PciStep == CheckRoot \/ CheckFunction \/ Skip \/ ReturnBus
PciDone == stack = <<>> /\ roots = <<>>

(* pci_find_class_prog_if: the first of the table, or None.                 *)
FindClass(c) == {n \in DOMAIN found : found[n].class = c /\ \A k \in 1 .. (n - 1) : found[k].class # c}

-----------------------------------------------------------------------------
Found == {found[n] : n \in DOMAIN found}

(* The functions of device 0:0 that are no host bridges stand for buses     *)
(* which may also be behind a bridge: those are walked twice.               *)
HostsApart(m) == HostBuses(m) \cap Behind(m.functions) = {}

(* The walk finds every function of the machine, however the buses are      *)
(* nested, and each one once unless a function of 0:0 leads to its bus as   *)
(* well; a full table holds as many as fit.  check_bus keeps no record of   *)
(* the buses it has checked.                                                *)
FoundAll ==
  /\ Found \subseteq Functions[machine]
  /\ PciDone => Found = Functions[machine] \/ Len(found) = MAX_PCI_DEVICES
  /\ HostsApart(machine) => Cardinality(Found) = Len(found)
=============================================================================
