-------------------------------- MODULE MCAhci --------------------------------
(* Small machines for Pci and Ahci.                                         *)
EXTENDS Ahci

CONSTANTS c1, c2

Fn(b, d, f, class, multi, secondary) ==
  [bus |-> b, device |-> d, function |-> f, class |-> class, multi |-> multi,
   secondary |-> secondary]

Host == Fn(0, 0, 0, "host", FALSE, 0)

(* The controller is a function of the chipset; behind two bridges, next to *)
(* a second bridge in the same device; behind a bridge whose bus is also    *)
(* the number of a function of 0:0; not there; in a full table.             *)
Chipset == {Host, Fn(0, 1, 0, "isa", TRUE, 0), Fn(0, 1, 2, "ahci", FALSE, 0)}
Nested ==
  {Host, Fn(0, 1, 0, "bridge", TRUE, 1), Fn(0, 1, 1, "bridge", FALSE, 3),
   Fn(1, 0, 0, "bridge", FALSE, 2), Fn(1, 1, 0, "nic", FALSE, 0),
   Fn(2, 1, 0, "ahci", FALSE, 0), Fn(3, 0, 0, "nic", FALSE, 0), Fn(3, 0, 1, "nic", FALSE, 0)}
Iommu ==
  {Fn(0, 0, 0, "host", TRUE, 0), Fn(0, 0, 1, "iommu", FALSE, 0),
   Fn(0, 1, 0, "bridge", FALSE, 1), Fn(1, 0, 0, "ahci", FALSE, 0)}
Hosts ==
  {Fn(0, 0, 0, "host", TRUE, 0), Fn(0, 0, 2, "host", TRUE, 0),
   Fn(2, 0, 0, "ahci", FALSE, 0), Fn(2, 1, 0, "bridge", FALSE, 3), Fn(3, 1, 0, "nic", FALSE, 0)}
NoAhci == {Host, Fn(0, 1, 0, "nic", FALSE, 0)}
Crowded == Nested \cup {Fn(1, 1, 1, "nic", FALSE, 0)} \cup
  {Fn(2, 0, f, "nic", f = 0, 0) : f \in 0 .. 2}

Machine(functions) ==
  [functions |-> functions, bar |-> TRUE, on |-> TRUE, late |-> FALSE,
   drives |-> [p \in Ports |-> "sata"], frames |-> 6, window |-> 13]

SmallMachines ==
  {Machine(fs) : fs \in {Nested, Iommu, Hosts, NoAhci, Crowded}} \cup
  {[Machine(Chipset) EXCEPT !.frames = f, !.window = w, !.late = TRUE] :
     f \in {1, 3, 8}, w \in {3, 5, 18}} \cup
  {[Machine(Chipset) EXCEPT !.frames = 8, !.window = 18],
   [Machine(Chipset) EXCEPT !.bar = FALSE],
   [Machine(Chipset) EXCEPT !.late = TRUE, !.on = FALSE, !.window = 12,
                            !.drives = [p \in Ports |-> IF p = 0 THEN "other" ELSE "satapi"]]}
===============================================================================
