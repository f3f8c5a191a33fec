----------------------------- MODULE MCAdapters -----------------------------
(* An instance of ModemAdapters for TLC.  The device events: a wwan port   *)
(* that appears before its modem can be found on PCI, a modem on the PCI   *)
(* bus, and something else that is removed.                                *)
EXTENDS ModemAdapters

SomeEvents ==
    {[bus |-> "wwan", act |-> "add", ids |-> FALSE, listed |-> TRUE, found |-> FALSE],
     [bus |-> "pci", act |-> "add", ids |-> TRUE, listed |-> TRUE, found |-> FALSE],
     [bus |-> "usb", act |-> "remove", ids |-> FALSE, listed |-> FALSE, found |-> FALSE]}
=============================================================================
