-------------------------- MODULE MCMainDevices --------------------------
(***************************************************************************)
(* An instance for TLC of the devices of MAIN's board, of its CPU's        *)
(* interrupts and of a tool on its monitor.  They share no state, so one   *)
(* of them runs in each behaviour while the others rest.                   *)
(***************************************************************************)
EXTENDS PanelInput, ControlLine, MainDma, UsbHost, ShIntc, QmpClient

VARIABLE unit       \* the device that runs

devicesVars == <<unit, panelVars, lineVars, dmaVars, usbVars, intrVars, qmpVars>>

(* The analogue field's byte holds one bit that commands name, its lowest. *)
Weights == [b \in FieldBits |-> 1]

(* The tick above a link and a device without a register of its own. *)
Levels == <<8, 4, 4>>

Init ==
    /\ PanelInit /\ LineInit /\ DmaInit /\ UsbInit /\ IntrInit /\ QmpInit
    /\ unit \in {"panel", "line", "dma", "usb", "interrupts", "monitor"}
    /\ unit # "panel" => contact.lid = "raw"
    /\ unit # "dma" => stage = "application"
    /\ unit # "usb" => ~usb.rated

Next ==
    \/ /\ unit = "panel" /\ PanelNext
       /\ UNCHANGED <<unit, lineVars, dmaVars, usbVars, intrVars, qmpVars>>
    \/ /\ unit = "line" /\ LineNext
       /\ UNCHANGED <<unit, panelVars, dmaVars, usbVars, intrVars, qmpVars>>
    \/ /\ unit = "dma" /\ DmaNext
       /\ UNCHANGED <<unit, panelVars, lineVars, usbVars, intrVars, qmpVars>>
    \/ /\ unit = "usb" /\ UsbNext
       /\ UNCHANGED <<unit, panelVars, lineVars, dmaVars, intrVars, qmpVars>>
    \/ /\ unit = "interrupts" /\ IntrNext
       /\ UNCHANGED <<unit, panelVars, lineVars, dmaVars, usbVars, qmpVars>>
    \/ /\ unit = "monitor" /\ QmpNext
       /\ UNCHANGED <<unit, panelVars, lineVars, dmaVars, usbVars, intrVars>>

Spec == Init /\ [][Next]_devicesVars

DevicesTypeOK == PanelTypeOK /\ LineTypeOK /\ DmaTypeOK /\ UsbTypeOK /\ IntrTypeOK /\ QmpTypeOK
=============================================================================
