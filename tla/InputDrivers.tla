---------------------------- MODULE InputDrivers ----------------------------
(***************************************************************************)
(* An input device of a hid device: the device tree makes it a keyboard, a *)
(* mouse or a gamepad, and its events go to that driver's encoder; or the  *)
(* input rests and the hosts write to the drivers.  The encoders share no  *)
(* state, so one input device stands for all.                              *)
(***************************************************************************)
EXTENDS KbdReport, GamepadReport, HostReports

CONSTANT Drivers \* of {HidKbd, HidMouse, HidGamepad, HostSide}

VARIABLE driver  \* the driver of the input device

HidKbd == "hid-kbd"
HidMouse == "hid-mouse"
HidGamepad == "hid-gamepad"
HostSide == "hosts"

ASSUME DriversAssumption == Drivers \subseteq {HidKbd, HidMouse, HidGamepad, HostSide}

driverVars == <<driver, kbdvars, padvars, vars, hostvars>>

DriverInit == driver \in Drivers /\ KbdInit /\ PadInit /\ Init /\ HostInit

KbdInput == driver = HidKbd /\ KbdNext /\ UNCHANGED <<driver, padvars, vars, hostvars>>

WheelInput == driver = HidMouse /\ Next /\ UNCHANGED <<driver, kbdvars, padvars, hostvars>>

PadInput == driver = HidGamepad /\ PadNext /\ UNCHANGED <<driver, kbdvars, vars, hostvars>>

HostOutput == driver = HostSide /\ HostNext /\ UNCHANGED <<driver, kbdvars, padvars>>

DriverSpec == DriverInit /\ [][KbdInput \/ WheelInput \/ PadInput \/ HostOutput]_driverVars

\* Whatever the keyboard or gamepad sends, its report shows what is held.
ReportsShowHeld == KbdInv /\ PadInv

\* Where nothing but the hosts sets the debounce, what the hosts last wrote is
\* what the device does.
HostsObeyed == driver = HostSide => HostReportsInv
=============================================================================
