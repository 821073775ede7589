---------------------------- MODULE InputSources ----------------------------
(***************************************************************************)
(* The board code that produces input: the sensor's force-awake time, a    *)
(* button scan, a stick, a touch surface with a gyro, and the calibration  *)
(* of analog axes.  No board has two of them that meet, so one source      *)
(* stands for all.                                                         *)
(***************************************************************************)
EXTENDS SensorPower, ButtonScan, HallAxes, TouchGyro, AxisCal

VARIABLE source

Sensor == "sensor"
Scan == "scan"
Stick == "stick"
Touch == "touch"
Axis == "axis"

sourcevars == <<source, vars, scanvars, hallvars, zalpakkavars, calvars>>

\* The source of the device; what the others would be at rest.
SourcesInit ==
  /\ source \in {Sensor, Scan, Stick, Touch, Axis}
  /\ Init /\ ScanInit /\ HallInit /\ TouchInit /\ CalInit
  /\ source # Sensor => ~byButton
  /\ source # Scan => contact = {}
  /\ source # Stick =>
       angle = CHOOSE a \in [Axes -> Angles] : \A i \in Axes : Position(i, a[i]) = 0
  /\ source # Touch => charge = CHOOSE c \in Charges : c <= TouchThreshold
  /\ source # Axis => \A c \in Chans : cal[c].inDeadzone = 0

Only(s) ==
  /\ source = s
  /\ UNCHANGED source
  /\ s # Sensor => UNCHANGED vars
  /\ s # Scan => UNCHANGED scanvars
  /\ s # Stick => UNCHANGED hallvars
  /\ s # Touch => UNCHANGED zalpakkavars
  /\ s # Axis => UNCHANGED calvars

SourcesNext ==
  \/ Only(Sensor) /\ Next
  \/ Only(Scan) /\ ScanNext
  \/ Only(Stick) /\ HallNext
  \/ Only(Touch) /\ TouchNext
  \/ Only(Axis) /\ CalNext

\* Time passes, workqueue, threads and bus go on.  The touch thread, of the
\* highest priority of those that wait for room in the input queue, gets it.
SourcesSpec ==
  /\ SourcesInit /\ [][SourcesNext]_sourcevars
  /\ WF_sourcevars(Only(Sensor) /\ System /\ UNCHANGED byButton)
  /\ WF_sourcevars(Only(Stick) /\ HallWork)
  /\ WF_sourcevars(Only(Touch) /\ Sense)
  /\ WF_sourcevars(Only(Touch) /\ TouchInputThread)
  /\ SF_sourcevars(Only(Touch) /\ TouchReport)
=============================================================================
