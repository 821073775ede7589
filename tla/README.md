# Specifications of the input firmware

TLA+ specifications of the firmware under `src/firmware`: keyboards, mice,
trackballs, gamepads and encoders built on Zephyr, which send HID reports over
USB, Bluetooth, or both. TLC checks the specifications on small instances; TLAPS
proves the safety properties for every value of the constants.

Contents: [parts of the system](#the-system) ·
[modules](#modules-and-code) · [runs](#runs) ·
[assumptions and bounds](#environment-bounds-and-fairness) · [proofs](#proofs) ·
[a bug](#what-the-checks-found) · [not modelled](#not-modelled) · [plan](#plan)

## The system

Paths are below `src/firmware/src` unless they start with `boards/`.

| Part | State | Operations | Talks to |
|---|---|---|---|
| report cache, `hid.c` | one slot per (input device, report id, output), a lock, a notify work item | `hid_update_buffers`, `hid_get_report`, `hid_get_report_id`, `hid_notify_worker` | called by the input drivers (push) and the outputs (pull); calls `clear_rel` and `input_process` of the drivers and `notify` of the outputs |
| input drivers, `hid_kbd.c`, `hid_mouse.c`, `hid_gamepad.c` | key bits, media code; wheel debounce; hat bits; the callbacks for what hosts write | input event callbacks, encoding, `clear_rel`, output and feature reports | Zephyr input subsystem, `hid.c`, board callbacks |
| USB output, `usb_hid.c` | busy, connected, suspended, boot protocol, one transfer buffer | notify, transfer done, interface ready, reset, protocol, suspend, GET_REPORT | USB stack, `hid.c` |
| Bluetooth output, `ble_hog.c` | busy, subscription mask, suspended | notify, notification sent, subscription, read, disconnection | Bluetooth stack, `hid.c` |
| Bluetooth link, `ble.c`, `ble_unpair.c` | one connection object, bonds, advertising, `adv_work`, unpair countdown | connected, disconnected, recycled, pairing, advertise, unpair, `ble_stop` | Bluetooth stack, event bus |
| power, `auto_poweroff.c`, `charger*.c`, `watchdog.c` | hold flag, three delayable work items | input and charger events, poll, feed, power-off | event bus, `ble_stop` |
| connection power, `usbd.c`, `pm_control.c` | VBUS and bus flags, a use count | USB stack messages, connection events | event bus, runtime power management |
| event bus and LEDs, `event.c`, `main.c` | a message queue, LED state | `event`, the pattern player | every part that reports events |
| sensor power, `boards/balto/{paw_g3,ploopy_mouse_nrf,pmw_testboard}` | force-awake flag, work item | button or motion event, sleep handler | sensor driver over SPI |
| macro sequencer, `boards/balto/ble_pulse_encoder` | a code queue, a thread | filter callback, typing thread | the input queue, in both directions |
| XInput class, `xinput.c` | two buffer pools, a work item | report per event, request handler, enable, OUT work item, vendor request | USB stack, input subsystem |
| input of single boards, `boards/balto/{ds2_retrofit,big_stick,zalpakka}` | button state and time stamps; last axis values; touch, gyro fractions | scan thread, polling work item, touch and gyro threads | input queue, buses |
| axis calibration, `analog-axis-shell.c` | extremes per channel, the raw data callback | calibration on and off, sample, set, print | analog axis driver |
| lights and sounds, `boards/balto/{wasd_kbd,darfon,negcon-retro}` | strip colours, suspended flag; clicker and motor PWM | strip thread, click and its end, vibration, key matrix | event bus, input subsystem |
| wheel and caps lock glue, `boards/balto/{paw_g3,paw_pogo,darfon}` | sensor resolution, LED | `feat_cb`, `caps_led_cb` | hosts through `hid.c`, sensor driver |

Threads: the input thread (cooperative, priority -2), the system workqueue
(cooperative, -1), which runs all work items and most of the Bluetooth and USB
callbacks, the main thread (preemptible), which plays the LED patterns, the shell
(preemptible, lowest) and threads of single boards. A
handler of a cooperative thread runs to its end unless it blocks: on a lock,
on a queue, on the bus, or in `k_sleep`. Those are the points where the
specifications let other actors in.

What is hard here, and what makes each part correct:

* **Cache.** The lock is dropped between two outputs of one update, so an output
  may collect while the other is still served; motion must be neither
  duplicated by copying nor lost by clearing; an update that changes nothing is
  not announced. Correct: each output has, in effect, a private mailbox per
  report, whatever the others do; the cache never fills up.
* **Output drivers.** A report is collected, and so marked delivered, before the
  link is looked at; one flag says whether the stack is busy and only the end of
  a transfer asks for the next report. Correct: one transfer at a time; the
  flag never stays set; no report and no wake-up is lost except where the code
  drops one because the link is down or refuses it.
* **Two outputs.** One work item and one cache serve both. Correct: a link that
  hangs costs the other one nothing.
* **Bluetooth link and power.** Stopping, restarting, recycling, unpairing,
  expiring and charging meet on one workqueue in any order. Correct: connected,
  advertising what fits the bonds, or switching off; never silent, never
  restarted after `ble_stop`, never switched off while charging or in use, and
  the watchdog fed throughout, also during the 3 s sleep on the workqueue.
* **Connection power.** Messages arrive late; the count must match the links.
* **Drivers.** Rollover and back, a single media slot, opposed directions,
  jitter of a wheel: the report shows what is held, no motion disappears.
* **What hosts write.** Two hosts on two threads, a callback that blocks on a bus
  and ignores its errors. Correct: LED, sensor and debounce are in the mode of the
  report that came last.
* **Input of single boards.** Time stamps that wrap; readings that are stale when
  a full queue lets them in; fractions carried over; a sample between two
  assignments of a reset. Correct: what is there is reported, once, in the end.
* **XInput.** Pools at their limits, transfers cancelled by a new configuration.
  Correct: the host can always send, and sees the last event it could be sent.
* **Sequencer, sensor, LEDs, sounds.** Threads that feed each other's queues; a
  flag written after a blocking call; a queue that drops events; vibrations that
  overlap. Correct: every key is let go, every sensor rests, every light and
  sound ends.

`PROJECT.json` lists the hazards one by one, at their lines, with the properties
that would catch them.

## Modules and code

| Module | Code | State and actions |
|---|---|---|
| `HidReports` | `hid.c`, with the parts of the three drivers it calls | `cache`, `held`, `upd` (the update in progress and the output it has reached), `notify`. One action per critical section of the lock: `InputEvent`, `UpdateOutput`, `UpdateDone`, `NotifyWorker`, `GetReport`, `GetReportId` |
| `ReportMailbox` | the promise of `hid.c` to one output | per report: keys, motion owed, fresh; the event on its way to this output; what the last step handed to it. `Announce`, `Deliver`, `Collect`, and `Elsewhere` for what other outputs do |
| `HidDelivery` | `HidReports` with a history of what went in and came out | per output: motion owed, cut off by the field, keys last given |
| `UsbHid`, `BleHog` | `usb_hid.c`, `ble_hog.c` on top of `HidReports` | the driver's data, the stack's queue, what the host has seen. One action per callback; `UsbNotify` and `HogNotify` are the sets of outcomes of the notify functions |
| `HidSystem` | a device with both outputs | both of the above on one cache and one notify worker |
| `PowerOff` | `auto_poweroff.c`, `charger.c`, `charger_gpio.c`, `watchdog.c` | three work items of one workqueue, in seconds |
| `BleAdv` | `ble.c`, `ble_unpair.c`; extends `PowerOff` | connection object, advertising, bonds, unpair keys; a power-off calls `BleStop`, a key event is an input event of `PowerOff` |
| `ConnPower` | `usbd.c`, `pm_control.c` | bus, cable, messages under way, use count |
| `KbdReport`, `GamepadReport`, `WheelDebounce` | `hid_kbd.c`, `hid_gamepad.c`, `hid_mouse.c` | one driver each |
| `HostReports` | `hid_out_report`, `hid_set_feature`, the writes of `usb_hid.c` and `ble_hog.c`, the LED and feature callbacks of the drivers, `darfon/leds.c`, `wheel.c` | LED, sensor registers, the bus they are written over; extends `WheelDebounce`, whose debounce it sets |
| `InputDrivers` | | one driver, or the hosts: the choice lets one run check all of them |
| `KeySequencer` | `input_board_filter.c` | both queues, the typing thread's job |
| `SensorPower` | `paw_power.c`, `pmw_power.c` | flag, sensor, work item, calls blocked on the bus |
| `ButtonScan` | `button_scan.c` | wrapping clock, contacts, reported state, last update; one action per group scanned |
| `HallAxes` | `hall-axes.c` | stick, axis being read, last values, the work item |
| `TouchGyro` | `touch_sense.c`, `touch_sense_led.c`, `gyro.c` | three threads around the input queue; fractions of a pixel |
| `AxisCal` | `analog-axis-shell.c` | extremes, the reset field by field, the driver's callback and calibration; which channels were calibrated without being moved (history) |
| `InputSources` | | one of the five above: no board has two that meet |
| `XInput` | `xinput.c` | buffers of each pool with the controller, on their way back, or free |
| `Blinker` | `main.c`, `event.c` | queue, pattern being played, lit LEDs, charge |
| `LedStrip`, `Effects` | `wasd_kbd/leds.c`; `darfon/clicker.c`, `negcon-retro/haptic.c` | targets, pixels and the place in the round; PWMs, the click's work item, what each caller of `event` does |
| `BoardLights` | | the status LEDs, the strip or the sounds, which share no state |
| `*_proofs` | | theorems, [see below](#proofs) |

`MC*` modules and `.cfg` files give the constants their values. The report
contents are abstracted to what `hid.c` and the outputs treat differently:
`abs`, the keys or buttons shown as held, and `rel`, the motion accumulated since
the report was last collected. The encoders themselves are modelled field by
field in `KbdReport`, `GamepadReport` and `WheelDebounce`.

Operators marked `Slip` restate a definition with a plausible mistake (a
dropped guard, a missing reset, a swapped order). Nothing uses them, but each
stands for the mistake that one of the properties would catch; `PROJECT.json`
pairs them. History variables are named as such where they are declared.

Each module's type invariant and the parts that belong with it are joined in one
invariant. The named parts say what is claimed:

| Invariant | Parts beside types |
|---|---|
| `CacheInv` | `SlotsSound`, `LoopSound`, `EntriesCurrent` (each copy shows the held keys once served), `MotionMarked` (motion that waits is marked) |
| `UsbInv`, `HogInv` | one transfer or notification, the busy flag exact and recovered |
| `PowerInv` | `ChargingDisarms`, `NeverForgotten`, `WatchdogFed` |
| `AdvInv` | `NeverSilent`, `AdvFitsBonds`, `StrangersLeave`, `StaysStopped` |
| `RefInv` | `RefsExact`, `NoStolenPut`, `PoweredInUse`, `ReleasedWhenIdle` |
| `ReportsShowHeld` | `KbdInv` and `PadInv`: rollover and back, media slot, hat |
| `DebounceInv` | `MotionKept`, `DirectionExpires` |
| `HostsObeyed` | `LedShowsLast`, `ModeFollows` |
| `SequencerInv` | `KeysInOrder`, `OneKeyDown` |
| `SensorInv` | `FlagExact`, `AwakeEnds` |
| `ScanInv` | `StillReported` |
| `CalInv` | `ExtremesBracket`, `RangeKept` |
| `BlinkerInv` | the LEDs show the charge at rest |
| `XInputInv` | `OutReady`, `LastEventSeen` |

`CountdownsWhole` joins two action properties: the power-off item expires only
after the full idle time, the unpair item only after the keys were held.
`HostsCatchUp` joins `UsbHostCatchesUp` and `HogHostCatchesUp`.

## Runs

| Run | Checks | Shows |
|---|---|---|
| `report_cache` | `CacheInv`, `CacheNeverFull`, `OutputsAreMailboxes`, `MotionConserved`, `NothingMissed` | a keyboard and a mouse report, two outputs, every interleaving of updates with collections: the cache refines one `ReportMailbox` per output, which only takes the events that happened, each once, and is only emptied into that output's hands; what waits for an output is what the mouse moved and it did not collect, until its accumulator saturates; an output with nothing to collect has the present keys |
| `usb_hid` | `UsbInv`, `UsbNoSilentLoss`, `UsbNoLostWakeup` | the USB output under resets, suspend, boot protocol, GET_REPORT, cancelled transfers and refused reports |
| `ble_hog` | `HogInv`, `HogNoSilentLoss`, `HogNoLostWakeup` | the Bluetooth output under disconnections, subscriptions, reads, suspend and failing notifications |
| `system` | `NoCrossLoss`, `DriversPrivate`, `HostsCatchUp` | both outputs at once; what one collects changes nothing that the other is shown; each host catches up once input pauses, while the other link may hang forever |
| `ble_adv` | `PowerInv`, `AdvInv`, `CountdownsWhole`, `AlwaysReachable`, `SwitchesOff` | two hosts, three builds, charger and keys in any order |
| `conn_power` | `RefInv` | with and without VBUS detection, with a Bluetooth link |
| `input_drivers` | `ReportsShowHeld`, `DebounceInv`, `TurnsNeedThreshold`, `HostsObeyed` | each driver, any sequence of its events; two hosts that write at the same time |
| `gamepad_hat` | `HatNullAtRest` | a violation, see below |
| `key_sequencer` | `SequencerInv`, `KeysReleased` | the two threads that feed each other |
| `input_sources` | `SensorInv`, `ExpiresOnlyIdle`, `Rests`; `ScanInv`, `ReportsApart`; `StickFollows`; `TouchFollows`, `RotationKept`; `CalInv` | each source: both wake-up variants; two groups of bouncing contacts across wraps of the clock; a stick left alone; a finger that comes and goes under a full queue; calibration restarted among samples |
| `board_lights` | `BlinkerInv`, `StripGoesDark`, `EffectsInv` | a two-LED and a one-LED board; a strip whose host leaves; clicks and vibrations that overlap |
| `xinput` | `XInputInv`, `OutRearmed` | both endpoints through configuration, suspend and full pools |

Every run finishes within three minutes with two workers; the largest,
`ble_hog`, has 1.5 million distinct states. `CHECK_DEADLOCK FALSE` is given only
to `ble_adv`, where a device that is powered off stops.

## Environment, bounds and fairness

**USB** (`UsbHid`, `ConnPower`). A bus reset takes the interface down; the
transfer it cancels may or may not be reported; the reset message is handled on
the workqueue before the host configures the device again. Messages arrive late
and in order. Without VBUS detection, the first message is SUSPEND and SUSPEND
and RESUME alternate; with it, the bus starts suspended after the stack is
enabled, and a controller without VBUS sees nothing. Dropping a reference of a
device with none fails and changes nothing, as `pm_device_runtime_put` does. A
cable pulled before the controller noticed the silence keeps its reference until
the next time (`unplugged`): `ReleasedWhenIdle`, a part of `RefInv`, excepts that case.

**Bluetooth** (`BleHog`, `BleAdv`). `CONFIG_BT_MAX_CONN` is 1 on every board. A
disconnection drops what is in flight without a callback and clears the
subscriptions before `ble_hog_disconnected` runs; notifications and read responses
share one ordered channel. `bt_le_adv_stop` frees the connection object at once,
the end of a connection some time later, and `recycled` runs on the system
workqueue after that.

**Power** (`PowerOff`). A tick is a second; work that is due is served before the
next one, except that `adv_work` and `recycled` may take longer. Rescheduling an
item that has expired and is queued does not take it back; cancelling does. On
`negcon-retro` and `ds2_retrofit` the charger callback runs before
`auto_poweroff_init`, so a device that boots on its charger counts down while it
charges until the next charger event: `ChargingDisarms` excepts that case
(`bootArmed`). A device without a charger is one whose charger never
changes.

**Hosts' writes** (`HostReports`). The threads of both stacks are cooperative and
each handles one write at a time; the sensor's bus serves register writes in
order, so two calls of `pat912x_set_resolution` alternate. `HostsObeyed` excepts a
register write that fails, and the LED after a report without contents, because
there the code does not promise anything.

**XInput**. The stack refuses a buffer when the interface is not configured, and
on the IN endpoint while the bus is suspended; a new configuration hands cancelled
transfers back through the request handler. Control transfers are one at a time.

**Input of single boards**. The timer of the button scan may be late by up to
`MaxLate` periods, when the thread is kept from running. The axis driver holds its
lock during a callback and takes it to change the callback; its thread preempts
the shell at any point. One device is calibrated: `cal_data` is shared by all, and
channel numbers of two devices would mix. Between the steps of `InputSources` and
`BoardLights` the parts that were not chosen stand still, which loses nothing
because no board has two that share state.

**Sensor, sequencer, LEDs, drivers.** A wheel event has at most 255 steps. Bus calls are served in order; a press
during the sleep handler's call is dropped, as in the code. A charger event that a
full queue drops is shown by whatever is played later, unless nothing queued
touches the charge LED (`stale`). Modifier keys, and the keys in `Refused`, are outside of the bit array;
`clear_rel` is the only way motion goes away; a gamepad axis never reports a
negative value.

Bounds, and why they are enough:

| Bound | Value (code) | Why |
|---|---|---|
| outputs, reports | 2 outputs, 2 reports (`report_cache`), 1 report (`system`) | two outputs are the most a board has; interference needs two slots; proofs cover any number |
| `Keys` | 1 | a change and its undoing; keys do not interact in the cache |
| `RelMin`, `RelMax`, `Deltas` | 0, 1, {-1, 1} (16 bit) | saturation on both sides, motion that cancels out, motion cut off and then taken back |
| `MaxMsgs` | 5 | a suspend, a resume and both VBUS messages under way at once |
| `AutoPoweroffTime` | 3 (900 s) | the races are around the expiry, whatever time went before it; longer than the charger poll and the watchdog period (1 s) |
| `UnpairTimeout` | 2 (5 s) | held, released early, expired |
| `WdtWindow` | 5 (the code's) | real value |
| `ForceAwakeTimeout` | 30 (the code's 30 and 300) | real value of two boards |
| `CodesSize` | 2 (6), four keys | below, at and beyond the limit, and back |
| queue sizes | 2 (8 and 16), 3 (10) | full queues are reached in a few steps |
| `HoldoffTime`, `Wrap`, `MaxLate` | 2, 6, 2 (hold-off in periods, 2^32 ms) | a wrap inside and outside of the hold-off, late scans; `Wrap` only has to exceed a hold-off and a late scan |
| `Angles`, `Charges`, `Rotations` | 4, 3, 3 values | below, inside and beyond the travel; both sides of the threshold; less and more than a pixel, both directions |
| `Channels`, `RawValues` | 2 (6), {0, 4095} | a channel that moved, one whose reading never changed, and one without a sample; the ends of a 12-bit converter |
| `BufCount`, `CtrlCount` | 3 (4), 2 | pools full of reports, of cancelled transfers, of both |
| `Pixels`, `Level`, `Cycles` | 2, 8, 5 (64, 40) | as in the code a round of `Cycles` steps of `Level \div Cycles` is too short for `Level` |
| `Callers` | 3 | three vibrations at once |
| `WheelTh` | 45 (the code's) | steps at, just under and over it |

Fairness. Firmware actions are weakly fair: cooperative threads that always get
the processor and a workqueue that runs what is queued. `Second` is weakly fair:
time passes. In `ble_adv` the stack ends a link that it was asked to end, and frees
its object. Hosts are not assumed to be fair: that a USB host polls
(`UsbPolls`) or a Bluetooth link sends (`HogSends`) is a premise of the property
about that host only, so the other one may hang. `KeySequencer` has one strong
fairness: the typing thread waits on a queue that wheel and buttons also fill, and
they do not take every place that comes free for ever. `TouchGyro` has the
same for its touch thread, which has the highest priority of the threads that
wait for room. In `board_lights` the strip's thread goes on, in
`xinput` the workqueue and the stack's completions; nothing is assumed of users,
hosts or fingers, except in the premises `<>[]suspended`, `<>[]enabled` and "the
stick, or the finger, rests from some point on".

## Proofs

Eight modules prove results with TLAPS, for every value of the constants: any
outputs, device tree, keys, motion, queue lengths, times, hosts. What is assumed of
the constants is the `ASSUME` of each module (outputs differ, report ids are unique
per hid device as the device tree requires, times are positive, and so on; TLC
evaluates them on every run), and twice a hypothesis in the theorem itself, where
the code relies on a value that the model leaves open: the watchdog window is at
least its 5 s, and the analog converters have at most 15 bits.

Every safety property that a run checks is proved: the invariants and the action properties
of all modules, and the refinement of the mailboxes. Liveness is model-checked; for each of
those properties a theorem states the safety that it rests on.

| Module | Theorem | States |
|---|---|---|
| `HidReports_proofs` | `TypeCorrect`, `CacheSound`, `NeverFull` | `[]TypeOK`, `[]CacheInv`, `[]CacheNeverFull`: "report cache full" cannot happen |
| | `AlwaysCurrent`, `MotionNeverStranded` | `[]EntriesCurrent`, `[]MotionMarked`, the parts of `CacheInv` that matter most |
| | `MotionDelivered`, `KeysDelivered` | `[]MotionConserved`, `[]NothingMissed` |
| | `EachOutputHasMailboxes`, `MailboxesRefined` | `DSpec` implements `ReportMailbox` for each output; `OutputsAreMailboxes`, which says so of the first and the last |
| `HidOutputs_proofs` | `UsbAgreement`, `UsbLosesNothing`, `UsbStaysAwake` | `[]UsbInv`, `[]UsbNoSilentLoss`, `[]UsbNoLostWakeup` |
| | `HogAgreement`, `HogLosesNothing`, `HogStaysAwake` | `[]HogInv`, `[]HogNoSilentLoss`, `[]HogNoLostWakeup` |
| | `OutputsIndependent`, `DriversAgree`, `SharedCacheSound` | `[]NoCrossLoss` on a device with both outputs, and all of the above, and `CacheInv`, there |
| | `DriversArePrivate` | `DriversPrivate`: on the device with both drivers, what an output is shown changes only by an event posted for it or by its own driver |
| `BleAdv_proofs` | `PowerOffSound`, `BlePowerSound` | `[]PowerInv`, without and with Bluetooth, for `WdtWindow >= 5` |
| | `PowerOffWithBle` | the device with Bluetooth behaves as `PowerOff` says |
| | `AdvertisingSound`, `CountdownsRunOut` | `[]AdvInv`, `CountdownsWhole` |
| `ConnPower_proofs` | `RefsAgree` | `[]RefInv`, for any `MaxMsgs` |
| `InputDrivers_proofs` | `HeldIsShown`, `LastWriterObeyed` | `[]ReportsShowHeld`, `[]HostsObeyed` |
| | `DebounceSound`, `NoMotionLost`, `DirectionEnds`, `NoJitter`, `WheelInDevice`, `DeviceDebounces` | `[]DebounceInv` and its parts, `TurnsNeedThreshold`, of the driver and of the device with hosts that set it |
| `InputSources_proofs` | `SensorWakesAndRests`, `NeverRestsInUse` | `[]SensorInv`, `ExpiresOnlyIdle` |
| | `StillContactsReported`, `BouncesReportedOnce` | `[]ScanInv`, `ReportsApart` |
| | `RotationNeverLost`, `CalibrationUsable` | `[]RotationKept`; `[]CalInv`, for `NarrowConverter` |
| | `StickNeverForgotten`, `TouchNeverForgotten` | the safety behind `StickFollows` and `TouchFollows` |
| `Queues_proofs` | `HostServed` | `[]XInputInv` |
| | `MacrosTypedWhole` | `[]SequencerInv` |
| | `ReleaseComesNext` | the safety behind `KeysReleased` |
| `BoardLights_proofs` | `RestIsTruthful`, `EverySoundEnds` | `[]BlinkerInv`, `[]EffectsInv` |
| | `StripFades` | the safety behind `StripGoesDark` |

The theorems named `...StaySound` or `...StaysSound`, and `DeliverySound`, state the inductive
invariants. Hardly any property is inductive as the run states it; what had to be
added says why the code works:

* **Cache** (`CacheInv`). The update of the second output copies from the slot of
  the first, so the slot found must be the right one (`SlotsSound`: the used
  slots are a prefix of the array, filled, one per report and output) and `first_entry` must still show what was just encoded, also after
  the first output has collected it (`LoopSound`). `SlotExists` counts, by
  injection into reports × outputs, that a used or free slot is always found;
  `UpdateStep` handles one pass of the loop in `hid_update_buffers`,
  `CollectStep` both ways of collecting, `EventStep` the arrival of an event.
* **Delivery** (`DeliveryInv`). Beside `MotionConserved` it carries `GivenShown`:
  an unmarked slot shows what its output was last given. `CacheInv` says what the
  slot shows, so an output with nothing to collect has the present keys.
* **Mailboxes.** `BoxOf` reads the mailboxes of an output from the cache, `ComingTo` the
  event on its way to it from the update in progress, and `TookBy` what it was handed from
  the history variable `took`. An input event is an `Announce`; the pass of the loop that serves the output
  a `Deliver` of just that event, also when the report is copied (`UpdatePosts`: what it
  writes follows from the event and from what this output's slot held before, whatever the
  slot that it copies from held); a collection by this output a `Collect`. All else, a pass or a collection for another
  output above all, is an `Elsewhere`, which leaves the mailboxes as they are.
* **Outputs** (`UsbSound`, `HogSound`). What a driver relies on is stated of a cache
  and a driver state as values, since the notify worker hands the cache from one
  output to the next in one step. `UsbGood` and `HogGood` join three parts: what
  is with the stack, what each report's host has, and who will call next.
  `SystemSound` is both on one cache: what one output collects is invisible in
  the slots of the other (`Drawn`), hence `NoCrossLoss`.
* **Private drivers.** `EachOutputHasMailboxes` is about `hid.c` alone, with
  outputs that collect at will; `DriversArePrivate` about the drivers. Its hard step is
  the work item, in which both collect: `DrawnMail` says of two caches as values that
  one report was collected or none, and only of the driver that was called, so the
  cache between the two calls, which is no state of the device, can stand in the middle.
* **Power** (`PowerSound`). `CountdownExact`: time left and time idle add up, so the
  item cannot expire early. `FeedBudget`: the age of the watchdog at each stage of
  the power-off handler; its two sleeps cost 3 s, the handler starts at most 1 s after
  a feed, and that is where 5 comes from.
* **Bluetooth** (`AdvSound`). `SlotHeld`: the connection object is held exactly by the
  advertising or by the connection. It is what `bt_le_adv_start` may fail over, so it is
  what `NeverSilent` rests on. `UnpairCount` is `CountdownExact` for the keys.
* **Connection power** (`ConnSound`). The count depends on the order of the messages
  that wait: suspend and resume alternate, cable messages too, no resume waits behind a
  cable message. Four patterns (`Followed`, `Preceded`, `Between`, `NotBefore`) say all
  of it, with one lemma each for publishing and for taking a message.
* **Drivers** (`EncodersSound`). `KeyPlaced`: the scan of the key bits puts each held
  key in one place, by counting the keys up to it (`PlacesTaken` is the pigeonhole).
  `BusSound` says for each state of the bus queue which write came last and what it
  has done: two calls alternate there, so the report that came last is done last.
  In `DebounceInv`, `state = lastDir` ties the remembered direction to the one
  last reported.
* **Sources** (`SourcesSound`, `CalSound`). The flag of the sensor tells its mode even
  during calls. A contact that differs from what is reported does so no longer
  than the time stamps of the last report show, and a late scan more
  (`DiffersShortly`): after a wrap an old time stamp looks recent, and this bounds what
  that costs. For the calibration, `RangeFits` bounds the 16-bit arithmetic and
  shows that two dead zones are less than a range of any width, and
  `ValidSampled` follows the reset field by field.
  The stick's handler runs or its item is scheduled, never both (`StickWork`). Of the
  touch events in the queue only the one furthest back counts (`TouchShown`): it says
  what `data.touch` says, and the LED and the gyro will end there.
* **XInput** (`LastQueued`): the report queued last shows the last event.
* **Sequencer** (`SequencerSound`). What is on its way to `hid_kbd_cb`, in the input queue
  (past the events of wheel and buttons) and then in the thread, is the release of the
  key that is down, if one is, and then some keys typed one after the other; these keys
  and those of the codes that wait are what is owed. `OneKeyDown` needs this order: of a
  queue whose keys are merely balanced it does not follow. The steps split and join
  sequences of codes, keys and events, so each of the folds must be known to
  distribute over concatenation (`Joined`, `FlattenConcat`), for sequences of any length.
* **LEDs** (`BlinkerSound`). What is left of a pattern works one LED and ends by
  setting it dark (`Blinks`), so LEDs other than the charge LED are lit only within
  a pattern. The charge LED shows `led_invert` as soon as neither the pattern nor a
  queued event will set it (`ShownSound`); with one LED every event that is
  queued will.
* **Strip** (`StripSound`). `Fading`: after n cycles of a round a pixel is n steps nearer
  to its target; at the start of a round that says nothing, which is why a change of the
  targets, only made then, does not break it.

Induction over data. The library's induction theorems take an operator as a parameter,
which these provers cannot instantiate. `Queues_proofs` proves induction for a *set*
instead: a set of naturals (`NatSetInduction`) or of sequences (`SeqSetInduction`) that is
closed under the step contains them all, from the library's theorem that a set
without a minimal element is empty (`WFMin`). That `FlattenSeq`, which the community modules
define by a recursive function, exists and obeys its equations (`FlattensExists`,
`FlattensUnique`) is proved the same way.

Some definitions are written for the provers' sake: `KeyAt` of `KbdReport` picks the
i-th key of the scan by counting instead of recursion, `UsbState` and `HogState` name
the sets the drivers' records belong to, and `AllKeys`, `Typed` and `KeyPresses` of
`KeySequencer` are all written with `FlattenSeq`.

Model-checked only: liveness, because fairness is stated with `ENABLED`, which is out of
the provers' reach. The theorem in the second column states the safety each rests on,
mostly that something is still to come that brings the state about; that it
does come is TLC's part.

| Liveness property | Safety behind it |
|---|---|
| `HostsCatchUp` | `DriversAgree`: a report that waits for an idle, usable link has a call on the way, but for the exceptions that are accounted for |
| `AlwaysReachable` | `AdvertisingSound` (`NeverSilent`) |
| `SwitchesOff` | `BlePowerSound` (`NeverForgotten`) |
| `Rests` | `SensorWakesAndRests` (`AwakeEnds`) |
| `KeysReleased` | `ReleaseComesNext` |
| `StickFollows`, `TouchFollows` | `StickNeverForgotten`, `TouchNeverForgotten` |
| `StripGoesDark` | `StripFades` |
| `OutRearmed` | `HostServed` (`OutReady`) |

## What the checks found

`gamepad_hat` (`HatNullAtRest`): the `hat` field of a gamepad report is 0, which
means up, from the zeroed report until the first direction event runs
`hid_gamepad_set_hat`, which reports 8, outside of the logical range, for no
direction. The first button or stick report shows the direction pad pressed up.

Observed while modelling, with no run of their own:

* `Kconfig` says of directed advertising that it is sent "if there's only one
  bond"; `ble.c` also needs `CONFIG_APP_BT_EMPTY_AD_BONDED` and
  `CONFIG_BT_MAX_PAIRED=1`. The model follows the code (`AdvMode`).
* The gamepad axes are reported from 0 to 255, while the descriptor in
  `include/dt-bindings/hid.h` declares a logical minimum of 1.
* An input event between the expiry of the power-off item and its handler does
  not save the device (`CountdownsWhole` is about the expiry).
* A media key that is released clears the only media slot, also when another
  media key is still held (`MediaShownHeld` claims no more than the code gives).
* A report refused by the stack, or collected while the link is down, is dropped
  and not sent again when the link comes back (`lost`, `stalled` in `UsbHid` and
  `BleHog`): the properties except exactly these cases.
* An XInput report starts from nothing and shows only the button of its own event:
  two buttons are never shown held together, and an axis event releases all
  (`XInputCb`, `OtherEvent`; `LastEventSeen` claims the last event only).
* `xinput_control_to_host` allocates a control buffer before it looks at the
  request, and does not give it back for an unknown one (`leaked`).
* One failed read ends the polling of `hall-axes.c` until the next boot
  (`readFailed`). Its `val2 / 1000000` is always 0, so tenths of a degree never
  count (`Position`).
* An output report without contents reads the byte after it (`OutReport`).
* `feat_cb` in `wheel.c` ignores the result of `pat912x_set_resolution` and
  switches the debounce in any case (`FeatDone`, `failed`).
* A round of the LED strip is 40 steps of 1 towards a level of 64, and a pixel that
  has reached its target steps down again: it never stays there (`Stepped`).
* `board_filter_cb` counts the steps of a wheel event in a `uint8_t`
  (`input_board_filter.c:89`): for an event of more than 255 steps in either direction the
  loop does not end. `KeySequencerAssumption` says that the wheel reports no such event.
* Vibrations that overlap cut each other short: the first to end stops the motor
  (`HapticSlept`).
* A channel that is calibrated over a reading that never changes gets `in_min` equal to
  `in_max`, by whose difference the axis driver divides (`RangeKept` excepts it by name: `still`).
* In `update_cal`, a range of more than 32767 wraps in its `int16_t` (`Int16`); with
  converters of up to 15 bits it does not.

## Not modelled

* `ble_hog_set_peer` has no effect with one connection; the HID control point is
  stored and read by nothing.
* The Bluetooth shells: formatting, and calls whose effects are those of an
  unpairing by keys or of a link that ends. That the shell's thread, of the
  lowest priority, may be interrupted inside the unpairing is not covered.
* The filter of `gyro.c` up to the scaled rotation: floating-point arithmetic.
* Battery service, `reboot.c`, `panic.c`, `drv8830.c`: single calls or register
  access without state to relate. The battery's work item schedules itself on
  every path.
* Start-up code of single boards (`usb.c`, `boot.c`, `opt_bytes.c`, `board.c`).
* Registration of USB devices in `usbd.c`, and the devices for which `pm_control.c` takes a
  reference at boot and never drops it; `ConnPower` is checked on its own, not composed with the outputs.
* The size of a report, and with it the error of a driver callback in
  `hid_update_buffers`. A callback fails for a buffer shorter than its report, which `CACHE_SIZE` never is, and
  the keyboard's for a key whose HID code has no bit (`Refused` in `KbdReport`, where the report stays as it is).
  Then the slot's size would be the error cut to a byte, so `hid_get_report` would stop at this slot, and
  the next update would copy that many bytes, which is undefined. The cache models take every event for one that its driver encodes.
* Zephyr itself (input, USB, Bluetooth, work queues) is modelled as far as the
  code relies on it.

## Plan

Done, in this order: the cache and its mailbox abstraction; both outputs;
their composition; delivery; the Bluetooth link, power-off and their composition;
connection power; the drivers; sequencer, sensor, LEDs; what
hosts write; button scan, stick, touch and gyro, axis calibration; XInput; LED
strip, clicker and vibrations; the proofs of every safety property of these, of the
mailboxes of the whole device, and of the safety behind the liveness properties.

What could follow:

1. `ConnPower` composed with the outputs: the suspend of an output while the use count
   of its device changes.
2. The shells' thread, which has the lowest priority and may be interrupted inside an
   unpairing.
