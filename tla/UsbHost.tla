------------------------------ MODULE UsbHost -------------------------------
(***************************************************************************)
(* The USB server's host controller driver: servers/usb/host_controller.cc *)
(* with device.cc and endpoint.cc.  The server has one thread, but         *)
(* handle_interrupt is re-entered: a port event enumerates a device, which *)
(* sends commands and control transfers, and each of those waits by        *)
(* calling handle_interrupt itself.  hcStack is that call stack.           *)
(*                                                                         *)
(* The controller (external hardware) works between any two steps: it      *)
(* takes commands in order, answers the control transfers of a device in   *)
(* order, well or with an error code, at once or too late or never.        *)
(***************************************************************************)
EXTENDS TrbRing

CONSTANTS Ports,     \* ports with a device, each of which changes its status once
          Slots,     \* device slots, 1 .. slot_count
          Kinds,     \* what is plugged in: "keyboard", "mouse", "hub", "bad", "fast"
          Polls,     \* 1000 turns of send_command, 100 of send_control
          Caps       \* extended capabilities: sequences of "protocol" and "other"

VARIABLES hcStage,   \* the step that enable() is at, its error, or "running"
          hcCaps,    \* the capabilities that enable() has yet to read
          hwOn,      \* the run bit
          hcStack,   \* calls of handle_interrupt and handle_port_status_change
          hcCommand, \* m_command_ring
          hcEvents,  \* m_event_ring
          hcDevices, \* m_devices: "none", "device" or "keyboard"
          hcControl, \* control transfers of each slot: asked, answered, seen by the driver
          hcStop,    \* the server has ended at an EXPECT or an ASSERT
          hwCommand, hwEvents,  \* the controller's positions in the two rings
          hwFree,    \* erst_dptr: where the controller must not post
          hwPending, \* EINT: it has posted since the driver last looked
          hwPorts,   \* ports that have yet to change their status
          hwSlots,   \* slots that it has given out
          plugged,   \* the kind of device at each port
          late       \* slots whose control transfers were given up

hcVars == <<hcStage, hcCaps, hwOn, hcStack, hcCommand, hcEvents, hcDevices, hcControl, hcStop, hwCommand,
            hwEvents, hwFree, hwPending, hwPorts, hwSlots, plugged, late>>
hwVars == <<hcCaps, hwOn, hwCommand, hwEvents, hwFree, hwPending, hwPorts, hwSlots, plugged>>
-----------------------------------------------------------------------------
UsbHostInit ==
    /\ hcStage = "halt" /\ hcCaps \in Caps /\ hwOn = FALSE /\ hcStack = <<>> /\ hcStop = "no" /\ late = {}
    /\ hcCommand = NewRing(TRUE) /\ hcEvents = NewRing(FALSE)
    /\ hcDevices = [s \in Slots |-> "none"]
    /\ hcControl = [s \in Slots |-> [asked |-> 0, answered |-> 0, seen |-> 0]]
    /\ hwCommand = HwStart /\ hwEvents = HwStart /\ hwFree = 0 /\ hwPending = FALSE
    /\ hwPorts = Ports /\ hwSlots = {} /\ plugged \in [Ports -> Kinds]

(* enable, step by step: halt, reset and wait until ready, check the page  *)
(* size and the addressing, allocate the rings, read the capabilities,     *)
(* enable interrupts, set the run bit and wait for the start.  The rings   *)
(* are the driver's, and the callback is set, only when all of it has      *)
(* succeeded; main then watches the file.                                  *)
EnableError == [halt |-> "HaltTimedOut", reset |-> "ResetTimedOut", ready |-> "ResetTimedOut",
                pageSize |-> "UnsupportedPageSize", addressing |-> "No64BitAddressing",
                rings |-> "ub_error_t", interrupts |-> "ub_error_t", start |-> "StartTimedOut"]

EnableNext == [halt |-> "reset", reset |-> "ready", ready |-> "pageSize", pageSize |-> "addressing",
               addressing |-> "rings", rings |-> "caps", interrupts |-> "start", start |-> "running"]

Enabling == <<hcStack, hcCommand, hcEvents, hcDevices, hcControl, hcStop, hwCommand, hwEvents,
              hwFree, hwPending, hwPorts, hwSlots, plugged, late>>

EnableStep ==
    /\ hcStage \in DOMAIN EnableNext
    /\ hcStage' \in {EnableNext[hcStage], EnableError[hcStage]}
    /\ hwOn' = (hcStage' = "start" \/ hwOn)
    /\ UNCHANGED <<hcCaps, Enabling>>

(* The loop over the capabilities: continue goes to its condition without  *)
(* advancing, so that a capability other than a protocol that is not the   *)
(* last one is read again and again.                                       *)
EnableCaps ==
    /\ hcStage = "caps"
    /\ Head(hcCaps) = "protocol" \/ Len(hcCaps) = 1
    /\ hcCaps' = Tail(hcCaps)
    /\ hcStage' = IF Len(hcCaps) = 1 THEN "interrupts" ELSE "caps"
    /\ UNCHANGED <<hwOn, Enabling>>

Running == hcStage = "running" /\ hcStop = "no"

Depth == Len(hcStack)

Top == hcStack[Depth]

Pop == SubSeq(hcStack, 1, Depth - 1)
-----------------------------------------------------------------------------
(* The controller.  It does not post where erst_dptr says that events are  *)
(* unread, and never laps events that an outer handle_interrupt has yet to *)
(* look at: those are fewer than the 256 TRBs of the ring.                 *)
Unread == UNION {{(f.from + i) % RingLength : i \in 0 .. f.left - 1} :
                   f \in {hcStack[d] : d \in {k \in DOMAIN hcStack : hcStack[k].call = "interrupt"}}}

CanPost == /\ (hwEvents.index + 1) % RingLength # hwFree
           /\ hwEvents.index \notin Unread

Post(type, tag) ==
    /\ CanPost
    /\ hcEvents' = [hcEvents EXCEPT !.trb[hwEvents.index] =
                        [Trb(type, FALSE, tag) EXCEPT !.cycle = hwEvents.cycle]]
    /\ hwEvents' = Posted(hwEvents)
    /\ hwPending' = TRUE

HwPortChange(p) ==
    /\ hwOn /\ hcStop = "no" /\ p \in hwPorts
    /\ Post("port", [port |-> p, good |-> TRUE])
    /\ hwPorts' = hwPorts \ {p}
    /\ UNCHANGED <<hcStage, hcCaps, hwOn, hcStack, hcCommand, hcDevices, hcControl, hcStop, hwCommand, hwFree,
                   hwSlots, plugged, late>>

(* A command is taken and completed; EnableSlot gives out a slot. *)
HwComplete(good) ==
    LET trb == hcCommand.trb[hwCommand.index]
        new == {s \in Slots \ hwSlots : \A x \in Slots \ hwSlots : s <= x}
        slot == IF trb.tag.step = "EnableSlot" /\ good THEN new ELSE {trb.tag.slot}
    IN  /\ Running /\ CanTake(hcCommand, hwCommand)
        /\ slot # {}
        /\ \E s \in slot :
             /\ Post("command", [index |-> hwCommand.index, for |-> trb.tag, slot |-> s, good |-> good])
             /\ hwSlots' = IF trb.tag.step = "EnableSlot" /\ good THEN hwSlots \cup slot ELSE hwSlots
        /\ hwCommand' = Taken(hwCommand)
        /\ UNCHANGED <<hcStage, hcCaps, hwOn, hcStack, hcCommand, hcDevices, hcControl, hcStop, hwFree, hwPorts,
                   plugged, late>>

HwLink ==
    /\ Running /\ CanLink(hcCommand, hwCommand)
    /\ hwCommand' = Linked(hwCommand)
    /\ UNCHANGED <<hcStage, hcCaps, hwOn, hcStack, hcCommand, hcEvents, hcDevices, hcControl, hcStop, hwEvents, hwFree,
                   hwPending, hwPorts, hwSlots, plugged, late>>

HwTransfer(s, good) ==
    /\ Running /\ hcControl[s].answered < hcControl[s].asked
    /\ Post("transfer", [slot |-> s, nr |-> hcControl[s].answered + 1, good |-> good])
    /\ hcControl' = [hcControl EXCEPT ![s].answered = @ + 1]
    /\ UNCHANGED <<hcStage, hcCaps, hwOn, hcStack, hcCommand, hcDevices, hcStop, hwCommand, hwFree, hwPorts,
                   hwSlots, plugged, late>>
-----------------------------------------------------------------------------
(* Device::read_configuration: the header tells how long the rest is. *)
ReadConfiguration == <<"ConfigHeader", "Configuration">>

(* What handle_port_status_change waits for, in this order *)
Steps == <<"EnableSlot", "AddressBlock", "PartialDescriptor", "Address", "Descriptor">>
         \o ReadConfiguration \o <<"SetConfiguration", "ConfigureEndpoint">>

Commands == {"EnableSlot", "AddressBlock", "Address", "ConfigureEndpoint"}

(* Ask for step i: send_command enqueues and rings the doorbell; so does   *)
(* send_control, with the stages of one transfer on the control ring.      *)
Ask(port, slot, i) ==
    IF Steps[i] \in Commands
    THEN [call |-> "port", port |-> port, slot |-> slot, step |-> i,
          nr |-> hcCommand.index, polls |-> Polls]
    ELSE [call |-> "port", port |-> port, slot |-> slot, step |-> i,
          nr |-> hcControl[slot].asked + 1, polls |-> Polls]

Sent(port, slot, i) ==
    IF Steps[i] \in Commands
    THEN /\ hcCommand' = Enqueue(hcCommand, Trb("command", FALSE,
                                   [port |-> port, slot |-> slot, step |-> Steps[i]]))
         /\ UNCHANGED hcControl
    ELSE /\ hcControl' = [hcControl EXCEPT ![slot].asked = @ + 1]
         /\ UNCHANGED hcCommand

(* handle_interrupt: read the file, and look at the ring when EINT is set *)
EnterInterrupt(stack) ==
    IF hwPending
    THEN LET d == Dequeue(hcEvents)
         IN  /\ hcStack' = Append(stack, [call |-> "interrupt", from |-> hcEvents.index, left |-> d.length])
             /\ hcEvents' = d.ring
             /\ hwPending' = FALSE
    ELSE hcStack' = stack /\ UNCHANGED <<hcEvents, hwPending>>

(* The event loop finds the file ready. *)
Interrupt ==
    /\ Running /\ hcStack = <<>> /\ hwPending
    /\ EnterInterrupt(hcStack)
    /\ UNCHANGED <<hcStage, hcCaps, hwOn, hcCommand, hcDevices, hcControl, hcStop, hwCommand, hwEvents, hwFree, hwPorts,
                   hwSlots, plugged, late>>

HandlingEvents == Running /\ Depth > 0 /\ Top.call = "interrupt"

Advanced == [Top EXCEPT !.from = @ + 1, !.left = @ - 1]

(* The command TRB that a completion is noted on *)
NoteOn(index) == index

(* One turn of handle_interrupt's loop.  The span of the events is not cut *)
(* at the end of the ring: an event beyond it is memory after the ring.    *)
HandleEvent ==
    LET e == hcEvents.trb[Top.from]
    IN  /\ HandlingEvents /\ Top.left > 0
        /\ CASE Top.from >= RingLength ->
                  hcStop' = "overrun" /\ UNCHANGED <<hcStack, hcCommand, hcDevices, hcControl>>
             [] Top.from < RingLength /\ ~e.tag.good ->
                  hcStack' = Append(Pop, Advanced) /\ UNCHANGED <<hcStop, hcCommand, hcDevices, hcControl>>
             [] Top.from < RingLength /\ e.tag.good /\ e.type = "command" ->
                  /\ hcCommand' = [hcCommand EXCEPT
                                     !.trb[NoteOn(e.tag.index)].done = TRUE,
                                     !.trb[NoteOn(e.tag.index)].tag.slot = e.tag.slot]
                  /\ hcStack' = Append(Pop, Advanced)
                  /\ UNCHANGED <<hcStop, hcDevices, hcControl>>
             [] Top.from < RingLength /\ e.tag.good /\ e.type = "transfer" ->
                  /\ IF hcDevices[e.tag.slot] = "none"
                     THEN hcStop' = "no device" /\ UNCHANGED hcControl
                     ELSE hcControl' = [hcControl EXCEPT ![e.tag.slot].seen = e.tag.nr] /\ UNCHANGED hcStop
                  /\ hcStack' = Append(Pop, Advanced)
                  /\ UNCHANGED <<hcCommand, hcDevices>>
             [] Top.from < RingLength /\ e.tag.good /\ e.type = "port" ->
                  /\ hcStack' = Pop \o <<Advanced, Ask(e.tag.port, 0, 1)>>
                  /\ Sent(e.tag.port, 0, 1)
                  /\ UNCHANGED <<hcStop, hcDevices>>
        /\ UNCHANGED <<hcStage, hcEvents, hwVars, late>>

(* The end of handle_interrupt gives the controller the ring's head. *)
LeaveInterrupt ==
    /\ HandlingEvents /\ Top.left = 0
    /\ hcStack' = Pop
    /\ hwFree' = hcEvents.index
    /\ UNCHANGED <<hcStage, hcCaps, hwOn, hcCommand, hcEvents, hcDevices, hcControl, hcStop, hwCommand, hwEvents,
                   hwPending, hwPorts, hwSlots, plugged, late>>
-----------------------------------------------------------------------------
Waiting == Running /\ Depth > 0 /\ Top.call = "port"

Answered ==
    IF Steps[Top.step] \in Commands THEN hcCommand.trb[Top.nr].done
    ELSE hcControl[Top.slot].seen >= Top.nr

Slot == IF Steps[Top.step] = "EnableSlot" THEN hcCommand.trb[Top.nr].tag.slot ELSE Top.slot

(* What the driver finds wrong once step i is answered: an unsupported     *)
(* speed in Device::setup, a short descriptor, a class or an interface     *)
(* without a driver                                                        *)
Rejects(port, i) ==
    \/ Steps[i] = "EnableSlot" /\ plugged[port] = "fast"
    \/ Steps[i] = "Address" /\ plugged[port] = "bad"
    \/ Steps[i] = "Descriptor" /\ plugged[port] = "hub"
    \/ Steps[i] = "Configuration" /\ plugged[port] = "mouse"

(* destroy_guard covers the steps from AddressBlock to Configuration. *)
Guarded(i) == Steps[i] \notin {"EnableSlot", "SetConfiguration", "ConfigureEndpoint"}

(* Fault: the device is moved away and no keyboard is put in its place. *)
GoOnMovedAway ==
    /\ Waiting /\ Answered
    /\ LET i == Top.step
           reject == Rejects(Top.port, i)
       IN  /\ hcDevices' = [hcDevices EXCEPT ![Slot] =
                               IF Steps[i] = "EnableSlot" THEN "device"
                               ELSE IF Steps[i] = "Configuration" THEN "none" ELSE @]
           /\ IF reject \/ i = Len(Steps)
              THEN hcStack' = Pop /\ UNCHANGED <<hcCommand, hcControl>>
              ELSE hcStack' = Append(Pop, Ask(Top.port, Slot, i + 1)) /\ Sent(Top.port, Slot, i + 1)
    /\ UNCHANGED <<hcStage, hcEvents, hcStop, hwVars, late>>

(* The enumeration goes on: the device is made with its slot, becomes a    *)
(* keyboard after its configuration is known, and is done at the end.      *)
GoOn ==
    /\ Waiting /\ Answered
    /\ LET i == Top.step
           reject == Rejects(Top.port, i)
       IN  /\ hcDevices' = [hcDevices EXCEPT ![Slot] =
                               IF reject /\ Guarded(i) THEN "none"
                               ELSE IF Steps[i] = "EnableSlot" THEN "device"
                               ELSE IF Steps[i] = "Configuration" THEN "keyboard" ELSE @]
           /\ IF reject \/ i = Len(Steps)
              THEN hcStack' = Pop /\ UNCHANGED <<hcCommand, hcControl>>
              ELSE hcStack' = Append(Pop, Ask(Top.port, Slot, i + 1)) /\ Sent(Top.port, Slot, i + 1)
    /\ UNCHANGED <<hcStage, hcEvents, hcStop, hwVars, late>>

(* CommandTimedOut and TransferTimedOut; input_endpoint.setup is EXPECTed. *)
GiveUp ==
    /\ Waiting /\ ~Answered /\ Top.polls = 0
    /\ hcStack' = Pop
    /\ hcStop' = IF Steps[Top.step] = "ConfigureEndpoint" THEN "expect" ELSE hcStop
    /\ hcDevices' = [s \in Slots |-> IF s = Top.slot /\ Guarded(Top.step) THEN "none" ELSE hcDevices[s]]
    /\ late' = IF Steps[Top.step] \in Commands THEN late ELSE late \cup {Top.slot}
    /\ UNCHANGED <<hcStage, hcCommand, hcEvents, hcControl, hwVars>>

(* One more turn: handle_interrupt and a sleep *)
Poll ==
    /\ Waiting /\ ~Answered /\ Top.polls > 0
    /\ EnterInterrupt(Append(Pop, [Top EXCEPT !.polls = @ - 1]))
    /\ UNCHANGED <<hcStage, hcCaps, hwOn, hcCommand, hcDevices, hcControl, hcStop, hwCommand, hwEvents, hwFree, hwPorts,
                   hwSlots, plugged, late>>

UsbHostNext ==
    \/ EnableStep \/ EnableCaps
    \/ \E p \in Ports : HwPortChange(p)
    \/ \E good \in BOOLEAN : HwComplete(good) \/ \E s \in Slots : HwTransfer(s, good)
    \/ HwLink \/ Interrupt \/ HandleEvent \/ LeaveInterrupt \/ GoOn \/ GiveUp \/ Poll

UsbHostSpec == UsbHostInit /\ [][UsbHostNext]_hcVars
-----------------------------------------------------------------------------
(* Positions of events that no dequeue has reached *)
Ahead == {i \in 0 .. RingLength - 1 :
            /\ hcEvents.index # hwEvents.index \/ hcEvents.cycle # hwEvents.cycle
            /\ IF hcEvents.cycle = hwEvents.cycle THEN hcEvents.index <= i /\ i < hwEvents.index
               ELSE hcEvents.index <= i \/ i < hwEvents.index}

Answers(e, f) ==
    IF Steps[f.step] \in Commands
    THEN e.type = "command" /\ e.tag.good /\ e.tag.for = [port |-> f.port, slot |-> f.slot, step |-> Steps[f.step]]
    ELSE e.type = "transfer" /\ e.tag.good /\ e.tag.slot = f.slot /\ e.tag.nr = f.nr

(* An answer that the controller has given and the driver has taken off    *)
(* the event ring reaches the call that waits for it: it is neither passed *)
(* over, nor noted elsewhere, nor left with an outer handle_interrupt,     *)
(* which cannot go on before the waiting call returns.                     *)
AnswersReachWaiters ==
    Waiting /\ ~Answered => \A i \in 0 .. RingLength - 1 : Answers(hcEvents.trb[i], Top) => i \in Ahead

(* A transfer event is for a device that exists; the only exception is a   *)
(* late answer to a transfer that was given up.                            *)
EventsForLiveDevices == hcStop = "no device" => late # {}

=============================================================================
