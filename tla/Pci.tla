-------------------------------- MODULE Pci ---------------------------------
(***************************************************************************)
(* PCI functions and their interrupts: kernel/pci/enumerate.cc and         *)
(* function.cc, the vectors of kernel/intr/interrupt_manager.cc, and the   *)
(* way of an interrupt from the device to the driver that polls the        *)
(* function's file (HostController::handle_interrupt).                     *)
(*                                                                         *)
(* Registers are 8 bits wide (32 in reality) with the 4 low bits of an     *)
(* address register for its flags; a wide register takes two.              *)
(***************************************************************************)
EXTENDS Integers, Sequences

CONSTANTS Functions,   \* the functions: bus, capabilities, address registers, driver
          StartBus, EndBus, \* of the segment
          FirstVector, Vectors, \* s_current_vector at the start; how many vectors there are
          KernelVectors,\* vectors that bsp_init and the scheduler have wired
          MaxEvents     \* bound: events that a device produces

VARIABLES pcBars,     \* m_bars of the functions that were found
          pcVector,   \* s_current_vector
          pcHandlers, \* s_interrupt_table and s_custom_handlers
          pcMemory,   \* messages in MSI-X tables, by their address
          pcPending,  \* m_interrupt_pending
          pcHw,       \* the devices: MSI message, events, flags, messages on their way
          pcDriver    \* the drivers

pcVars == <<pcBars, pcVector, pcHandlers, pcMemory, pcPending, pcHw, pcDriver>>

PciInit ==
    /\ pcBars = [f \in {} |-> <<>>]
    /\ pcVector = FirstVector
    /\ pcHandlers = [v \in 0 .. Vectors - 1 |-> IF v \in KernelVectors THEN "kernel" ELSE "unhandled"]
    /\ pcMemory = [a \in {} |-> 0]
    /\ pcPending = [f \in DOMAIN Functions |-> FALSE]
    /\ pcHw = [f \in DOMAIN Functions |->
                  [on |-> FALSE, msi |-> -1, msix |-> FALSE, left |-> MaxEvents, events |-> 0,
                   busy |-> FALSE, eint |-> FALSE, flight |-> 0]]
    /\ pcDriver = [f \in DOMAIN Functions |-> "off"]
-----------------------------------------------------------------------------
Found(f) == f \in DOMAIN pcBars

(* enumerate: end_bus - start_bus buses from bus 0 *)
Reached(f) == Functions[f].bus < (EndBus - StartBus)

(* What a register of the function reads, and reads after all ones. *)
Registers(f) == Functions[f].registers
Lower(r) == (r.base % 256) + r.flags
LowerOnes(r) == IF r.size = 0 THEN 0 ELSE ((65536 - r.size) % 256) + r.flags
Upper(r) == r.base \div 256
UpperOnes(r) == IF r.size = 0 THEN 0 ELSE (65536 - r.size) \div 256

IsWide(value) == (value \div 2) % 4 = 2
ClearFlags(value) == value - (value % 16)

(* Function::Function: address and size of one address register *)
Bar(r) ==
    LET wide == IsWide(Lower(r))
        size == (65536 - ClearFlags(LowerOnes(r) + (IF wide THEN 256 * UpperOnes(r) ELSE 0))) % 65536
    IN  [address |-> ClearFlags(Lower(r) + (IF wide THEN 256 * Upper(r) ELSE 0)),
         size    |-> IF wide THEN size ELSE size % 256]

Enumerate ==
    /\ DOMAIN pcBars = {}
    /\ pcBars' = [f \in {g \in DOMAIN Functions : Reached(g)} |->
                     [i \in DOMAIN Registers(f) |-> Bar(Registers(f)[i])]]
    /\ UNCHANGED <<pcVector, pcHandlers, pcMemory, pcPending, pcHw, pcDriver>>

(* Fault: the vector counter does not move on. *)
AllocateSame(f, n) ==
    /\ pcVector' = pcVector
    /\ pcHandlers' = [pcHandlers EXCEPT ![pcVector] = f]

(* InterruptManager::allocate, n times *)
AllocateVectors(f, n) ==
    LET taken == {(pcVector + i) % Vectors : i \in 0 .. n - 1}
    IN  /\ pcVector' = (pcVector + n) % Vectors
        /\ pcHandlers' = [v \in DOMAIN pcHandlers |-> IF v \in taken THEN f ELSE pcHandlers[v]]

(* enumerate_capabilities up to the first that the callback handles *)
Capability(f) ==
    LET caps == Functions[f].caps
        known == {i \in DOMAIN caps : caps[i].kind \in {"msi", "msix"}}
    IN  IF known = {} THEN [kind |-> "none"]
        ELSE caps[CHOOSE i \in known : \A j \in known : i <= j]

(* Function::ioctl: the device is enabled, then its interrupts. *)
EnableDevice(f) ==
    /\ Found(f) /\ pcDriver[f] = "off"
    /\ pcDriver' = [pcDriver EXCEPT ![f] = "enabled"]
    /\ UNCHANGED <<pcBars, pcVector, pcHandlers, pcMemory, pcPending, pcHw>>

EnableMsi(f) ==
    /\ pcDriver[f] = "enabled" /\ Capability(f).kind = "msi"
    /\ AllocateVectors(f, 1)
    /\ pcHw' = [pcHw EXCEPT ![f].msi = pcVector, ![f].on = TRUE]
    /\ pcDriver' = [pcDriver EXCEPT ![f] = "poll"]
    /\ UNCHANGED <<pcBars, pcMemory, pcPending>>

(* The table is where the function's address register says; the device     *)
(* uses its first entry.                                                   *)
EnableMsix(f) ==
    LET cap == Capability(f)
        table == pcBars[f][cap.bir].address + cap.offset
    IN  /\ pcDriver[f] = "enabled" /\ Capability(f).kind = "msix"
        /\ AllocateVectors(f, cap.length)
        /\ pcMemory' = [a \in DOMAIN pcMemory \cup {table} |->
                           IF a = table THEN pcVector ELSE pcMemory[a]]
        /\ pcHw' = [pcHw EXCEPT ![f].msix = TRUE, ![f].on = TRUE]
        /\ pcDriver' = [pcDriver EXCEPT ![f] = "poll"]
        /\ UNCHANGED <<pcBars, pcPending>>
-----------------------------------------------------------------------------
(* The device: an event, a message if the last one has been dealt with *)
Signal(hw) == [hw EXCEPT !.eint = TRUE, !.busy = TRUE, !.flight = @ + 1]

HwEvent(f) ==
    LET more == [pcHw[f] EXCEPT !.events = @ + 1, !.left = @ - 1]
    IN  /\ pcHw[f].on /\ pcHw[f].left > 0
        /\ pcHw' = [pcHw EXCEPT ![f] = IF more.busy THEN more ELSE Signal(more)]
        /\ UNCHANGED <<pcBars, pcVector, pcHandlers, pcMemory, pcPending, pcDriver>>

(* Where the device finds its message *)
Message(f) ==
    LET cap == Capability(f)
        table == Registers(f)[cap.bir].base + cap.offset
    IN  IF pcHw[f].msi # -1 THEN pcHw[f].msi
        ELSE IF table \in DOMAIN pcMemory THEN pcMemory[table] ELSE -1

(* A CPU takes the interrupt: irq_handler of the vector's function. *)
HwInterrupt(f) ==
    /\ pcHw[f].flight > 0
    /\ pcPending' = [g \in DOMAIN pcPending |->
                        pcPending[g] \/ (Message(f) # -1 /\ pcHandlers[Message(f)] = g)]
    /\ pcHw' = [pcHw EXCEPT ![f].flight = @ - 1]
    /\ UNCHANGED <<pcBars, pcVector, pcHandlers, pcMemory, pcDriver>>
-----------------------------------------------------------------------------
(* The event loop: write_would_block is !m_interrupt_pending. *)
Wake(f) ==
    /\ pcDriver[f] = "poll" /\ pcPending[f]
    /\ pcDriver' = [pcDriver EXCEPT ![f] = "read"]
    /\ UNCHANGED <<pcBars, pcVector, pcHandlers, pcMemory, pcPending, pcHw>>

(* A command's wait calls handle_interrupt without having been woken. *)
CallHandler(f) ==
    /\ pcDriver[f] = "poll" /\ ~pcPending[f]
    /\ pcDriver' = [pcDriver EXCEPT ![f] = "read"]
    /\ UNCHANGED <<pcBars, pcVector, pcHandlers, pcMemory, pcPending, pcHw>>

Drive(f, from, to, hw) ==
    /\ pcDriver[f] = from
    /\ pcDriver' = [pcDriver EXCEPT ![f] = to]
    /\ pcHw' = [pcHw EXCEPT ![f] = hw]
    /\ UNCHANGED <<pcBars, pcVector, pcHandlers, pcMemory>>

(* handle_interrupt: Function::read clears the flag, *)
ReadFunction(f) == Drive(f, "read", "status", pcHw[f]) /\ pcPending' = [pcPending EXCEPT ![f] = FALSE]

(* the status says whether there is anything to do and is cleared, *)
ReadStatus(f) == /\ Drive(f, "status", IF pcHw[f].eint THEN "dequeue" ELSE "poll", [pcHw[f] EXCEPT !.eint = FALSE])
                 /\ UNCHANGED pcPending

(* the events are taken, *)
DequeueEvents(f) == Drive(f, "dequeue", "pointer", [pcHw[f] EXCEPT !.events = 0]) /\ UNCHANGED pcPending

(* and the pointer is written, which lets the device signal again. *)
WritePointer(f) ==
    LET idle == [pcHw[f] EXCEPT !.busy = FALSE]
    IN  Drive(f, "pointer", "poll", IF idle.events > 0 THEN Signal(idle) ELSE idle) /\ UNCHANGED pcPending

PciNext ==
    \/ Enumerate
    \/ \E f \in DOMAIN Functions :
         \/ EnableDevice(f) \/ EnableMsi(f) \/ EnableMsix(f) \/ HwEvent(f) \/ HwInterrupt(f)
         \/ Wake(f) \/ CallHandler(f) \/ ReadFunction(f) \/ ReadStatus(f)
         \/ DequeueEvents(f) \/ WritePointer(f)

PciSpec == PciInit /\ [][PciNext]_pcVars
-----------------------------------------------------------------------------
(* No event of a device is forgotten: while one waits, a message is on its *)
(* way, the function's file is ready, or the driver is about to look.      *)
(* The driver also calls its handler on its own while messages are on      *)
(* their way, and devices must not be given each other's vectors.          *)
NoEventForgotten ==
    \A f \in DOMAIN Functions : pcHw[f].events > 0 =>
        \/ pcHw[f].flight > 0 /\ Message(f) # -1 /\ pcHandlers[Message(f)] = f
        \/ pcPending[f]
        \/ pcDriver[f] \in {"read", "status", "dequeue", "pointer"}

=============================================================================
