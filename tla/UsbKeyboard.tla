---------------------------- MODULE UsbKeyboard -----------------------------
(***************************************************************************)
(* servers/usb/keyboard_device.cc and the part of handle_interrupt that    *)
(* serves it: reports come through a transfer ring that is armed once and  *)
(* then re-armed by flipping cycle bits, all into one DMA buffer; poll()   *)
(* turns a report into key events, a timer repeats the last key.           *)
(*                                                                         *)
(* The controller (external) follows the link TRB together with the TRB    *)
(* before it: a driver that re-arms the link before it was followed would  *)
(* stop the ring.                                                          *)
(***************************************************************************)
EXTENDS TrbRing

CONSTANTS Keys,       \* bound: key codes that are pressed; 0 is no key
          KeySlots,   \* keys in a report (6)
          Modifiers,  \* bound: bits of the modifier byte
          Shift, Delays

VARIABLES kbRing,   \* the endpoint's transfer ring
          kbHw,     \* the controller's position in it
          kbEvents, \* transfer events, in order, that are not handled yet
          kbDma,    \* m_dma_buffer: the last report
          kbCmp,    \* m_cmp_buffer: the report that poll() saw last
          kbMods,   \* m_modifiers
          kbLast,   \* m_last_code
          kbDelay,  \* m_repeat_delay
          kbWrote,  \* the key events of the last step: code, shift table, repeated
          kbDown    \* keys that the readers of /dev/kb take to be down

kbVars == <<kbRing, kbHw, kbEvents, kbDma, kbCmp, kbMods, kbLast, kbDelay, kbWrote, kbDown>>

NoReport == [mods |-> {}, keys |-> [i \in 1 .. KeySlots |-> 0]]

Reports == [mods : SUBSET Modifiers, keys : [1 .. KeySlots -> Keys \cup {0}]]

PressedIn(report) == {report.keys[i] : i \in 1 .. KeySlots}

(* enable: an input endpoint whose ring is filled up to the link TRB *)
Filled == LET f[n \in 0 .. RingLength - 1] ==
                  IF n = 0 THEN NewRing(TRUE) ELSE Enqueue(f[n - 1], Trb("normal", FALSE, 0))
          IN  f[RingLength - 1]

UsbKeyboardInit ==
    /\ kbRing = Filled /\ kbHw = HwStart /\ kbEvents = <<>>
    /\ kbDma = NoReport /\ kbCmp = NoReport /\ kbMods = {} /\ kbLast = 0
    /\ kbDelay = 400 /\ kbWrote = <<>> /\ kbDown = {}

(* A report arrives when the controller owns the next TRB. *)
HwReport(report) ==
    LET next == Taken(kbHw)
    IN  /\ CanTake(kbRing, kbHw) /\ report # kbDma
        /\ \A i, k \in 1 .. KeySlots : i # k /\ report.keys[i] # 0 => report.keys[i] # report.keys[k]
        /\ kbDma' = report
        /\ kbEvents' = Append(kbEvents, kbHw.index)
        /\ kbHw' = IF CanLink(kbRing, next) THEN Linked(next) ELSE next
        /\ UNCHANGED <<kbRing, kbCmp, kbMods, kbLast, kbDelay, kbWrote, kbDown>>

(* handle_interrupt on a Normal TRB: flip its cycle bit, and the link's *)
Rearm(index) ==
    LET flipped == [kbRing EXCEPT !.trb[index].cycle = ~@]
    IN  IF index < RingLength - 1 /\ kbRing.trb[index + 1].type = "link"
        THEN [flipped EXCEPT !.trb[index + 1].cycle = ~@] ELSE flipped

(* The keys of the report that poll() finds new, in the report's order.    *)
(* An empty place counts as the key 0, which is new when all places of the *)
(* report before were taken.                                               *)
NewKeys == SelectSeq([i \in 1 .. KeySlots |-> kbDma.keys[i]],
                     LAMBDA k : k \notin PressedIn(kbCmp))

Event(key, mods, repeated) == [key |-> key, shift |-> Shift \in mods, repeated |-> repeated]


(* poll; a modifier stays on for one report after it was let go. *)
KeyboardPoll ==
    LET mods == kbDma.mods \cup kbCmp.mods
    IN  /\ kbMods' = mods
        /\ kbWrote' = [i \in DOMAIN NewKeys |-> Event(NewKeys[i], mods, FALSE)]
        /\ kbLast' = IF NewKeys = <<>> THEN kbLast ELSE NewKeys[Len(NewKeys)]
        /\ kbCmp' = kbDma
        /\ kbDown' = (kbDown \cup {NewKeys[i] : i \in DOMAIN NewKeys}) \cap PressedIn(kbDma)

HandleReport ==
    /\ kbEvents # <<>>
    /\ kbEvents' = Tail(kbEvents)
    /\ kbRing' = Rearm(Head(kbEvents))
    /\ KeyboardPoll
    /\ UNCHANGED <<kbHw, kbDma, kbDelay>>

(* m_repeat_timer fires, the repeat delay since the last key having passed or not *)
RepeatTimer(passed) ==
    /\ kbLast # 0 /\ kbLast \in PressedIn(kbCmp) /\ passed
    /\ kbWrote' = <<Event(kbLast, kbMods, TRUE)>>
    /\ UNCHANGED <<kbRing, kbHw, kbEvents, kbDma, kbCmp, kbMods, kbLast, kbDelay, kbDown>>

(* The watches on keyboard.repeat_delay and keyboard.repeat_rate *)
SetRepeat(delay) ==
    /\ kbDelay' = IF delay \in Nat THEN delay ELSE 400
    /\ UNCHANGED <<kbRing, kbHw, kbEvents, kbDma, kbCmp, kbMods, kbLast, kbWrote, kbDown>>

UsbKeyboardNext ==
    \/ \E r \in Reports : HwReport(r)
    \/ HandleReport
    \/ \E passed \in BOOLEAN : RepeatTimer(passed)
    \/ \E d \in Delays : SetRepeat(d)

UsbKeyboardSpec == UsbKeyboardInit /\ [][UsbKeyboardNext]_kbVars
-----------------------------------------------------------------------------
=============================================================================
