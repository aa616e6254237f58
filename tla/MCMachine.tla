----------------------------- MODULE MCMachine ------------------------------
(***************************************************************************)
(* Physical and virtual memory, booting, PCI, the log and the screen,      *)
(* in one state space.  The parts share nothing in these models: part says *)
(* which of them a behaviour is about, and the others stay as they begin.  *)
(***************************************************************************)
EXTENDS MCFrameAllocator, Heap, AddressSpace, Boot, Pci, Dmesg, LineEditor, TextEditor

VARIABLE part

(* The volume's root: the kernel, a directory and one more file, in any    *)
(* order; maps with much, little and too little memory.                    *)
Name(first, rest) == [first |-> first, rest |-> rest]
File(first, rest) == [name |-> Name(first, rest), dir |-> FALSE]
Directory(first, rest, entries) == [name |-> Name(first, rest), dir |-> TRUE, entries |-> entries]

Root == {File("k", "ernel"), File("k", "eys"),
         Directory("b", "in", <<File(".", ""), File("s", "hell"), Directory("x", "", <<File("c", "at")>>)>>)}
MCVolumes == {v \in [1 .. 3 -> Root] : \A i, j \in 1 .. 3 : i # j => v[i] # v[j]}

Piece(type, pages) == [type |-> type, pages |-> pages, owner |-> "none"]
MCMaps == {<<Piece("Conventional", 5), Piece("BootServices", 2), Piece("Conventional", 8), Piece("Reserved", 1)>>,
           <<Piece("Conventional", 3), Piece("Reserved", 1), Piece("Conventional", 9)>>,
           <<Piece("Conventional", 1), Piece("Reserved", 1), Piece("Conventional", 9)>>,
           <<Piece("Conventional", 4), Piece("Reserved", 1)>>}

(* A function with message-signalled interrupts of each kind, and one on a *)
(* bus that enumerate does not reach.                                      *)
Register(base, size, flags) == [base |-> base, size |-> size, flags |-> flags]
MCFunctions ==
    [usb |-> [bus |-> 0,
              caps |-> <<[kind |-> "power"], [kind |-> "msix", bir |-> 1, offset |-> 8, length |-> 3]>>,
              registers |-> <<Register(4096, 512, 4), Register(32, 16, 0)>>],
     old |-> [bus |-> 1,
              caps |-> <<[kind |-> "msi"], [kind |-> "msix", bir |-> 1, offset |-> 0, length |-> 1]>>,
              registers |-> <<Register(64, 64, 0), Register(0, 0, 0)>>],
     far |-> [bus |-> 2, caps |-> <<>>, registers |-> <<>>]]

MCPrompt == <<"#">>
-----------------------------------------------------------------------------
(* The console with a shell that edits a line, or that has just been told  *)
(* to start the text editor                                                *)
screenVars == <<ttyVars, edVars, teVars>>

TeTyped == [buffer |-> <<>>, cursor |-> 0, history |-> <<<<"t">>>>, pos |-> 1, running |-> TRUE, mid |-> FALSE]

TtyInit ==
    /\ TextEditorInit
    /\ \/ ConsoleInit(BeginLine) /\ LineEditorInit
       \/ part = "screen" /\ ConsoleInit(BeginLine \o <<"t", "nl">>) /\ ed = TeTyped

TtyNext ==
    \/ te.on = "no" /\ LineEditorNext /\ UNCHANGED teVars
    \/ ConsoleNext /\ UNCHANGED <<edVars, teVars>>
    \/ ttyOut = <<>> /\ te.on # "yes" /\ CommandEnds /\ UNCHANGED teVars
    \/ ed = TeTyped /\ ttyOut = <<>> /\ StartEditor /\ UNCHANGED edVars
    \/ TextEditorNext /\ UNCHANGED edVars
    \/ \E save \in BOOLEAN : QuitEditor(save) /\ UNCHANGED edVars
-----------------------------------------------------------------------------
(* What a behaviour does not look at starts in one way. *)
Only(name, fixed) == part = name \/ fixed

MCInit ==
    /\ part \in {"frames", "heap", "space", "boot", "pci", "log", "screen"}
    /\ FrameInit /\ Only("frames", map = CHOOSE m \in Maps : TRUE)
    /\ BootInit /\ Only("boot", btVolume = CHOOSE v \in Volumes : TRUE)
                /\ Only("boot", btMemory = CHOOSE m \in FirmwareMaps : TRUE)
    /\ HeapInit /\ AddressSpaceInit /\ PciInit /\ DmesgInit /\ TtyInit

MCNext ==
    \/ part = "frames" /\ FrameNext /\ UNCHANGED <<heapVars, asVars, btVars, pcVars, dmVars, screenVars, part>>
    \/ part = "heap" /\ HeapNext /\ UNCHANGED <<frameVars, asVars, btVars, pcVars, dmVars, screenVars, part>>
    \/ part = "space" /\ AddressSpaceNext /\ UNCHANGED <<frameVars, heapVars, btVars, pcVars, dmVars, screenVars, part>>
    \/ part = "boot" /\ BootNext /\ UNCHANGED <<frameVars, heapVars, asVars, pcVars, dmVars, screenVars, part>>
    \/ part = "pci" /\ PciNext /\ UNCHANGED <<frameVars, heapVars, asVars, btVars, dmVars, screenVars, part>>
    \/ part = "log" /\ DmesgNext /\ UNCHANGED <<frameVars, heapVars, asVars, btVars, pcVars, screenVars, part>>
    \/ part = "screen" /\ TtyNext /\ UNCHANGED <<frameVars, heapVars, asVars, btVars, pcVars, dmVars, part>>

MCSpec ==
    MCInit /\ [][MCNext]_<<frameVars, heapVars, asVars, btVars, pcVars, dmVars, screenVars, part>>
=============================================================================
