-------------------------------- MODULE MCIo --------------------------------
(***************************************************************************)
(* Buffers between processes, the USB host and keyboard, and files,        *)
(* in one state space.  The parts share nothing in these models: part says *)
(* which of them a behaviour is about, and the others stay as they begin.  *)
(***************************************************************************)
EXTENDS DoubleBuffer, UsbHost, UsbKeyboard, Vfs

VARIABLE part

(* A list of capabilities that ends with a protocol, and one whose first   *)
(* entry is something else                                                 *)
UsbCaps == {<<"protocol">>, <<"other", "protocol">>}

(* A file in the root, one in a directory that may come to be, a device,   *)
(* and a mount that hides the first                                        *)
MCPaths == {[abs |-> TRUE, parts |-> <<"a">>], [abs |-> FALSE, parts |-> <<"..", "a", "b">>],
            [abs |-> TRUE, parts |-> <<"dev", "k">>]}
MCMounts == {[abs |-> TRUE, parts |-> <<"a">>]}
-----------------------------------------------------------------------------
(* What a behaviour does not look at starts in one way. *)
Only(name, fixed) == part = name \/ fixed

MCInit ==
    /\ part \in {"buffer", "usb", "keyboard", "files"}
    /\ UsbHostInit /\ Only("usb", hcCaps = <<"protocol">>)
                   /\ plugged[1] = "keyboard" /\ Only("usb", plugged[2] = "keyboard")
    /\ Init /\ UsbKeyboardInit /\ VfsInit

MCNext ==
    \/ part = "buffer" /\ Next /\ UNCHANGED <<hcVars, kbVars, vfsVars, part>>
    \/ part = "usb" /\ UsbHostNext /\ UNCHANGED <<vars, kbVars, vfsVars, part>>
    \/ part = "keyboard" /\ UsbKeyboardNext /\ UNCHANGED <<vars, hcVars, vfsVars, part>>
    \/ part = "files" /\ VfsNext /\ UNCHANGED <<vars, hcVars, kbVars, part>>

MCSpec ==
    MCInit /\ [][MCNext]_<<vars, hcVars, kbVars, vfsVars, part>>
=============================================================================
