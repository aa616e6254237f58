------------------------------- MODULE Socket -------------------------------
(***************************************************************************)
(* Sockets: kernel/ipc/socket.cc, kernel/ipc/server_socket.cc and the      *)
(* system calls that connect, accept, read, write and close them.          *)
(*                                                                         *)
(* A connection has two DoubleBuffers and two Socket objects that refer to *)
(* them.  Nothing records whether a peer is there: a buffer with two       *)
(* references is taken to have one.  The references are counted one at a   *)
(* time, and so they are acquired and dropped one at a time here.          *)
(*                                                                         *)
(* A process has one thread and opens each end of a connection once.  The  *)
(* server socket is bound to an inode and outlives its processes.          *)
(***************************************************************************)
EXTENDS BufferCounts, Sequences, FiniteSets

CONSTANTS Server,   \* processes that share the descriptor of the server socket
          Client,   \* processes that connect to it
          Conn,     \* every connection there will ever be
          Backlog,  \* backlog_limit, the capacity of m_connection_queue
          None      \* no process

Proc == Server \cup Client
Side == {"client", "server"}
End == Conn \X Side
Peer(s) == IF s = "client" THEN "server" ELSE "client"

(* The two DoubleBuffers, named after the side that reads from them *)
ReadBuffer(s) == s
WriteBuffer(s) == Peer(s)

ASSUME SocketAssumption ==
    /\ Server \cap Client = {}
    /\ Backlog \in Nat
    /\ None \notin Proc \cup End

VARIABLES state,    \* state[p]: where p is in its system call
          arg,      \* arg[p]: the end of a connection the call works on
          queue,    \* m_connection_queue
          owner,    \* owner[e]: the process with a handle on end e
          holders,  \* holders[e]: who has a reference to the Socket of end e
          links,    \* links[e]: the buffers the Socket of end e refers to
          buffer,   \* buffer[k]: the DoubleBuffers of connection k
          closed    \* history: ends that were closed

vars == <<state, arg, queue, owner, holders, links, buffer, closed>>

Init ==
    /\ state = [p \in Proc |-> "user"]
    /\ arg = [p \in Proc |-> None]
    /\ queue = <<>>
    /\ owner = [e \in End |-> None]
    /\ holders = [e \in End |-> {}]
    /\ links = [e \in End |-> {}]
    /\ buffer = [k \in Conn |-> [s \in Side |-> NewBuffer]]
    /\ closed = {}
-----------------------------------------------------------------------------
Goto(p, s) == state' = [state EXCEPT ![p] = s]
On(p, e) == arg' = [arg EXCEPT ![p] = e]
Used(k) == holders[<<k, "client">>] # {} \/ <<k, "client">> \in closed
Mine(p) == buffer[arg[p][1]][ReadBuffer(arg[p][2])]
Theirs(p) == buffer[arg[p][1]][WriteBuffer(arg[p][2])]

(* ref_count() of buffer b of connection k *)
RefCount(k, b) == Cardinality({s \in Side : b \in links[<<k, s>>]})

(* Fault: the buffer that accept refers to first is looked at. *)
ConnectedByWrite(k, s) == RefCount(k, WriteBuffer(s)) = 2

(* Socket::connected *)
Connected(k, s) == RefCount(k, ReadBuffer(s)) = 2

(* Fault: only the buffer is looked at. *)
ReadWouldBlockEmpty(e) == IsEmpty(buffer[e[1]][ReadBuffer(e[2])])

(* Socket::read_would_block and Socket::write_would_block on end e *)
ReadWouldBlock(e) ==
    RefCount(e[1], ReadBuffer(e[2])) = 2 /\ IsEmpty(buffer[e[1]][ReadBuffer(e[2])])
WriteWouldBlock(e) ==
    RefCount(e[1], WriteBuffer(e[2])) = 2 /\ IsFull(buffer[e[1]][WriteBuffer(e[2])])
-----------------------------------------------------------------------------
(* ServerSocket::queue_connection_from, which may find the queue full *)
QueueConnectionFrom(k) ==
    /\ ~(Len(queue) + 1 >= Backlog)
    /\ queue' = Append(queue, k)

AcceptWouldBlock == queue = <<>>

(* sys_connect: a Socket with two new buffers is queued; nothing is left   *)
(* of it when there is no room                                             *)
Connect(p, k) ==
    /\ state[p] = "user" /\ ~Used(k)
    /\ QueueConnectionFrom(k)
    /\ holders' = [holders EXCEPT ![<<k, "client">>] = {"handle", "queue"}]
    /\ links' = [links EXCEPT ![<<k, "client">>] = Side]
    /\ On(p, <<k, "client">>)
    /\ Goto(p, "connect_wait")
    /\ UNCHANGED <<owner, buffer, closed>>

(* ConnectBlocker::should_unblock; sys_connect returns a descriptor *)
ConnectWake(p) ==
    /\ state[p] = "connect_wait" /\ Connected(arg[p][1], "client")
    /\ owner' = [owner EXCEPT ![arg[p]] = p]
    /\ On(p, None)
    /\ Goto(p, "user")
    /\ UNCHANGED <<queue, holders, links, buffer, closed>>

(* sys_accept: accept_would_block *)
AcceptCheck(p) ==
    /\ state[p] = "user"
    /\ Goto(p, IF AcceptWouldBlock THEN "accept_wait" ELSE "accept_go")
    /\ UNCHANGED <<arg, queue, owner, holders, links, buffer, closed>>

(* AcceptBlocker::should_unblock *)
AcceptWake(p) ==
    /\ state[p] = "accept_wait" /\ ~AcceptWouldBlock
    /\ Goto(p, "accept_go")
    /\ UNCHANGED <<arg, queue, owner, holders, links, buffer, closed>>

(* ServerSocket::accept: the first connection is taken from the queue and  *)
(* the Socket of the server's end refers to its first buffer               *)
AcceptTake(p) ==
    LET k == Head(queue)
    IN  /\ state[p] = "accept_go" /\ queue # <<>>
        /\ queue' = Tail(queue)
        /\ holders' = [holders EXCEPT ![<<k, "client">>] = (@ \ {"queue"}) \cup {"accept"},
                                      ![<<k, "server">>] = {"handle"}]
        /\ links' = [links EXCEPT ![<<k, "server">>] = {ReadBuffer("server")}]
        /\ On(p, <<k, "server">>)
        /\ Goto(p, "accept_link")
        /\ UNCHANGED <<owner, buffer, closed>>

(* Fault: the same buffer is passed twice. *)
AcceptLinkSame(p) ==
    /\ state[p] = "accept_link"
    /\ Goto(p, "accept_drop")
    /\ UNCHANGED <<arg, queue, owner, holders, links, buffer, closed>>

(* ... and to its second *)
AcceptLink(p) ==
    /\ state[p] = "accept_link"
    /\ links' = [links EXCEPT ![arg[p]] = Side]
    /\ Goto(p, "accept_drop")
    /\ UNCHANGED <<arg, queue, owner, holders, buffer, closed>>

(* ... and accept drops the client's Socket, of which it may by now have   *)
(* the last reference; sys_accept returns a descriptor                     *)
AcceptDrop(p) ==
    LET e == <<arg[p][1], "client">>
    IN  /\ state[p] = "accept_drop"
        /\ holders' = [holders EXCEPT ![e] = @ \ {"accept"}]
        /\ owner' = [owner EXCEPT ![arg[p]] = p]
        /\ IF holders[e] = {"accept"} THEN On(p, e) /\ Goto(p, "destroy_write")
                                      ELSE On(p, None) /\ Goto(p, "user")
        /\ UNCHANGED <<queue, links, buffer, closed>>

(* sys_close *)
Close(p, e) ==
    /\ state[p] = "user" /\ owner[e] = p
    /\ owner' = [owner EXCEPT ![e] = None]
    /\ holders' = [holders EXCEPT ![e] = @ \ {"handle"}]
    /\ closed' = closed \cup {e}
    /\ IF holders[e] = {"handle"} THEN On(p, e) /\ Goto(p, "destroy_write")
                                  ELSE UNCHANGED <<arg, state>>
    /\ UNCHANGED <<queue, links, buffer>>

(* ~Socket: m_write_buffer is dropped before m_read_buffer *)
DestroyWrite(p) ==
    /\ state[p] = "destroy_write"
    /\ links' = [links EXCEPT ![arg[p]] = @ \ {WriteBuffer(arg[p][2])}]
    /\ Goto(p, "destroy_read")
    /\ UNCHANGED <<arg, queue, owner, holders, buffer, closed>>

DestroyRead(p) ==
    /\ state[p] = "destroy_read"
    /\ links' = [links EXCEPT ![arg[p]] = @ \ {ReadBuffer(arg[p][2])}]
    /\ On(p, None)
    /\ Goto(p, "user")
    /\ UNCHANGED <<queue, owner, holders, buffer, closed>>
-----------------------------------------------------------------------------
(* sys_read: the check before the transfer *)
ReadCheck(p, e) ==
    /\ state[p] = "user" /\ owner[e] = p
    /\ On(p, e)
    /\ Goto(p, IF ReadWouldBlock(e) THEN "read_wait" ELSE "read_go")
    /\ UNCHANGED <<queue, owner, holders, links, buffer, closed>>

(* ReadBlocker::should_unblock *)
ReadWake(p) ==
    /\ state[p] = "read_wait" /\ ~ReadWouldBlock(arg[p])
    /\ Goto(p, "read_go")
    /\ UNCHANGED <<arg, queue, owner, holders, links, buffer, closed>>

(* Socket::read of up to n bytes *)
Read(p, n) ==
    /\ state[p] = "read_go"
    /\ buffer' = [buffer EXCEPT ![arg[p][1]][ReadBuffer(arg[p][2])] = AfterRead(@, n)]
    /\ On(p, None)
    /\ Goto(p, "user")
    /\ UNCHANGED <<queue, owner, holders, links, closed>>

(* sys_write: the check before the transfer *)
WriteCheck(p, e) ==
    /\ state[p] = "user" /\ owner[e] = p
    /\ On(p, e)
    /\ Goto(p, IF WriteWouldBlock(e) THEN "write_wait" ELSE "write_go")
    /\ UNCHANGED <<queue, owner, holders, links, buffer, closed>>

(* WriteBlocker::should_unblock *)
WriteWake(p) ==
    /\ state[p] = "write_wait" /\ ~WriteWouldBlock(arg[p])
    /\ Goto(p, "write_go")
    /\ UNCHANGED <<arg, queue, owner, holders, links, buffer, closed>>

(* Socket::write of n bytes *)
Write(p, n) ==
    /\ state[p] = "write_go"
    /\ buffer' = [buffer EXCEPT ![arg[p][1]][WriteBuffer(arg[p][2])] = AfterWrite(@, n)]
    /\ On(p, None)
    /\ Goto(p, "user")
    /\ UNCHANGED <<queue, owner, holders, links, closed>>
-----------------------------------------------------------------------------
(* What a program may ask for *)
Call(p) ==
    \/ p \in Client /\ \E k \in Conn : Connect(p, k)
    \/ p \in Server /\ AcceptCheck(p)
    \/ \E e \in End : Close(p, e) \/ ReadCheck(p, e) \/ WriteCheck(p, e)

(* What the kernel goes on to do by itself *)
Work(p) ==
    \/ ConnectWake(p)
    \/ AcceptWake(p) \/ AcceptTake(p) \/ AcceptLink(p) \/ AcceptDrop(p)
    \/ DestroyWrite(p) \/ DestroyRead(p)
    \/ ReadWake(p) \/ WriteWake(p)
    \/ \E n \in 1 .. Size : Read(p, n) \/ Write(p, n)

Next == \E p \in Proc : Call(p) \/ Work(p)

Spec == Init /\ [][Next]_vars

(* The scheduler runs every thread that can run and asks every blocker     *)
(* again and again; a program need not make another call.                  *)
FairSpec == Spec /\ \A p \in Proc : WF_vars(Work(p))
-----------------------------------------------------------------------------
(* A read or a write that moves no byte has a peer that closed its end:    *)
(* the reference counts never make a connection look broken while it is    *)
(* being set up, and what a check found holds until the transfer.          *)
NothingMovedMeansClosed ==
    \A p \in Proc :
        \/ state[p] = "read_go" /\ IsEmpty(Mine(p))
        \/ state[p] = "write_go" /\ IsFull(Theirs(p))
        => <<arg[p][1], Peer(arg[p][2])>> \in closed

(* accept() takes from a queue that is not empty: Vector::take asserts     *)
(* that the index is below the size, and sys_accept's check was made       *)
(* before, with the lock released in between.                              *)
AcceptFindsConnection ==
    \A p \in Server : state[p] = "accept_go" => queue # <<>>

(* A client whose connection the server has accepted gets its descriptor,  *)
(* unless the server closes its end before the client has looked.          *)
AcceptedConnectReturns ==
    \A p \in Client, k \in Conn :
        /\ state[p] = "connect_wait" /\ arg[p] = <<k, "client">>
        /\ holders[<<k, "server">>] # {}
        ~> state[p] # "connect_wait" \/ <<k, "server">> \in closed

(* A process that waits to read from, or to write to, a peer that closes   *)
(* its end does not wait for ever.                                         *)
CloseWakesPeer ==
    \A p \in Proc, e \in End :
        /\ state[p] \in {"read_wait", "write_wait"} /\ arg[p] = e
        /\ <<e[1], Peer(e[2])>> \in closed
        ~> state[p] \notin {"read_wait", "write_wait"}
=============================================================================
