------------------------------ MODULE NamedPipe ------------------------------
(***************************************************************************)
(* One instance of a Windows named pipe, as the filters use it: message    *)
(* type, blocking mode, one server end and at most one client end.  The    *)
(* operating system is not part of the repository, so these operators are  *)
(* written from the calls the sink and the source make and from the error  *)
(* codes they test for.                                                    *)
(*                                                                         *)
(*   none          no instance: before CreateNamedPipe, after CloseHandle  *)
(*   listening     a client may open the instance                          *)
(*   connected     a client holds the other end                            *)
(*   closing       the client closed its end, the server has not noticed   *)
(*   disconnected  after DisconnectNamedPipe: nobody can open it until the *)
(*                 server calls ConnectNamedPipe again                     *)
(***************************************************************************)
EXTENDS Naturals, Sequences

PipeStates == {"none", "listening", "connected", "closing", "disconnected"}

\* Who holds the client end: the source filter of another process, or the
\* sink itself, which opens its own pipe to wake its listener.
Clients == {"nobody", "source", "self"}

Pipes(Msg) == [state : PipeStates, client : Clients, queue : Seq(Msg)]

Idle(s) == [state |-> s, client |-> "nobody", queue |-> << >>]

NoPipe           == Idle("none")
Listening        == Idle("listening")
ClientClosed     == Idle("closing")       \* unread messages die with the client
Disconnected     == Idle("disconnected")  \* DisconnectNamedPipe discards unread messages
Opened(c)        == [state |-> "connected", client |-> c, queue |-> << >>]

\* CreateFile on the pipe's name succeeds only while the instance listens;
\* otherwise it fails, with ERROR_PIPE_BUSY when the instance exists.
CanOpen(p) == p.state = "listening"

\* WriteFile blocks while the client does not read and the buffer is full; it
\* returns an error at once when no client is connected.
WriteFails(p)       == p.state # "connected"
WriteRoom(p, cap)   == p.state = "connected" /\ Len(p.queue) < cap
WriteBlocked(p, cap) == p.state = "connected" /\ Len(p.queue) >= cap
Written(p, m)       == [p EXCEPT !.queue = Append(@, m)]

\* ReadFile on the client end takes the oldest message.
ReadMsg(p) == [p EXCEPT !.queue = Tail(@)]
===============================================================================
