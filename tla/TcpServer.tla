----------------------------- MODULE TcpServer ------------------------------
(***************************************************************************)
(* goredis::TcpServer (src/src/server/tcp_server.cpp) and the shutdown of  *)
(* main (src/src/main.cpp): the accept loop, one detached handler thread   *)
(* per connection, and the main thread's Stop, join and final save.        *)
(*                                                                         *)
(* Each access to a shared variable, and each critical section of          *)
(* clients_mu_, is an action.  The kernel is modelled as far as the code   *)
(* relies on it: accept returns the lowest free descriptor, close frees    *)
(* it, shutdown wakes whoever is blocked on it.  What a peer sends is a    *)
(* sequence of items, each a complete command or a protocol violation.     *)
(***************************************************************************)
EXTENDS Integers, Sequences, FiniteSets

CONSTANTS Conn,      \* the connections peers will try to open
          Fd,        \* descriptor numbers for them, a set of integers
          Nil,
          Items,     \* what peers send: "command"s, protocol "violation"s
          MaxInput   \* bound: how many items a peer sends

VARIABLES
  stop_flag, client_fds, active_clients,   \* members of TcpServer
  listener,    \* the listening socket: "open" or "closed"
  backlog,     \* connections waiting to be accepted
  fd_table,    \* descriptor -> the connection it refers to, Nil when free
  shut,        \* connections shutdown() was called on
  accept_pc, accepted,     \* the accept loop and the connection it has last accepted
  handler, fd, buffer,     \* per connection: its handler thread, descriptor, parser buffer
  peer, input,             \* per connection: the peer, and what it sent that is not yet received
  main_pc, fds_to_close, timed_out,   \* the main thread in Stop
  writes, saved            \* commands executed by the store; those the final save saw

kernel == <<listener, backlog, fd_table, shut>>
acceptor == <<accept_pc, accepted>>
handlers == <<handler, buffer>>
peers == <<peer, input>>
stopper == <<main_pc, fds_to_close, timed_out, saved>>
vars == <<stop_flag, client_fds, active_clients, kernel, acceptor, handlers, fd,
          peers, stopper, writes>>
-----------------------------------------------------------------------------
(* AcceptLoop.                                                             *)
AcceptCheck ==
  /\ accept_pc = "check"
  /\ accept_pc' = IF stop_flag THEN "done" ELSE "accept"
  /\ UNCHANGED <<stop_flag, client_fds, active_clients, kernel, accepted, handlers, fd,
                 peers, stopper, writes>>

Free == {f \in Fd : fd_table[f] = Nil}

\* accept() returns a connection.
AcceptReturn(c) ==
  LET f == CHOOSE g \in Free : \A h \in Free : g <= h IN
  /\ accept_pc = "accept" /\ listener = "open" /\ c \in backlog /\ Free # {}
  /\ accept_pc' = "push" /\ accepted' = c
  /\ backlog' = backlog \ {c}
  /\ fd' = [fd EXCEPT ![c] = f]
  /\ fd_table' = [fd_table EXCEPT ![f] = c]
  /\ UNCHANGED <<stop_flag, client_fds, active_clients, listener, shut, handlers, peers,
                 stopper, writes>>

\* Mutation: accept() is retried without looking at the stop flag.
AcceptFails_Retries ==
  /\ accept_pc = "accept" /\ (listener = "closed" \/ backlog # {})
  /\ accept_pc' = "accept"
  /\ UNCHANGED <<stop_flag, client_fds, active_clients, kernel, accepted, handlers, fd,
                 peers, stopper, writes>>

\* accept() fails: the listener is gone, or for a transient reason.
AcceptFails ==
  /\ accept_pc = "accept" /\ (listener = "closed" \/ backlog # {})
  /\ accept_pc' = IF stop_flag THEN "done" ELSE "check"
  /\ UNCHANGED <<stop_flag, client_fds, active_clients, kernel, accepted, handlers, fd,
                 peers, stopper, writes>>

AcceptPush ==
  /\ accept_pc = "push" /\ accept_pc' = "count"
  /\ client_fds' = Append(client_fds, fd[accepted])
  /\ UNCHANGED <<stop_flag, active_clients, kernel, accepted, handlers, fd, peers, stopper,
                 writes>>

\* Mutation: the connection is tracked but never counted.
AcceptCount_Never ==
  /\ accept_pc = "count" /\ accept_pc' = "spawn"
  /\ UNCHANGED <<stop_flag, client_fds, active_clients, kernel, accepted, handlers, fd,
                 peers, stopper, writes>>

AcceptCount ==
  /\ accept_pc = "count" /\ accept_pc' = "spawn"
  /\ active_clients' = active_clients + 1
  /\ UNCHANGED <<stop_flag, client_fds, kernel, accepted, handlers, fd, peers, stopper,
                 writes>>

AcceptSpawn ==
  /\ accept_pc = "spawn" /\ accept_pc' = "check"
  /\ handler' = [handler EXCEPT ![accepted] = "recv"]
  /\ UNCHANGED <<stop_flag, client_fds, active_clients, kernel, accepted, buffer, fd, peers,
                 stopper, writes>>

AcceptNext ==
  \/ AcceptCheck \/ AcceptFails \/ AcceptPush \/ AcceptCount \/ AcceptSpawn
  \/ \E c \in Conn : AcceptReturn(c)
-----------------------------------------------------------------------------
(* HandleClient.                                                           *)
Goes(c, from, to) == handler[c] = from /\ handler' = [handler EXCEPT ![c] = to]

\* recv() returns what has arrived; the parser keeps what it cannot use yet.
Recv(c) ==
  /\ Goes(c, "recv", "parse")
  /\ input[c] # <<>>
  /\ \E n \in 1..Len(input[c]) :
       /\ buffer' = [buffer EXCEPT ![c] = @ \o SubSeq(input[c], 1, n)]
       /\ input' = [input EXCEPT ![c] = SubSeq(@, n + 1, Len(@))]
  /\ UNCHANGED <<stop_flag, client_fds, active_clients, kernel, acceptor, fd, peer, stopper,
                 writes>>

\* Mutation: only an error ends the connection, a 0 does not.
RecvEnds_OnError(c) ==
  /\ Goes(c, "recv", "close")
  /\ peer[c] = "gone"
  /\ UNCHANGED <<stop_flag, client_fds, active_clients, kernel, acceptor, buffer, fd, peers,
                 stopper, writes>>

\* recv() returns 0 or an error.
RecvEnds(c) ==
  /\ Goes(c, "recv", "close")
  /\ peer[c] = "gone" \/ (c \in shut /\ input[c] = <<>>)
  /\ UNCHANGED <<stop_flag, client_fds, active_clients, kernel, acceptor, buffer, fd, peers,
                 stopper, writes>>

\* TryParseCommand, and Dispatch for a complete command.
ParseIncomplete(c) ==
  /\ Goes(c, "parse", "recv") /\ buffer[c] = <<>>
  /\ UNCHANGED <<stop_flag, client_fds, active_clients, kernel, acceptor, buffer, fd, peers,
                 stopper, writes>>

ParseCommand(c) ==
  /\ Goes(c, "parse", "send")
  /\ buffer[c] # <<>> /\ Head(buffer[c]) = "command"
  /\ buffer' = [buffer EXCEPT ![c] = Tail(@)]
  /\ writes' = writes + 1
  /\ UNCHANGED <<stop_flag, client_fds, active_clients, kernel, acceptor, fd, peers, stopper>>

\* The error is sent, and whether it arrives or not the connection ends.
ParseError(c) ==
  /\ Goes(c, "parse", "close")
  /\ buffer[c] # <<>> /\ Head(buffer[c]) = "violation"
  /\ UNCHANGED <<stop_flag, client_fds, active_clients, kernel, acceptor, buffer, fd, peers,
                 stopper, writes>>

\* SendAll: the kernel may take a reply although the peer has gone.
SendAll(c) ==
  /\ \/ Goes(c, "send", "parse") /\ c \notin shut
     \/ Goes(c, "send", "close") /\ (c \in shut \/ peer[c] = "gone")
  /\ UNCHANGED <<stop_flag, client_fds, active_clients, kernel, acceptor, buffer, fd, peers,
                 stopper, writes>>

\* ~ClientGuard: close, untrack, report completion.  The parser is gone, and
\* the kernel drops what was not received.
Close(c) ==
  /\ Goes(c, "close", "erase")
  /\ fd_table' = [fd_table EXCEPT ![fd[c]] = Nil]
  /\ buffer' = [buffer EXCEPT ![c] = <<>>] /\ input' = [input EXCEPT ![c] = <<>>]
  /\ UNCHANGED <<stop_flag, client_fds, active_clients, listener, backlog, shut, acceptor,
                 fd, peer, stopper, writes>>

Erase(c) ==
  /\ Goes(c, "erase", "leave")
  /\ client_fds' = SelectSeq(client_fds, LAMBDA f : f # fd[c])
  /\ UNCHANGED <<stop_flag, active_clients, kernel, acceptor, buffer, fd, peers, stopper,
                 writes>>

Leave(c) ==
  /\ Goes(c, "leave", "done")
  /\ active_clients' = active_clients - 1
  /\ UNCHANGED <<stop_flag, client_fds, kernel, acceptor, buffer, fd, peers, stopper, writes>>

HandleClient(c) ==
  \/ Recv(c) \/ RecvEnds(c) \/ ParseIncomplete(c) \/ ParseCommand(c) \/ ParseError(c)
  \/ SendAll(c) \/ Close(c) \/ Erase(c) \/ Leave(c)
-----------------------------------------------------------------------------
(* Peers.  What one does after the server closed its end is not observed.  *)
Closed(c) == handler[c] \in {"erase", "leave", "done"}

Connect(c) ==
  /\ peer[c] = "away" /\ listener = "open"
  /\ peer' = [peer EXCEPT ![c] = "connected"]
  /\ backlog' = backlog \cup {c}
  /\ UNCHANGED <<stop_flag, client_fds, active_clients, listener, fd_table, shut, acceptor,
                 handlers, fd, input, stopper, writes>>

Transmit(c) ==
  /\ peer[c] = "connected" /\ c \notin shut /\ ~Closed(c)
  /\ Len(input[c]) + Len(buffer[c]) < MaxInput /\ writes < MaxInput
  /\ \E item \in Items : input' = [input EXCEPT ![c] = Append(@, item)]
  /\ UNCHANGED <<stop_flag, client_fds, active_clients, kernel, acceptor, handlers, fd, peer,
                 stopper, writes>>

Hangup(c) ==
  /\ peer[c] = "connected" /\ ~Closed(c)
  /\ peer' = [peer EXCEPT ![c] = "gone"]
  /\ UNCHANGED <<stop_flag, client_fds, active_clients, kernel, acceptor, handlers, fd, input,
                 stopper, writes>>

PeerNext(c) == Connect(c) \/ Transmit(c) \/ Hangup(c)
-----------------------------------------------------------------------------
(* main after g_shutdown_requested: Stop, join, SaveRdb.                   *)
StopFlag ==
  /\ main_pc = "serve" /\ main_pc' = "unlisten"
  /\ stop_flag' = TRUE
  /\ UNCHANGED <<client_fds, active_clients, kernel, acceptor, handlers, fd, peers,
                 fds_to_close, timed_out, saved, writes>>

StopListening ==
  /\ main_pc = "unlisten" /\ main_pc' = "copy"
  /\ listener' = "closed" /\ backlog' = {}
  /\ UNCHANGED <<stop_flag, client_fds, active_clients, fd_table, shut, acceptor, handlers,
                 fd, peers, fds_to_close, timed_out, saved, writes>>

StopCopy ==
  /\ main_pc = "copy" /\ main_pc' = "shutdown"
  /\ fds_to_close' = client_fds
  /\ UNCHANGED <<stop_flag, client_fds, active_clients, kernel, acceptor, handlers, fd, peers,
                 timed_out, saved, writes>>

\* Mutation: Stop closes the descriptors itself.
StopShutdown_Closes ==
  /\ main_pc = "shutdown"
  /\ \/ /\ fds_to_close # <<>>
        /\ fd_table' = [fd_table EXCEPT ![Head(fds_to_close)] = Nil]
        /\ fds_to_close' = Tail(fds_to_close)
        /\ UNCHANGED main_pc
     \/ /\ fds_to_close = <<>>
        /\ main_pc' = "drain"
        /\ UNCHANGED <<fd_table, fds_to_close>>
  /\ UNCHANGED <<stop_flag, client_fds, active_clients, listener, backlog, shut, acceptor,
                 handlers, fd, peers, timed_out, saved, writes>>

StopShutdown ==
  /\ main_pc = "shutdown"
  /\ \/ /\ fds_to_close # <<>>
        /\ shut' = shut \cup ({fd_table[Head(fds_to_close)]} \ {Nil})
        /\ fds_to_close' = Tail(fds_to_close)
        /\ UNCHANGED main_pc
     \/ /\ fds_to_close = <<>>
        /\ main_pc' = "drain"
        /\ UNCHANGED <<shut, fds_to_close>>
  /\ UNCHANGED <<stop_flag, client_fds, active_clients, listener, backlog, fd_table, acceptor,
                 handlers, fd, peers, timed_out, saved, writes>>

\* Mutation: Stop waits for the list of descriptors to empty instead.
StopDrain_OnList ==
  /\ main_pc = "drain" /\ main_pc' = "join"
  /\ timed_out' = (client_fds # <<>>)
  /\ UNCHANGED <<stop_flag, client_fds, active_clients, kernel, acceptor, handlers, fd, peers,
                 fds_to_close, saved, writes>>

\* The drain loop ends when no client is active, or after two seconds.
StopDrain ==
  /\ main_pc = "drain" /\ main_pc' = "join"
  /\ timed_out' = (active_clients > 0)
  /\ UNCHANGED <<stop_flag, client_fds, active_clients, kernel, acceptor, handlers, fd, peers,
                 fds_to_close, saved, writes>>

Join ==
  /\ main_pc = "join" /\ main_pc' = "save"
  /\ accept_pc = "done"
  /\ UNCHANGED <<stop_flag, client_fds, active_clients, kernel, acceptor, handlers, fd, peers,
                 fds_to_close, timed_out, saved, writes>>

Save ==
  /\ main_pc = "save" /\ main_pc' = "returned"
  /\ saved' = writes
  /\ UNCHANGED <<stop_flag, client_fds, active_clients, kernel, acceptor, handlers, fd, peers,
                 fds_to_close, timed_out, writes>>

\* main has returned: the process may end at any time.
Returned == main_pc = "returned" /\ UNCHANGED vars

StopNext == StopListening \/ StopCopy \/ StopShutdown \/ StopDrain \/ Join \/ Save
-----------------------------------------------------------------------------
Init ==
  /\ stop_flag = FALSE /\ client_fds = <<>> /\ active_clients = 0
  /\ listener = "open" /\ backlog = {} /\ fd_table = [f \in Fd |-> Nil] /\ shut = {}
  /\ accept_pc = "check" /\ accepted = Nil
  /\ handler = [c \in Conn |-> "none"] /\ fd = [c \in Conn |-> Nil]
  /\ buffer = [c \in Conn |-> <<>>]
  /\ peer = [c \in Conn |-> "away"] /\ input = [c \in Conn |-> <<>>]
  /\ main_pc = "serve" /\ fds_to_close = <<>> /\ timed_out = FALSE
  /\ writes = 0 /\ saved = 0

Next == \/ AcceptNext
        \/ \E c \in Conn : HandleClient(c) \/ PeerNext(c)
        \/ StopFlag \/ StopNext
        \/ Returned

Spec == Init /\ [][Next]_vars

\* Every thread that can run is scheduled.  Peers may do what they like, and
\* the signal need not come.
Fairness == /\ WF_vars(AcceptNext)
            /\ \A c \in Conn : WF_vars(HandleClient(c))
            /\ WF_vars(StopNext)

FairSpec == Spec /\ Fairness
-----------------------------------------------------------------------------
ASSUME DescriptorsAreInt == Fd \subseteq Int /\ Nil \notin Fd /\ Nil \notin Conn
ASSUME ItemsAreKnown == Items \subseteq {"command", "violation"}

\* Types of the members of TcpServer, of its threads and of the kernel's part.
TypeOK ==
  /\ stop_flag \in BOOLEAN /\ client_fds \in Seq(Fd) /\ active_clients \in Nat
  /\ listener \in {"open", "closed"} /\ backlog \subseteq Conn /\ shut \subseteq Conn
  /\ fd_table \in [Fd -> Conn \cup {Nil}]
  /\ accept_pc \in {"check", "accept", "push", "count", "spawn", "done"}
  /\ accepted \in Conn \cup {Nil}
  /\ handler \in [Conn -> {"none", "recv", "parse", "send", "close", "erase", "leave", "done"}]
  /\ fd \in [Conn -> Fd \cup {Nil}]
  /\ buffer \in [Conn -> Seq(Items)] /\ input \in [Conn -> Seq(Items)]
  /\ peer \in [Conn -> {"away", "connected", "gone"}]
  /\ main_pc \in {"serve", "unlisten", "copy", "shutdown", "drain", "join", "save", "returned"}
  /\ fds_to_close \in Seq(Fd) /\ timed_out \in BOOLEAN
  /\ writes \in Nat /\ saved \in Nat

Serving == {c \in Conn : handler[c] \in {"recv", "parse", "send", "close"}}
Running == Serving \cup {c \in Conn : handler[c] \in {"erase", "leave"}}

\* The descriptor a handler reads, writes and closes is its own connection's:
\* nobody else closed it, so its number has not been given away
\* (tcp_server.cpp:156-165).
OwnsItsDescriptor ==
  /\ \A c \in Serving : fd[c] # Nil /\ fd_table[fd[c]] = c
  /\ accept_pc \in {"push", "count", "spawn"} => fd_table[fd[accepted]] = accepted

\* active_clients_ counts the handler threads that have not reported
\* completion, and the one about to be spawned.
ActiveCounted ==
  active_clients = Cardinality(Running) + (IF accept_pc = "spawn" THEN 1 ELSE 0)

\* When Stop returns before its deadline, every handler is finished with the
\* server's members, except possibly that of the connection accepted last.
OnlyTheLastRemains ==
  (main_pc \in {"join", "save", "returned"} /\ ~timed_out) => Running \subseteq {accepted}

\* Once requested, the shutdown completes: the accept loop ends although it
\* may have been blocked in accept(), and the drain is bounded.
ShutdownCompletes == stop_flag ~> main_pc = "returned"

\* A connection that Stop has shut down is closed and its handler ends,
\* wherever the handler was.
DisconnectedClientsLeave == \A c \in Conn : c \in shut ~> handler[c] = "done"

\* "Tracks every currently-connected client's fd so Stop() can
\* force-disconnect them" (tcp_server.h:106).
ServedClientsAreTracked ==
  \A c \in Conn : handler[c] \in {"recv", "parse", "send"}
                    => \E i \in DOMAIN client_fds : client_fds[i] = fd[c]

\* A caller of Stop "doesn't race against a client thread" when it goes on to
\* take the final snapshot (tcp_server.cpp:167-172).
NothingRunsAfterStop ==
  (main_pc \in {"save", "returned"} /\ ~timed_out) => Running = {}
=============================================================================
