---------------------------- MODULE Descriptors ----------------------------
(* The input descriptors: the list of handlers and the set that select()    *)
(* watches (src/src/orchids_api.c), the pass over the handlers in the main  *)
(* loop (evt_mgr.c), and the two modules whose callbacks change both:       *)
(* mod_remoteadm accepts and closes consoles, mod_textfile loses a socket   *)
(* and connects it again.  A descriptor is a number, and the kernel gives   *)
(* the lowest free one: an old number may stand for a new connection.       *)
EXTENDS Naturals, Sequences, FiniteSets

CONSTANTS
    Consoles,      \* connections to the port of mod_remoteadm
    Sources,       \* the servers behind the text sockets
    Listener,      \* the listening socket of mod_remoteadm
    Limit,         \* the largest descriptor that the process may open
    MaxLosses,     \* bound: losses of text sockets
    Feedback,      \* the server to which evt_fb_fp sends
    Free           \* a descriptor that is not open

VARIABLES
    behind,        \* descriptor -> what it is connected to
    handlers,      \* realtime_handler_list, the head first
    fds,           \* the watched descriptors
    maxfd,
    readable,      \* connections with data, a peer that left, or a caller
    left,          \* connections whose peer left
    rfds,          \* what select() returned
    visit,         \* the pass: the handler, whether its callback is entered,
                   \* and the handler to go on with
    retry,         \* text sockets with a pending textsocket_try_reconnect()
    feedback,      \* evt_fb_fp: "off", "on", or "closed" and still used
    losses, alive

descVars == <<behind, handlers, fds, maxfd, readable, left, rfds, visit, retry, feedback, losses, alive>>

Fds == 3..Limit
FreeFds == {d \in Fds : behind[d] = Free}
LowestFree == CHOOSE d \in FreeFds : \A e \in FreeFds : d <= e
None == "none"

\* What was opened at the start was within the limit of the process.
ASSUME DescriptorsAreOpened ==
    /\ Limit \in Nat /\ IsFiniteSet(Sources) /\ Cardinality(Sources) + 3 <= Limit
    /\ Consoles \cap Sources = {} /\ {Listener, Feedback, Free, None} \cap (Consoles \cup Sources) = {}
    /\ Listener # Feedback /\ Listener # Free /\ Listener # None
    /\ Feedback # Free /\ Feedback # None /\ Free # None

HandlerOf(owner) == CHOOSE h \in {handlers[k] : k \in DOMAIN handlers} : h.owner = owner

----------------------------------------------------------------------------
(* orchids_api.c                                                            *)

\* A new handler is the first of the list.
add_input_descriptor(owner, d) ==
    /\ handlers' = <<[owner |-> owner, fd |-> d]>> \o handlers
    /\ maxfd' = IF d > maxfd THEN d ELSE maxfd
    /\ fds' = fds \cup {d}

\* The first handler of the descriptor goes.
del_input_descriptor(d) ==
    LET first == CHOOSE k \in DOMAIN handlers :
                   handlers[k].fd = d /\ \A j \in 1..k - 1 : handlers[j].fd # d
    IN  /\ handlers' = SubSeq(handlers, 1, first - 1) \o SubSeq(handlers, first + 1, Len(handlers))
        /\ fds' = fds \ {d}
        /\ UNCHANGED maxfd

substitute_fd(old, new) ==
    handlers' = [k \in DOMAIN handlers |->
                   IF handlers[k].fd = old THEN [handlers[k] EXCEPT !.fd = new] ELSE handlers[k]]

reincarnate_fd(old, new) ==
    /\ substitute_fd(old, new)
    /\ fds' = fds \cup {new}
    /\ UNCHANGED maxfd

----------------------------------------------------------------------------
(* The main loop                                                            *)

\* The kernel closes everything.
Exit ==
    /\ alive' = FALSE
    /\ behind' = [d \in Fds |-> Free] /\ feedback' = "off"
    /\ handlers' = <<>> /\ fds' = {} /\ maxfd' = 0
    /\ readable' = {}
    /\ visit' = [at |-> None, called |-> FALSE, next |-> None]

Idle == visit.at = None

\* select() looks at the watched descriptors up to maxfd.
select ==
    /\ alive /\ Idle
    /\ rfds' = {d \in fds : d <= maxfd /\ behind[d] \in readable}
    /\ rfds' # {}
    /\ visit' = [at |-> handlers[1].owner, called |-> FALSE, next |-> None]
    /\ UNCHANGED <<behind, handlers, fds, maxfd, readable, left, retry, feedback, losses, alive>>

\* The owner of the handler after that of o.
After(o) ==
    LET k == CHOOSE k \in DOMAIN handlers : handlers[k].owner = o
    IN  IF k < Len(handlers) THEN handlers[k + 1].owner ELSE None

\* next = rti->next, and FD_ISSET(rti->fd): the handler is passed over, or
\* its callback is entered.
next_handler_late ==
    /\ alive /\ ~Idle /\ ~visit.called
    /\ visit' = IF HandlerOf(visit.at).fd \in rfds
                THEN [at |-> visit.at, called |-> TRUE, next |-> visit.at]
                ELSE [at |-> After(visit.at), called |-> FALSE, next |-> None]
    /\ UNCHANGED <<behind, handlers, fds, maxfd, readable, left, rfds, retry, feedback, losses, alive>>
next_handler ==
    /\ alive /\ ~Idle /\ ~visit.called
    /\ visit' = IF HandlerOf(visit.at).fd \in rfds
                THEN [at |-> visit.at, called |-> TRUE, next |-> After(visit.at)]
                ELSE [at |-> After(visit.at), called |-> FALSE, next |-> None]
    /\ UNCHANGED <<behind, handlers, fds, maxfd, readable, left, rfds, retry, feedback, losses, alive>>

Called(o) == alive /\ visit.at = o /\ visit.called

\* rti = next
Return == visit' = [at |-> visit.next, called |-> FALSE, next |-> None]

----------------------------------------------------------------------------
(* mod_remoteadm                                                            *)

\* They have called and wait.
Callers == {c \in Consoles \cap readable : \A d \in Fds : behind[d] # c}

\* Xaccept(): a caller that waits gets the lowest free descriptor; without
\* one the process exits.
remoteadm_listen_callback ==
    /\ Called(Listener)
    /\ \E c \in Consoles :
         /\ c \in Callers
         /\ \/ FreeFds = {} /\ Exit
            \/ /\ FreeFds # {}
               /\ behind' = [behind EXCEPT ![LowestFree] = c]
               /\ readable' = readable \ ({c} \cup IF Callers = {c} THEN {Listener} ELSE {})
               /\ add_input_descriptor(c, LowestFree)
               /\ Return
               /\ UNCHANGED <<feedback, alive>>
    /\ UNCHANGED <<left, rfds, retry, losses>>

\* radm_cmd_feedback(): the old feedback is closed; without an argument there
\* is none then, with an unknown host it is still used, and its next use is
\* one of freed memory.
radm_cmd_feedback ==
    LET old == {d \in Fds : behind[d] = Feedback}
        lowest == CHOOSE d \in FreeFds \cup old : \A e \in FreeFds \cup old : d <= e
        closed == [d \in Fds |-> IF d \in old THEN Free ELSE behind[d]]
    IN  /\ feedback # "closed"
        /\ \/ behind' = closed /\ feedback' = "off"
           \/ behind' = closed /\ feedback' = IF feedback = "on" THEN "closed" ELSE "off"
           \/ /\ FreeFds \cup old # {}
              /\ behind' = [closed EXCEPT ![lowest] = Feedback] /\ feedback' = "on"
        /\ UNCHANGED <<handlers, fds, maxfd>>

\* radm_cmd_exit() and the end of the connection: the handler is deleted and
\* the descriptor closed.
radm_cmd_exit(d) ==
    /\ del_input_descriptor(d)
    /\ behind' = [behind EXCEPT ![d] = Free]
    /\ UNCHANGED feedback

\* The other commands print.  The process ends by the command shutdown, by
\* Xread() when the connection was reset, by SIGPIPE when a peer that left is
\* answered, and by the commands that find no descriptor, or freed memory.
remoteadm_client_callback ==
    \E c \in Consoles :
        /\ Called(c)
        /\ \/ Exit
           \/ /\ \/ radm_cmd_exit(HandlerOf(c).fd)
                 \/ c \notin left /\ UNCHANGED <<behind, handlers, fds, maxfd, feedback>>
                 \/ c \notin left /\ radm_cmd_feedback
              /\ readable' = readable \ {c}
              /\ Return /\ UNCHANGED alive
        /\ UNCHANGED <<left, rfds, retry, losses>>

----------------------------------------------------------------------------
(* mod_textfile                                                             *)

\* Data are read; at the end of the connection a reconnection is scheduled
\* and the main loop takes the descriptor out of the set.  It stays open.
textsocket_callback ==
    \E s \in Sources :
        /\ Called(s)
        /\ readable' = readable \ {s}
        /\ IF s \in left
           THEN retry' = retry \cup {s} /\ fds' = fds \ {HandlerOf(s).fd}
           ELSE UNCHANGED <<retry, fds>>
        /\ Return
        /\ UNCHANGED <<behind, handlers, maxfd, left, rfds, feedback, losses, alive>>

\* A real-time action: without a descriptor, or a server, it tries again.
textsocket_try_reconnect ==
    \E s \in retry :
        /\ alive /\ Idle
        /\ FreeFds # {}
        /\ behind' = [behind EXCEPT ![LowestFree] = s]
        /\ left' = left \ {s}
        /\ reincarnate_fd(HandlerOf(s).fd, LowestFree)
        /\ retry' = retry \ {s}
        /\ UNCHANGED <<readable, rfds, visit, feedback, losses, alive>>

----------------------------------------------------------------------------
(* The other sides                                                          *)

Connected(x) == \E d \in Fds : behind[d] = x

Call(c) ==
    /\ c \in Consoles /\ ~Connected(c) /\ c \notin left
    /\ readable' = readable \cup {c, Listener}
    /\ UNCHANGED left
Send(x) ==
    /\ Connected(x) /\ x \notin left /\ x # Listener
    /\ readable' = readable \cup {x}
    /\ UNCHANGED left
Leave(x) ==
    /\ Connected(x) /\ x \notin left /\ x # Listener
    /\ readable' = readable \cup {x}
    /\ left' = left \cup {x}

Peers ==
    /\ alive
    /\ \E x \in Consoles \cup Sources :
         \/ (Call(x) \/ Send(x)) /\ UNCHANGED losses
         \/ Leave(x) /\ IF x \in Sources THEN losses < MaxLosses /\ losses' = losses + 1
                        ELSE UNCHANGED losses
    /\ UNCHANGED <<behind, handlers, fds, maxfd, rfds, visit, retry, feedback, alive>>

\* add_input_file() for every source, then radm_postconfig().
DescInit ==
    \E order \in [1..Cardinality(Sources) -> Sources] :
        /\ \A i, j \in DOMAIN order : i # j => order[i] # order[j]
        /\ LET n == Len(order)
           IN  /\ behind = [d \in Fds |-> IF d - 2 \in DOMAIN order THEN order[d - 2]
                                          ELSE IF d = n + 3 THEN Listener ELSE Free]
               /\ handlers = [k \in 1..n + 1 |-> IF k = 1 THEN [owner |-> Listener, fd |-> n + 3]
                                ELSE [owner |-> order[n + 2 - k], fd |-> n + 4 - k]]
               /\ fds = 3..n + 3 /\ maxfd = n + 3
        /\ readable = {} /\ left = {} /\ rfds = {}
        /\ visit = [at |-> None, called |-> FALSE, next |-> None]
        /\ retry = {} /\ feedback = "off" /\ losses = 0 /\ alive = TRUE

DescNext ==
    \/ select \/ next_handler
    \/ remoteadm_listen_callback \/ remoteadm_client_callback
    \/ textsocket_callback \/ textsocket_try_reconnect
    \/ Peers

DescSpec == DescInit /\ [][DescNext]_descVars

----------------------------------------------------------------------------
(* Properties                                                               *)

DescTypeOK ==
    /\ \A k \in DOMAIN handlers : handlers[k].fd \in Fds
    /\ fds \subseteq Fds /\ maxfd \in Fds \cup {0} /\ rfds \subseteq Fds
    /\ retry \subseteq Sources

\* The callback that the pass enters is given a descriptor that stands for
\* its own connection and has something to read: neither a number that was
\* closed and opened again within the pass, nor one that another module
\* opened, reaches a handler it was not meant for.
NoCrossTalk ==
    alive /\ visit.called =>
        /\ behind[HandlerOf(visit.at).fd] = visit.at
        /\ visit.at \in readable

\* "next = rti->next" is read before the callback: what the pass goes on with
\* is a handler of the list, although callbacks free handlers.
PassStaysInList ==
    \A o \in {visit.at, visit.next} :
        alive /\ o # None => \E k \in DOMAIN handlers : handlers[k].owner = o

\* orchids_s::maxfd "Highest file descriptor, for the select() call": a
\* watched descriptor is above it only when it replaced a lost one, for which
\* reincarnate_fd() leaves maxfd behind.
WatchedIsHeard ==
    \A d \in fds : d <= maxfd \/ (behind[d] \in Sources /\ losses > 0)

\* A descriptor has one handler, so that del_input_descriptor() and
\* substitute_fd(), which go by the number, change the right one.
OneHandlerEach ==
    \A j, k \in DOMAIN handlers : j # k => handlers[j].fd # handlers[k].fd

\* The list of handlers, the set of descriptors and maxfd belong together in
\* every pass, whatever the callbacks of the pass close and open.
DescriptorsSound ==
    DescTypeOK /\ NoCrossTalk /\ PassStaysInList /\ WatchedIsHeard /\ OneHandlerEach
=============================================================================
