------------------------------ MODULE MCEvtMgr ------------------------------
(***************************************************************************)
(* The event manager with small sets of actions.                           *)
(***************************************************************************)
EXTENDS EvtMgr, TLC

\* Every configuration with an input: the text sockets bring their reader.
AnyConfig == {c \in SUBSET (Pollers \cup Readers \cup Fds) :
                /\ c \cap (Readers \cup Fds) # {}
                /\ c \cap Socks # {} => c \cap Readers # {}}

\* Text sockets alone, with the reader that comes with them.
SocketsOnly == {Readers \cup Socks}
=============================================================================
