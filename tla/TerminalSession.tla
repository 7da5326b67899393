---------------------------- MODULE TerminalSession ----------------------------
(***************************************************************************)
(* One terminal session of the backend: a pty, the WebSocket client that   *)
(* is attached to it, and the output kept while no client can take it.     *)
(* BaseTerminalSessionService owns the attachment, LocalTerminalSession-   *)
(* Service the pty.                                                        *)
(*                                                                         *)
(* The output of the pty is the numbers 1, 2, ... in the order they were   *)
(* produced; each client keeps what it was sent.  A socket that either end *)
(* closed still delivers the messages on their way, and then its close     *)
(* event.                                                                  *)
(***************************************************************************)
EXTENDS Naturals, Sequences, FiniteSets, SequencesExt

CONSTANTS
    Client,            \* WebSocket connections, each made at most once
    MaxOutput,         \* bound: chunks the pty produces
    Heavy,             \* the chunks of two units; the others weigh one
    PendingMaxChunks,  \* TERMINAL_PENDING_OUTPUT_MAX_CHUNKS
    PendingMaxBytes    \* TERMINAL_PENDING_OUTPUT_MAX_BYTES

None == "none"

ASSUME TerminalAssumption ==
    /\ None \notin Client
    /\ MaxOutput \in Nat /\ Heavy \subseteq 1 .. MaxOutput
    /\ PendingMaxChunks \in Nat \ {0} /\ PendingMaxBytes \in Nat \ {0}

VARIABLES
    live,      \* the session is in the map: neither disposed nor deleted
    pty,       \* whether the pty runs
    attached,  \* session.socket
    timer,     \* whether the attach timer is armed
    pending,   \* session.pendingOutput
    produced,  \* how many chunks the pty has produced
    dropped,   \* chunks evicted from pendingOutput
    socket,    \* per client: "new", "open", "closing" or "closed"
    sent,      \* per client: what the server sent it, in order
    written    \* clients whose input reached the pty, in order, latest only

session == <<live, pty, attached, timer>>
output  == <<pending, produced, dropped>>
vars    == <<session, output, socket, sent, written>>

Output  == 1 .. MaxOutput
Ready   == 0                 \* the frames that are no output; numbers, to compare
Exit    == MaxOutput + 1
Control == {Ready, Exit}

Bytes(queue) == Len(queue) + Cardinality(Heavy \cap Range(queue))

TypeOK ==
    /\ live \in BOOLEAN /\ pty \in BOOLEAN /\ timer \in BOOLEAN
    /\ attached \in Client \cup {None}
    /\ pending \in Seq(Output) /\ produced \in 0 .. MaxOutput /\ dropped \subseteq Output
    /\ socket \in [Client -> {"new", "open", "closing", "closed"}]
    /\ sent \in [Client -> Seq(Output \cup Control)]
    /\ written \in Client \cup {None}
    /\ Len(pending) <= PendingMaxChunks /\ Bytes(pending) <= PendingMaxBytes
    /\ live => pty

-----------------------------------------------------------------------------
(* Helpers                                                                  *)

Reachable == attached # None /\ socket[attached] = "open"

(* Faults: the newest chunks are evicted, or none.                          *)
Mut_EvictNewest(queue) ==
    LET kept == CHOOSE n \in 0 .. Len(queue) :
            /\ n <= PendingMaxChunks /\ Bytes(SubSeq(queue, 1, n)) <= PendingMaxBytes
            /\ \A m \in (n + 1) .. Len(queue) :
                 m > PendingMaxChunks \/ Bytes(SubSeq(queue, 1, m)) > PendingMaxBytes
    IN  SubSeq(queue, 1, kept)

(* Eviction from the head until both caps hold.                             *)
Evict(queue) ==
    LET Fits(n) == /\ Len(queue) - n <= PendingMaxChunks
                   /\ Bytes(SubSeq(queue, n + 1, Len(queue))) <= PendingMaxBytes
        first == CHOOSE n \in 0 .. Len(queue) : Fits(n) /\ \A m \in 0 .. (n - 1) : ~Fits(m)
    IN  SubSeq(queue, first + 1, Len(queue))

(* sendServerMessage of an output chunk: to the client that can take it, or *)
(* into the bounded buffer.                                                 *)
SendOutput(chunk) ==
    IF Reachable
      THEN /\ sent' = [sent EXCEPT ![attached] = Append(@, chunk)]
           /\ UNCHANGED <<pending, dropped>>
      ELSE /\ pending' = Evict(Append(pending, chunk))
           /\ dropped' = dropped \cup (Range(Append(pending, chunk)) \ Range(pending'))
           /\ UNCHANGED sent

(* disposeSessionWithCommonLifecycle: the exit message, the transport, then *)
(* the socket.                                                              *)
DisposeSession ==
    /\ live' = FALSE /\ pty' = FALSE /\ timer' = FALSE /\ attached' = None
    /\ IF Reachable
         THEN /\ sent' = [sent EXCEPT ![attached] = Append(@, Exit)]
              /\ socket' = [socket EXCEPT ![attached] = "closing"]
         ELSE UNCHANGED <<sent, socket>>

-----------------------------------------------------------------------------
(* Clients and their sockets                                                *)

(* A client with the session's token takes over from the one before it.     *)
TakeOver(c, frames) ==
    /\ live /\ socket[c] = "new"
    /\ socket' = [s \in Client |-> IF s = c THEN "open"
                                   ELSE IF s = attached /\ Reachable THEN "closing"
                                   ELSE socket[s]]
    /\ attached' = c /\ timer' = FALSE
    /\ sent' = [sent EXCEPT ![c] = frames]
    /\ UNCHANGED <<live, pty, produced, dropped, written>>

(* Fault: what was kept is sent before "ready".                             *)
Mut_FlushFirst(c) == TakeOver(c, pending \o <<Ready>>) /\ pending' = << >>

(* onSessionAttached: it is told the session is ready, then receives what   *)
(* was kept.                                                                *)
Attach(c) == TakeOver(c, <<Ready>> \o pending) /\ pending' = << >>

(* No session, a disposed one or a wrong token: the socket is closed.       *)
RejectAttach(c) ==
    /\ socket[c] = "new"
    /\ socket' = [socket EXCEPT ![c] = "closing"]
    /\ UNCHANGED <<session, output, sent, written>>

(* The client closes its socket, or the connection breaks; the server hears *)
(* of it with the close event.                                              *)
ClientGoes(c) ==
    /\ socket[c] = "open"
    /\ socket' = [socket EXCEPT ![c] = "closing"]
    /\ UNCHANGED <<session, output, sent, written>>

(* The close or error event of a socket: the session ends if the socket is  *)
(* the one attached to it.                                                  *)
SocketClosed(c) ==
    /\ socket[c] = "closing"
    /\ IF live /\ attached = c
         THEN /\ live' = FALSE /\ pty' = FALSE /\ timer' = FALSE /\ attached' = None
              /\ socket' = [socket EXCEPT ![c] = "closed"] /\ UNCHANGED sent
         ELSE socket' = [socket EXCEPT ![c] = "closed"] /\ UNCHANGED <<session, sent>>
    /\ UNCHANGED <<output, written>>

(* Input of a client arrives, be its socket closing or not: the handler     *)
(* writes it to the pty of the session it was attached to.                  *)
ClientInput(c) ==
    /\ socket[c] \in {"open", "closing"} /\ sent[c] # << >>
    /\ written' = IF pty THEN c ELSE written
    /\ UNCHANGED <<session, output, socket, sent>>

(* The close message of a client ends the session, whoever is attached.     *)
ClientRequestsClose(c) ==
    /\ live /\ socket[c] \in {"open", "closing"} /\ sent[c] # << >>
    /\ DisposeSession
    /\ UNCHANGED <<output, written>>

-----------------------------------------------------------------------------
(* The pty, the timer and the API                                           *)

PtyOutput ==
    /\ live /\ produced < MaxOutput
    /\ produced' = produced + 1
    /\ SendOutput(produced')
    /\ UNCHANGED <<session, socket, written>>

PtyExit ==
    /\ live
    /\ DisposeSession
    /\ UNCHANGED <<output, written>>

(* Fault: the timer only clears itself.                                     *)
Mut_TimerKeepsSession == timer /\ timer' = FALSE /\ UNCHANGED <<live, pty, attached, output, socket, sent, written>>

(* Nobody attached in time.                                                 *)
AttachTimeout ==
    /\ timer /\ live
    /\ DisposeSession
    /\ UNCHANGED <<output, written>>

(* closeSession, closeAllSessions and stop.                                 *)
CloseSession ==
    /\ live
    /\ DisposeSession
    /\ UNCHANGED <<output, written>>

-----------------------------------------------------------------------------
(* createSession has registered the session and armed the timer.            *)
Fresh ==
    /\ pty = TRUE /\ attached = None /\ timer = TRUE
    /\ pending = << >> /\ produced = 0 /\ dropped = {}
    /\ socket = [c \in Client |-> "new"]
    /\ sent = [c \in Client |-> << >>]
    /\ written = None

Init == live = TRUE /\ Fresh

Next ==
    \/ \E c \in Client : Attach(c)
    \/ \E c \in Client : RejectAttach(c)
    \/ \E c \in Client : ClientGoes(c)
    \/ \E c \in Client : SocketClosed(c)
    \/ \E c \in Client : ClientInput(c)
    \/ \E c \in Client : ClientRequestsClose(c)
    \/ PtyOutput \/ PtyExit \/ AttachTimeout \/ CloseSession

-----------------------------------------------------------------------------
(* Properties                                                               *)

Received == (UNION {Range(sent[c]) : c \in Client}) \cap Output

(* A client sees "ready", then the output in the order of the pty, what was *)
(* kept for it before what came after its attachment, and nothing after     *)
(* "exit": the numbers of the frames only grow.                             *)
FramesAreInOrder ==
    \A c \in Client :
        /\ \A i, j \in 1 .. Len(sent[c]) : i < j => sent[c][i] < sent[c][j]
        /\ sent[c] # << >> => sent[c][1] = Ready

(* A session no client can be reached for is taken over or disposed: it     *)
(* never keeps its pty for ever.                                            *)
LostSessionEnds == live /\ ~Reachable ~> ~live \/ Reachable

(* base-session-service.ts:114 "Keep exactly one active client connection   *)
(* per session to prevent interleaved writes": input reaches the pty from   *)
(* the attached client only.                                                *)
NoInterleavedWrites ==
    [][\A c \in Client : written' = c /\ written # c => attached = c]_vars
=============================================================================
