------------------------------ MODULE SshSession ------------------------------
(***************************************************************************)
(* The terminal session base under both of its services: the local one,    *)
(* which adds nothing to TerminalSession, and SshSessionService, which     *)
(* parses the shell's output into visible frames and events of the remote  *)
(* helper, forwards events only while the helper is trusted, and keeps the *)
(* command history of the host up to date.                                 *)
(*                                                                         *)
(* An SSH session is not registered before its login audit is written, and *)
(* its shell already talks.  The frames of the shell are numbered in the   *)
(* order they come, visible output and events alike.                       *)
(***************************************************************************)
EXTENDS TerminalSession

VARIABLES
    service,    \* "local" or "ssh"
    creating,   \* createSession awaits the login audit
    gate,       \* remoteEnhancementsRuntimeState: "pending", "active" or "disabled"
    kind,       \* per frame: "output", "ready", "start" or "foreign"
    ignored,    \* event frames the trust gate withheld
    told,       \* per client: the runtime statuses it was sent, with its frames by then
    syncTimer,  \* historySyncTimeout is armed
    reading,    \* historySyncInFlight
    again,      \* historySyncPending
    asked,      \* the history may have changed since a read of it last began
    deleting    \* bound: a deletion of a history entry runs, at most one at a time

trust   == <<gate, kind, ignored, told>>
history == <<syncTimer, reading, again, asked, deleting>>
sshVars == <<service, creating, trust, history>>
allVars == <<vars, sshVars>>

(* "ready" is integration-ready, "start" a command-start with a new id,     *)
(* "foreign" any event that does not match the contract of the bootstrap.   *)
Kind == {"output", "ready", "start", "foreign"}

SshTypeOK ==
    /\ service \in {"local", "ssh"} /\ creating \in BOOLEAN
    /\ gate \in {"pending", "active", "disabled"}
    /\ kind \in Seq(Kind) /\ (service = "ssh" => Len(kind) = produced)
    /\ ignored \subseteq Output
    /\ DOMAIN told = Client
    /\ \A c \in Client : told[c] \in
         Seq([state : {"pending", "active", "disabled"}, at : 0 .. MaxOutput + 2])
    /\ {syncTimer, reading, again, asked, deleting} \subseteq BOOLEAN

-----------------------------------------------------------------------------
(* The handler of the shell's output, on a record of what it changes        *)

Stream == [gate |-> gate, kind |-> kind, pending |-> pending, dropped |-> dropped,
           ignored |-> ignored, sent |-> sent, told |-> told, started |-> FALSE]

Become(s) ==
    /\ gate' = s.gate /\ kind' = s.kind /\ pending' = s.pending /\ dropped' = s.dropped
    /\ ignored' = s.ignored /\ sent' = s.sent /\ told' = s.told

Ignore(s, frame) == [s EXCEPT !.ignored = @ \cup {frame}]

(* bufferPendingStreamFrame.                                                *)
Buffer(s, frame) ==
    LET queue == Append(s.pending, frame)
    IN  [s EXCEPT !.pending = Evict(queue),
                  !.dropped = @ \cup (Range(queue) \ Range(Evict(queue)))]

(* sendServerMessage of a frame, and of a control message.                  *)
SendFrame(s, frame) ==
    IF Reachable THEN [s EXCEPT !.sent[attached] = Append(@, frame)] ELSE Buffer(s, frame)
SendStatus(s) ==
    IF Reachable
      THEN [s EXCEPT !.told[attached] =
               Append(@, [state |-> s.gate, at |-> Len(s.sent[attached])])]
      ELSE s

IsVisible(s, frame) == s.kind[frame] = "output"
Visible(s) == {frame \in Range(s.pending) : IsVisible(s, frame)}

(* What is kept of a queue, in its order.                                   *)
Only(queue, keep) ==
    LET kept[i \in 0 .. Len(queue)] ==
            IF i = 0 THEN << >>
            ELSE IF queue[i] \in keep THEN Append(kept[i - 1], queue[i]) ELSE kept[i - 1]
    IN  kept[Len(queue)]

(* Fault: the client is not told.                                           *)
Mut_DisabledUntold(s) ==
    [s EXCEPT !.gate = "disabled", !.pending = Only(@, Visible(s)),
              !.ignored = @ \cup {frame \in Range(s.pending) : ~IsVisible(s, frame)}]

(* disableRemoteEnhancementsRuntime with discardPendingRemoteShellEvent-    *)
(* Frames.                                                                  *)
DisableRuntime(s) ==
    LET visible == Only(s.pending, Visible(s))
    IN  SendStatus([s EXCEPT !.gate = "disabled", !.pending = visible,
                             !.ignored = @ \cup (Range(s.pending) \ Range(visible))])

(* handleRemoteShellEvent and applyRemoteShellEventState.                   *)
HandleEvent(s, frame) ==
    CASE s.gate = "disabled" -> Ignore(s, frame)
      [] s.gate # "disabled" /\ s.kind[frame] = "foreign" -> DisableRuntime(Ignore(s, frame))
      [] s.gate = "pending" /\ s.kind[frame] = "start" -> Ignore(s, frame)
      [] s.gate = "pending" /\ s.kind[frame] = "ready" ->
           SendFrame(SendStatus([s EXCEPT !.gate = "active"]), frame)
      [] OTHER -> SendFrame([s EXCEPT !.started = @ \/ s.kind[frame] = "start"], frame)

HandleFrame(s, frame) ==
    IF IsVisible(s, frame) THEN SendFrame(s, frame) ELSE HandleEvent(s, frame)

-----------------------------------------------------------------------------
(* The history of the host                                                  *)

(* scheduleHistorySync: debounced, throttled, at most one timer.            *)
ScheduleSync(when) ==
    /\ syncTimer' = (syncTimer \/ when) /\ asked' = (asked \/ when)
    /\ UNCHANGED <<reading, again, deleting>>

(* Fault: a read in flight swallows the next one.                           *)
Mut_SyncIsSwallowed ==
    /\ syncTimer /\ syncTimer' = FALSE
    /\ reading' = TRUE /\ again' = FALSE
    /\ asked' = (asked /\ reading)
    /\ UNCHANGED <<vars, service, creating, trust, deleting>>

(* The timer: a read of the history begins, or waits for the one in flight. *)
SyncHistory ==
    /\ syncTimer /\ syncTimer' = FALSE
    /\ reading' = TRUE /\ again' = (again \/ reading)
    /\ asked' = (asked /\ reading)
    /\ UNCHANGED <<vars, service, creating, trust, deleting>>

(* It answers, fails or times out; one that was asked for meanwhile is      *)
(* scheduled.                                                               *)
HistoryRead ==
    /\ reading /\ reading' = FALSE /\ again' = FALSE
    /\ syncTimer' = (syncTimer \/ again)
    /\ UNCHANGED <<vars, service, creating, trust, asked, deleting>>

(* A client deletes an entry; when the command is over, however it ended, a *)
(* read is scheduled.                                                       *)
DeleteHistoryEntry(c) ==
    /\ service = "ssh" /\ live /\ socket[c] \in {"open", "closing"} /\ sent[c] # << >>
    /\ ~deleting /\ deleting' = TRUE
    /\ UNCHANGED <<vars, service, creating, trust, syncTimer, reading, again, asked>>

DeletionEnds ==
    /\ deleting /\ deleting' = FALSE
    /\ syncTimer' = TRUE /\ asked' = TRUE
    /\ UNCHANGED <<vars, service, creating, trust, reading, again>>

-----------------------------------------------------------------------------
(* Creation                                                                 *)

(* Output before the session exists is kept unparsed, within the same caps. *)
RawOutput(k) ==
    /\ creating /\ pty /\ produced < MaxOutput
    /\ produced' = produced + 1 /\ kind' = Append(kind, k)
    /\ pending' = Evict(Append(pending, produced'))
    /\ dropped' = dropped \cup (Range(Append(pending, produced')) \ Range(pending'))
    /\ UNCHANGED <<session, socket, sent, written, service, creating, gate, ignored, told, history>>

(* The shell or its connection closes; the monitors keep it.                *)
ShellCloses ==
    /\ creating /\ pty /\ pty' = FALSE
    /\ UNCHANGED <<live, attached, timer, output, socket, sent, written, sshVars>>

(* The attach timer is armed before the audit is written: it may find no    *)
(* session to dispose.                                                      *)
AttachTimeoutTooEarly ==
    /\ creating /\ timer /\ timer' = FALSE
    /\ UNCHANGED <<live, pty, attached, output, socket, sent, written, sshVars>>

(* What was kept goes through the handler.                                  *)
Replayed ==
    LET after[i \in 0 .. Len(pending)] ==
            IF i = 0 THEN [Stream EXCEPT !.pending = << >>]
                     ELSE HandleFrame(after[i - 1], pending[i])
    IN  after[Len(pending)]

(* The audit is written: the session is registered, and disposed at once if *)
(* its shell closed meanwhile.                                              *)
Register ==
    /\ creating /\ creating' = FALSE
    /\ Become(Replayed)
    /\ live' = pty /\ timer' = (timer /\ pty) /\ syncTimer' = pty /\ asked' = pty
    /\ UNCHANGED <<pty, attached, produced, socket, written, service, reading, again, deleting>>

-----------------------------------------------------------------------------
(* A registered SSH session                                                 *)

(* onSessionAttached: ready, the state of the helper, then what was kept;   *)
(* events only while the helper is trusted.                                 *)
SshAttach(c) ==
    LET flushed == IF gate = "active" THEN pending ELSE Only(pending, Visible(Stream))
    IN  /\ service = "ssh" /\ TakeOver(c, <<Ready>> \o flushed) /\ pending' = << >>
        /\ told' = [told EXCEPT ![c] = <<[state |-> gate, at |-> 1]>>]
        /\ ignored' = ignored \cup (Range(pending) \ Range(flushed))
        /\ UNCHANGED <<service, creating, gate, kind, history>>

ShellOutput(k) ==
    /\ service = "ssh" /\ live /\ produced < MaxOutput
    /\ produced' = produced + 1
    /\ LET after == HandleFrame([Stream EXCEPT !.kind = Append(@, k)], produced')
       IN  Become(after) /\ ScheduleSync(after.started)
    /\ UNCHANGED <<session, socket, written, service, creating>>

(* The helper did not report in time.                                       *)
HandshakeTimeout ==
    /\ service = "ssh" /\ live /\ gate = "pending"
    /\ \E s \in {Stream} : Become(DisableRuntime(s))
    /\ UNCHANGED <<session, produced, socket, written, service, creating, history>>

(* Input with a line break asks for the history, unless a helper reports    *)
(* the commands that start.                                                 *)
SshInput(c) ==
    /\ service = "ssh" /\ live /\ socket[c] \in {"open", "closing"} /\ sent[c] # << >>
    /\ ScheduleSync(gate # "active")
    /\ UNCHANGED <<vars, service, creating, trust>>

(* What ends the session also clears the history timer; what still runs     *)
(* finds no session, and is forgotten.                                      *)
Ending == /\ IF live' THEN UNCHANGED history
             ELSE /\ syncTimer' = FALSE /\ reading' = FALSE /\ again' = FALSE
                  /\ asked' = FALSE /\ deleting' = FALSE
          /\ UNCHANGED <<service, creating, trust>>

Socket(c) == SocketClosed(c) /\ Ending
Timeout == AttachTimeout /\ Ending

SshStep ==
    /\ service = "ssh"
    /\ \/ \E c \in Client : (ClientRequestsClose(c) \/ RejectAttach(c) \/ ClientGoes(c)) /\ Ending
       \/ \E c \in Client : Socket(c)
       \/ (PtyExit \/ CloseSession) /\ Ending
       \/ Timeout

-----------------------------------------------------------------------------
(* A local session is registered when it is made; an SSH session, when its  *)
(* bootstrap is over and its audit is written.                              *)
SshInit ==
    /\ Fresh
    /\ \/ service = "local" /\ live = TRUE /\ creating = FALSE /\ gate = "disabled"
       \/ service = "ssh" /\ live = FALSE /\ creating = TRUE /\ gate \in {"pending", "disabled"}
    /\ kind = << >> /\ ignored = {} /\ told = [c \in Client |-> << >>]
    /\ syncTimer = FALSE /\ reading = FALSE /\ again = FALSE /\ asked = FALSE
    /\ deleting = FALSE

SshNext ==
    \/ service = "local" /\ Next /\ UNCHANGED sshVars
    \/ \E k \in Kind : RawOutput(k)
    \/ ShellCloses \/ AttachTimeoutTooEarly \/ Register
    \/ \E c \in Client : SshAttach(c)
    \/ \E k \in Kind : ShellOutput(k)
    \/ HandshakeTimeout
    \/ \E c \in Client : SshInput(c)
    \/ SyncHistory \/ HistoryRead
    \/ \E c \in Client : DeleteHistoryEntry(c)
    \/ DeletionEnds
    \/ SshStep

(* Timers fire, the audit is written, a read ends, and a socket that closes *)
(* reports it.                                                              *)
SshSpec ==
    /\ SshInit /\ [][SshNext]_allVars
    /\ WF_creating(creating /\ creating' = FALSE) /\ WF_allVars(Timeout) /\ WF_allVars(HandshakeTimeout)
    /\ WF_allVars(SyncHistory) /\ WF_allVars(HistoryRead)
    /\ \A c \in Client : WF_allVars(Socket(c))

-----------------------------------------------------------------------------
(* Properties                                                               *)

(* Whatever the service, every frame was sent once, waits, was evicted as   *)
(* the oldest or withheld by the trust gate, which withholds no visible     *)
(* output; the buffer keeps its caps (bufferPendingStreamFrame,             *)
(* discardPendingRemoteShellEventFrames, flushPendingStreamFrames).         *)
StreamIsSafe ==
    /\ TypeOK /\ SshTypeOK
    /\ 1 .. produced = Received \cup Range(pending) \cup dropped \cup ignored
    /\ Received \cap (dropped \cup ignored) = {} /\ dropped \cap ignored = {}
    /\ Range(pending) \cap (Received \cup dropped \cup ignored) = {}
    /\ \A old \in dropped \cup Received, kept \in Range(pending) : old < kept
    /\ \A frame \in ignored : kind[frame] # "output"

Event(frame) == frame \in Output /\ service = "ssh" /\ kind[frame] # "output"

(* A client receives an event only when it was last told that the helper is *)
(* active, and only one that the trusted helper sent: after its handshake,  *)
(* and before anything that breaks its contract.  The client that is        *)
(* attached always knows the state of the helper (handleRemoteShellEvent,   *)
(* disableRemoteEnhancementsRuntime, onSessionAttached).                    *)
EventsAreTrusted ==
    /\ \A c \in Client : \A i \in 1 .. Len(sent[c]) :
         Event(sent[c][i]) =>
           /\ \E j \in 1 .. Len(told[c]) :
                /\ told[c][j].state = "active" /\ told[c][j].at < i
                /\ \A l \in (j + 1) .. Len(told[c]) : told[c][l].at >= i
           /\ \E first \in 1 .. sent[c][i] : kind[first] = "ready"
           /\ \A other \in 1 .. sent[c][i] : kind[other] = "foreign" => other \in dropped
    /\ service = "ssh" /\ live /\ Reachable =>
         told[attached] # << >> /\ Last(told[attached]).state = gate

(* A session that waits for a client or has lost its own ends, or gets one; *)
(* only one whose attach timer fired before it was registered may stay for  *)
(* ever (createSession, disposeSessionWithCommonLifecycle).                 *)
AbandonedSessionEnds ==
    live /\ ~Reachable /\ (timer \/ attached # None) ~> ~live \/ Reachable

(* A helper that was installed is trusted or given up: the session does not *)
(* wait for its handshake for ever (startRemoteEnhancementHandshakeTimeout).*)
GateSettles == live /\ gate = "pending" ~> gate # "pending" \/ ~live

(* After anything that may have changed the history of the host, a read of  *)
(* it begins: a read in flight does not swallow the next (syncRemote-       *)
(* History, scheduleHistorySync).                                           *)
HistoryCatchesUp == asked ~> ~asked \/ ~live

(* An installed helper is trusted or given up, and the history is read      *)
(* again after whatever may have changed it.                                *)
SshSettles == GateSettles /\ HistoryCatchesUp
=============================================================================
