------------------------------ MODULE AppClose ------------------------------
(***************************************************************************)
(* How the main process closes its window and quits: the guard that asks   *)
(* before live SSH and SFTP sessions are interrupted, the broker that puts *)
(* its question to the renderer, and the shutdown hooks of the app.        *)
(*                                                                         *)
(* The guard and the broker are asynchronous: between two of their awaits  *)
(* the user may open sessions, press any close button, answer an old       *)
(* dialog, or crash the renderer.  A window is the number of its           *)
(* webContents, a request the number of its opaque identifier.             *)
(***************************************************************************)
EXTENDS Naturals

CONSTANTS
    MaxWindow,   \* bound: windows created in one run of the app
    MaxRequest   \* bound: confirmations asked in one run of the app

ASSUME CloseAssumption == MaxWindow \in Nat \ {0} /\ MaxRequest \in Nat

Window  == 1 .. MaxWindow
Request == 1 .. MaxRequest
NoWindow  == 0
NoRequest == 0

VARIABLES
    isMac,        \* process.platform = 'darwin': it never changes
    window,       \* the main window that is open, or NoWindow
    windows,      \* how many windows were created
    sessions,     \* whether the backend has SSH or SFTP sessions
    decision,     \* pendingRequest of the guard: its stage and its intent
    confirmation, \* the broker's pending confirmation: its request and window
    requests,     \* how many confirmations were asked
    dialogs,      \* requests on screen, each with the window that shows it
    answers,      \* responses sent by renderers and not yet delivered
    agreed,       \* history: requests the user confirmed
    bypass,       \* bypassConnectionCloseGuard
    shutdown,     \* isAppShutdownInProgress, and how far the shutdown is
    approval      \* history: on what ground closing was last approved

broker == <<confirmation, requests>>
user   == <<dialogs, answers, agreed>>
closeVars == <<isMac, window, windows, sessions, decision, broker, user, bypass, shutdown, approval>>

Stage   == {"none", "probing", "answered", "preference", "confirming", "disconnecting"}
Ground  == {"none", "idle", "disabled", "unreachable", "confirmed", "forced"}
NoDecision == [at |-> "none", intent |-> "window", ground |-> "none", request |-> NoRequest]

CloseTypeOK ==
    /\ isMac \in BOOLEAN
    /\ window \in {NoWindow} \cup Window /\ windows \in Window
    /\ sessions \in BOOLEAN
    /\ decision \in [at: Stage, intent: {"window", "quit"}, ground: Ground,
                     request: {NoRequest} \cup Request]
    /\ confirmation \in [request: {NoRequest} \cup Request, window: {NoWindow} \cup Window]
    /\ requests \in {NoRequest} \cup Request
    /\ dialogs \subseteq [request: Request, window: Window]
    /\ answers \subseteq [request: Request, window: Window, confirmed: BOOLEAN]
    /\ agreed \subseteq Request
    /\ bypass \in BOOLEAN
    /\ shutdown \in {"no", "stopping backend", "cleaning", "exited", "exited early"}
    /\ approval \in Ground
    /\ decision.at = "disconnecting" => decision.ground # "none"

AppAlive      == shutdown \notin {"exited", "exited early"}
ShuttingDown  == shutdown # "no"
NoConfirmation == [request |-> NoRequest, window |-> NoWindow]

-----------------------------------------------------------------------------
(* Quitting                                                                 *)

(* beginAppShutdown, once.                                                  *)
BeginAppShutdown ==
    shutdown' = IF ShuttingDown THEN shutdown ELSE "stopping backend"

(* requestClose: one decision at a time, the second caller shares it.       *)
RequestClose(intent) ==
    IF decision.at = "none"
      THEN decision' = [NoDecision EXCEPT !.at = "probing", !.intent = intent]
      ELSE UNCHANGED decision

(* before-quit: it is let through while a shutdown is in progress, whatever *)
(* that shutdown still has to release.                                      *)
BeforeQuit(forced) ==
    IF ShuttingDown
      THEN shutdown' = "exited early" /\ UNCHANGED <<decision, approval>>
      ELSE IF forced
             THEN BeginAppShutdown /\ approval' = "forced" /\ UNCHANGED decision
             ELSE RequestClose("quit") /\ UNCHANGED <<shutdown, approval>>

(* The user quits from the menu, the dock or with a shortcut.               *)
QuitApp ==
    /\ AppAlive
    /\ BeforeQuit(bypass)
    /\ UNCHANGED <<isMac, window, windows, sessions, broker, user, bypass>>

(* A signal or a fatal error: quit without asking.                          *)
QuitWithoutConnectionWarning ==
    /\ AppAlive /\ ~bypass
    /\ bypass' = TRUE
    /\ BeforeQuit(TRUE)
    /\ UNCHANGED <<isMac, window, windows, sessions, broker, user>>

(* settle of the broker, and what the guard does with the answer.           *)
Settle(confirmed, ground) ==
    /\ confirmation' = NoConfirmation
    /\ decision' = IF confirmed
                     THEN [decision EXCEPT !.at = "disconnecting", !.ground = ground]
                     ELSE NoDecision

(* The webContents are destroyed: whoever was asked cannot answer any more, *)
(* and the broker agrees in the window's stead.                             *)
WindowGone ==
    /\ window' = NoWindow
    /\ dialogs' = {d \in dialogs : d.window # window}
    /\ IF confirmation.window = window
         THEN Settle(TRUE, "unreachable")
         ELSE UNCHANGED <<confirmation, decision>>

(* The window's close event: guarded until a shutdown is in progress.  Then *)
(* the window closes, and outside macOS the last window takes the app along.*)
CloseWindow ==
    /\ AppAlive /\ window # NoWindow
    /\ IF ShuttingDown
         THEN /\ WindowGone
              /\ shutdown' = IF isMac THEN shutdown ELSE "exited early"
         ELSE RequestClose("window") /\ UNCHANGED <<window, dialogs, confirmation, shutdown>>
    /\ UNCHANGED <<isMac, windows, sessions, requests, answers, agreed, bypass, approval>>

(* Approval: on macOS a window intent closes the window and no more, any    *)
(* other one shuts the app down.  The request is over.                      *)
Approve(ground) ==
    /\ IF isMac /\ decision.intent = "window"
         THEN window' = NoWindow /\ UNCHANGED shutdown
         ELSE BeginAppShutdown /\ UNCHANGED window
    /\ decision' = NoDecision
    /\ approval' = IF ShuttingDown THEN approval ELSE ground

(* stopBackendService returned, or threw: the sessions there were are cut.   *)
BackendStopped ==
    /\ shutdown = "stopping backend"
    /\ shutdown' = "cleaning"
    /\ sessions' = FALSE
    /\ UNCHANGED <<isMac, window, windows, decision, broker, user, bypass, approval>>

(* The temporary root is gone; app.quit() is now let through.               *)
TemporaryRootCleaned ==
    /\ shutdown = "cleaning"
    /\ shutdown' = "exited"
    /\ UNCHANGED <<isMac, window, windows, sessions, decision, broker, user, bypass, approval>>

-----------------------------------------------------------------------------
(* The guard                                                                *)

Goes(stage) == decision' = [decision EXCEPT !.at = stage]

GuardOnly == UNCHANGED <<isMac, windows, broker, user, bypass>>

(* The backend answers the probe: from here on the answer is only a memory. *)
ProbeAnswered ==
    /\ AppAlive /\ decision.at = "probing"
    /\ \/ ~sessions /\ decision' = [decision EXCEPT !.at = "answered", !.ground = "idle"]
       \/ sessions /\ Goes("preference")
    /\ GuardOnly /\ UNCHANGED <<window, sessions, shutdown, approval>>

(* The probe failed, timed out or returned counts that do not add up.       *)
ProbeFailed ==
    /\ AppAlive /\ decision.at = "probing"
    /\ Goes("preference")
    /\ GuardOnly /\ UNCHANGED <<window, sessions, shutdown, approval>>

(* The idle answer arrives: nobody is asked.                                *)
ApproveIdle ==
    /\ AppAlive /\ decision.at = "answered"
    /\ Approve("idle")
    /\ GuardOnly /\ UNCHANGED sessions

(* The preference says not to ask; the sessions are closed all the same.    *)
ConfirmationDisabled ==
    /\ AppAlive /\ decision.at = "preference"
    /\ decision' = [decision EXCEPT !.at = "disconnecting", !.ground = "disabled"]
    /\ GuardOnly /\ UNCHANGED <<window, sessions, shutdown, approval>>

(* The preference says to ask, or could not be read: the broker asks the    *)
(* open window.  Without one, or when sending throws, it agrees itself.     *)
AskForConfirmation ==
    /\ AppAlive /\ decision.at = "preference"
    /\ \/ /\ window # NoWindow /\ requests < MaxRequest
          /\ requests' = requests + 1
          /\ confirmation' = [request |-> requests', window |-> window]
          /\ dialogs' = dialogs \cup {confirmation'}
          /\ decision' = [decision EXCEPT !.at = "confirming", !.request = requests']
       \/ /\ decision' = [decision EXCEPT !.at = "disconnecting", !.ground = "unreachable"]
          /\ UNCHANGED <<broker, dialogs>>
    /\ UNCHANGED <<isMac, window, windows, sessions, answers, agreed, bypass, shutdown, approval>>

Mut_AnyRequest(a) ==
    /\ AppAlive /\ a \in answers
    /\ answers' = answers \ {a}
    /\ IF confirmation.request # NoRequest /\ a.window = confirmation.window
         THEN Settle(a.confirmed, "confirmed")
         ELSE UNCHANGED <<confirmation, decision>>
    /\ UNCHANGED <<isMac, window, windows, sessions, requests, dialogs, agreed, bypass, shutdown, approval>>

(* resolveConfirmation: an answer counts for the request it names and from  *)
(* the window that was asked, or not at all.                                *)
ResolveConfirmation(a) ==
    /\ AppAlive /\ a \in answers
    /\ answers' = answers \ {a}
    /\ IF a.request = confirmation.request /\ a.window = confirmation.window
         THEN Settle(a.confirmed, "confirmed")
         ELSE UNCHANGED <<confirmation, decision>>
    /\ UNCHANGED <<isMac, window, windows, sessions, requests, dialogs, agreed, bypass, shutdown, approval>>

Mut_TimerNotArmed ==
    /\ AppAlive /\ decision.at = "confirming" /\ confirmation = NoConfirmation
    /\ Settle(FALSE, "none")
    /\ UNCHANGED <<isMac, window, windows, sessions, requests, user, bypass, shutdown, approval>>

(* The broker's timer: the safe answer is no.                               *)
ConfirmationTimeout ==
    /\ AppAlive /\ decision.at = "confirming"
    /\ Settle(FALSE, "none")
    /\ UNCHANGED <<isMac, window, windows, sessions, requests, user, bypass, shutdown, approval>>

(* DELETE of the active connections: it works or it fails, closing goes on. *)
Disconnected ==
    /\ AppAlive /\ decision.at = "disconnecting"
    /\ sessions' \in {sessions, FALSE}
    /\ Approve(decision.ground)
    /\ UNCHANGED <<isMac, windows, broker, user, bypass>>

-----------------------------------------------------------------------------
(* The user, the renderer and the backend                                   *)

OpenSession ==
    /\ AppAlive /\ window # NoWindow /\ ~sessions /\ shutdown # "cleaning"
    /\ sessions' = TRUE
    /\ UNCHANGED <<isMac, window, windows, decision, broker, user, bypass, shutdown, approval>>

EndSession ==
    /\ AppAlive /\ sessions
    /\ sessions' = FALSE
    /\ UNCHANGED <<isMac, window, windows, decision, broker, user, bypass, shutdown, approval>>

(* A dialog is answered while its window lives, however late.               *)
AnswerDialog(d, confirmed) ==
    /\ AppAlive /\ d \in dialogs /\ d.window = window
    /\ dialogs' = dialogs \ {d}
    /\ answers' = answers \cup {[request |-> d.request, window |-> d.window, confirmed |-> confirmed]}
    /\ agreed' = IF confirmed THEN agreed \cup {d.request} ELSE agreed
    /\ UNCHANGED <<isMac, window, windows, sessions, decision, broker, bypass, shutdown, approval>>

(* The window is destroyed without a close event; outside macOS the app     *)
(* then quits, and the guard hears of it.                                   *)
WindowDestroyed ==
    /\ AppAlive /\ ~ShuttingDown /\ window # NoWindow
    /\ IF isMac \/ decision.at # "none"
         THEN WindowGone
         ELSE /\ window' = NoWindow /\ dialogs' = {d \in dialogs : d.window # window}
              /\ RequestClose("quit") /\ UNCHANGED confirmation
    /\ UNCHANGED <<isMac, windows, sessions, requests, answers, agreed, bypass, shutdown, approval>>

(* macOS: the app outlives its window and opens another.                    *)
Activate ==
    /\ isMac /\ AppAlive /\ window = NoWindow /\ windows < MaxWindow
    /\ windows' = windows + 1
    /\ window' = windows'
    /\ UNCHANGED <<isMac, sessions, decision, broker, user, bypass, shutdown, approval>>

-----------------------------------------------------------------------------
CloseInit ==
    /\ isMac \in BOOLEAN
    /\ window = 1 /\ windows = 1
    /\ sessions = FALSE
    /\ decision = NoDecision
    /\ confirmation = NoConfirmation /\ requests = NoRequest
    /\ dialogs = {} /\ answers = {} /\ agreed = {}
    /\ bypass = FALSE /\ shutdown = "no"
    /\ approval = "none"

GuardGoesOn ==
    \/ ProbeAnswered \/ ProbeFailed \/ ApproveIdle
    \/ ConfirmationDisabled \/ AskForConfirmation \/ Disconnected

ShutdownGoesOn == BackendStopped \/ TemporaryRootCleaned

UserActs ==
    \/ QuitApp \/ CloseWindow \/ OpenSession \/ Activate
    \/ \E d \in dialogs, confirmed \in BOOLEAN : AnswerDialog(d, confirmed)

CloseNext ==
    \/ GuardGoesOn \/ ShutdownGoesOn \/ UserActs
    \/ QuitWithoutConnectionWarning
    \/ \E a \in answers : ResolveConfirmation(a)
    \/ ConfirmationTimeout \/ EndSession \/ WindowDestroyed

CloseSpec == CloseInit /\ [][CloseNext]_closeVars

(* The backend answers or the request times out, timers fire, and stopping  *)
(* the backend is bounded by its own timers.  Users owe nothing.            *)
CloseFairSpec ==
    /\ CloseSpec
    /\ WF_closeVars(GuardGoesOn) /\ WF_closeVars(ConfirmationTimeout) /\ WF_closeVars(ShutdownGoesOn)

-----------------------------------------------------------------------------
(* Properties                                                               *)

(* Nobody's sessions are closed on a confirmation the user did not give for *)
(* this very question: a late yes to a dialog that timed out is no yes.     *)
ConfirmationIsForThisRequest ==
    decision.ground = "confirmed" => decision.request \in agreed

(* The guard waits for the broker exactly as long as the question is open,  *)
(* and the window that was asked is there to answer.                        *)
QuestionIsOnScreen ==
    /\ decision.at = "confirming" <=> confirmation # NoConfirmation
    /\ decision.at = "confirming" => /\ confirmation.request = decision.request
                                     /\ confirmation.window = window

(* No way of closing leads out of the app but through an approval, be it a  *)
(* forced one.                                                              *)
NothingExitsUnapproved == ShuttingDown => approval # "none"

(* The guard, the broker and the window agree on what is asked, and nothing *)
(* is closed without an approval.                                           *)
CloseIsAgreed ==
    CloseTypeOK /\ ConfirmationIsForThisRequest /\ QuestionIsOnScreen /\ NothingExitsUnapproved

(* Every decision ends, answered or not: a close request can be repeated.   *)
EveryDecisionEnds == decision.at # "none" ~> (decision.at = "none" \/ ~AppAlive)

(* A shutdown, once approved, leaves the app.                               *)
ShutdownEnds == ShuttingDown ~> ~AppAlive

(* Whoever stays silent, the user, the renderer or the backend, closing and *)
(* quitting come to an end.                                                 *)
CloseSettles == EveryDecisionEnds /\ ShutdownEnds

(* packages/main/src/index.ts:1697 "Performs one idempotent application     *)
(* shutdown and always releases Main-owned resources."                      *)
ResourcesAreReleased == shutdown # "exited early"
=============================================================================
