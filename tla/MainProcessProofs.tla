------------------------- MODULE MainProcessProofs --------------------------
(***************************************************************************)
(* What the main process does with its window and its backend.             *)
(*                                                                         *)
(* Closing and quitting are agreed upon, for every number of windows and   *)
(* of questions.  There is one backend, and a stop waits for an exit that  *)
(* is still to come, for every number of start runs.                       *)
(***************************************************************************)
EXTENDS AppClose, BackendLifecycle, FiniteSetTheorems, TLAPS

-----------------------------------------------------------------------------
(* Closing and quitting.                                                   *)

-----------------------------------------------------------------------------
(* The invariant.                                                          *)

\* What the guard decides, and what the broker has pending.
Decision     == [at: Stage, intent: {"window", "quit"}, ground: Ground,
                 request: {NoRequest} \cup Request]
\* The pending question: the request and the window that shows it, or
\* nothing.
Confirmation == [request: {NoRequest} \cup Request, window: {NoWindow} \cup Window]

\* The inductive invariant. What the run checks is not inductive by itself:
\* it has to be known that a decision has no ground before it has earned one,
\* that a pending question names a real request and a real window, and that
\* every positive answer still travelling was given by a user.
CloseInv ==
    /\ CloseIsAgreed
    /\ decision.at \in {"none", "probing", "preference", "confirming"} => decision.ground = "none"
    /\ confirmation # NoConfirmation => confirmation.request # NoRequest /\ confirmation.window # NoWindow
    /\ \A a \in answers : a.confirmed => a.request \in agreed

\* Windows and requests are counted from one: the values that stand for none
\* are no members.
LEMMA Numbers ==
    /\ NoWindow \notin Window /\ NoRequest \notin Request /\ 1 \in Window
    /\ \A w \in Window : w < MaxWindow => w + 1 \in Window
    /\ \A r \in {NoRequest} \cup Request : r < MaxRequest => r + 1 \in Request
  BY CloseAssumption DEF Window, Request, NoWindow, NoRequest

\* The record of a guard at rest.
LEMMA NoDecisionFields ==
    /\ NoDecision \in Decision
    /\ NoDecision.at = "none" /\ NoDecision.ground = "none" /\ NoDecision.request = NoRequest
  BY DEF NoDecision, Decision, Stage, Ground

\* The record of a broker at rest.
LEMMA NoConfirmationFields ==
    /\ NoConfirmation \in Confirmation
    /\ NoConfirmation.request = NoRequest /\ NoConfirmation.window = NoWindow
  BY DEF NoConfirmation, Confirmation

\* A new decision starts with the probe, without ground and question.
LEMMA DecisionBegins ==
  ASSUME NEW intent \in {"window", "quit"}, NEW e,
         e = [NoDecision EXCEPT !.at = "probing", !.intent = intent]
  PROVE  e \in Decision /\ e.at = "probing" /\ e.ground = "none" /\ e.request = NoRequest
  BY DEF Decision, NoDecision, Stage, Ground

-----------------------------------------------------------------------------
(* The invariant in parts, as operators of the state they speak about.     *)

\* The part of the invariant about guard and broker, of any values d, c, w
\* and ag of decision, confirmation, window and agreed.
Guarded(d, c, w, ag) ==
    /\ d \in Decision /\ c \in Confirmation
    /\ d.at = "disconnecting" => d.ground # "none"
    /\ d.at \in {"none", "probing", "preference", "confirming"} => d.ground = "none"
    /\ d.ground = "confirmed" => d.request \in ag
    /\ d.at = "confirming" <=> c # NoConfirmation
    /\ c # NoConfirmation => /\ c.request # NoRequest /\ c.window # NoWindow
                             /\ c.request = d.request /\ c.window = w

\* The part of the invariant about the window, the user and the shutdown.
Rest(w, ws, dl, an, ag, sh, ap) ==
    /\ w \in {NoWindow} \cup Window /\ ws \in Window
    /\ dl \subseteq [request: Request, window: Window]
    /\ an \subseteq [request: Request, window: Window, confirmed: BOOLEAN]
    /\ ag \subseteq Request
    /\ sh \in {"no", "stopping backend", "cleaning", "exited", "exited early"}
    /\ ap \in Ground
    /\ sh # "no" => ap # "none"
    /\ \A a \in an : a.confirmed => a.request \in ag

\* The part that is only about types.
Flags ==
    /\ isMac \in BOOLEAN /\ sessions \in BOOLEAN /\ bypass \in BOOLEAN
    /\ requests \in {NoRequest} \cup Request

\* The three parts make up the invariant ...
LEMMA CloseInvParts ==
  CloseInv <=> /\ Guarded(decision, confirmation, window, agreed)
               /\ Rest(window, windows, dialogs, answers, agreed, shutdown, approval)
               /\ Flags
  BY DEF CloseInv, CloseIsAgreed, CloseTypeOK, ConfirmationIsForThisRequest, QuestionIsOnScreen,
     NothingExitsUnapproved, ShuttingDown, Guarded, Rest, Flags, Decision, Confirmation

\* ... and after a step as well.
LEMMA CloseInvPartsAfter ==
  CloseInv' <=> /\ Guarded(decision', confirmation', window', agreed')
                /\ Rest(window', windows', dialogs', answers', agreed', shutdown', approval')
                /\ Flags'
  BY DEF CloseInv, CloseIsAgreed, CloseTypeOK, ConfirmationIsForThisRequest, QuestionIsOnScreen,
     NothingExitsUnapproved, ShuttingDown, Guarded, Rest, Flags, Decision, Confirmation

-----------------------------------------------------------------------------
(* How the guard moves.                                                    *)

\* A guard at rest and a broker at rest agree.
LEMMA GuardRests ==
  ASSUME NEW w, NEW ag
  PROVE  Guarded(NoDecision, NoConfirmation, w, ag)
  BY NoDecisionFields, NoConfirmationFields DEF Guarded

\* A decision that disconnects on a ground, with no question pending, is in
\* order.
LEMMA GuardDisconnects ==
  ASSUME NEW e \in Decision, e.at = "disconnecting", e.ground # "none", NEW w, NEW ag,
         e.ground = "confirmed" => e.request \in ag
  PROVE  Guarded(e, NoConfirmation, w, ag)
  BY NoConfirmationFields DEF Guarded

\* settle: whoever answers, the guard goes on only on a ground, and on the
\* ground of a confirmation only if a user gave it.
LEMMA GuardSettles ==
  ASSUME Guarded(decision, confirmation, window, agreed),
         NEW confirmed \in BOOLEAN, NEW ground \in Ground, NEW w, Settle(confirmed, ground),
         confirmed => ground # "none",
         confirmed /\ ground = "confirmed" => decision.request \in agreed
  PROVE  Guarded(decision', confirmation', w, agreed)
<1>1. confirmation' = NoConfirmation /\ decision \in Decision
  BY DEF Settle, Guarded
<1>2. CASE confirmed
  <2>1. decision' = [decision EXCEPT !.at = "disconnecting", !.ground = ground]
    BY <1>2 DEF Settle
  <2>2. /\ decision' \in Decision /\ decision'.at = "disconnecting"
        /\ decision'.ground = ground /\ decision'.request = decision.request
    BY <1>1, <2>1 DEF Decision, Stage
  <2>3. ground # "none" /\ (ground = "confirmed" => decision.request \in agreed)
    BY <1>2
  <2> QED
    BY <1>1, <2>2, <2>3, GuardDisconnects
<1>3. CASE ~confirmed
  <2>1. decision' = NoDecision
    BY <1>3 DEF Settle
  <2> QED
    BY <1>1, <2>1, GuardRests
<1> QED
  BY <1>2, <1>3

\* A destroyed window takes its question along: nobody is asked any more.
LEMMA GuardLosesWindow ==
  ASSUME Guarded(decision, confirmation, window, agreed), window # NoWindow, WindowGone
  PROVE  Guarded(decision', confirmation', window', agreed)
<1>1. CASE confirmation.window = window
  <2>1. Settle(TRUE, "unreachable")
    BY <1>1 DEF WindowGone
  <2>2. "unreachable" \in Ground
    BY DEF Ground
  <2> QED
    BY <2>1, <2>2, GuardSettles
<1>2. CASE confirmation.window # window
  <2>1. UNCHANGED <<confirmation, decision>>
    BY <1>2 DEF WindowGone
  <2> QED
    BY <1>2, <2>1 DEF Guarded
<1> QED
  BY <1>1, <1>2

\* requestClose begins a decision or joins the one there is.
LEMMA GuardBegins ==
  ASSUME Guarded(decision, confirmation, window, agreed), UNCHANGED confirmation,
         NEW intent \in {"window", "quit"}, RequestClose(intent), NEW w, w = window \/ decision.at = "none"
  PROVE  Guarded(decision', confirmation', w, agreed)
<1>1. CASE decision.at = "none"
  <2>1. decision' = [NoDecision EXCEPT !.at = "probing", !.intent = intent]
    BY <1>1 DEF RequestClose
  <2>2. /\ decision' \in Decision /\ decision'.at = "probing"
        /\ decision'.ground = "none" /\ decision'.request = NoRequest
    BY <2>1, DecisionBegins
  <2> QED
    BY <1>1, <2>2 DEF Guarded
<1>2. CASE decision.at # "none"
  <2>1. UNCHANGED decision
    BY <1>2 DEF RequestClose
  <2> QED
    BY <1>2, <2>1 DEF Guarded
<1> QED
  BY <1>1, <1>2

\* approve: the decision is over, and an application that shuts down does so
\* on the ground it was approved on.
LEMMA Approved ==
  ASSUME NEW ground \in Ground \ {"none"}, Approve(ground),
         confirmation = NoConfirmation, UNCHANGED <<confirmation, agreed, dialogs, windows, answers>>,
         Rest(window, windows, dialogs, answers, agreed, shutdown, approval)
  PROVE  /\ Guarded(decision', confirmation', window', agreed')
         /\ Rest(window', windows', dialogs', answers', agreed', shutdown', approval')
<1>1. decision' = NoDecision
  BY DEF Approve
<1>2. window' \in {window, NoWindow}
  BY DEF Approve
<1>3. shutdown' \in {shutdown, "stopping backend"} /\ approval' \in {approval, ground}
  BY DEF Approve, BeginAppShutdown
<1>4. shutdown # "no" => approval' = approval /\ shutdown' = shutdown
  BY DEF Approve, BeginAppShutdown, ShuttingDown
<1>5. shutdown = "no" => approval' = ground
  BY DEF Approve, ShuttingDown
<1> QED
  BY <1>1, <1>2, <1>3, <1>4, <1>5, GuardRests DEF Rest

-----------------------------------------------------------------------------
(* The invariant is inductive.                                             *)

\* Every step keeps the invariant, one case per action.
LEMMA ClosePreserved == CloseInv /\ [CloseNext]_closeVars => CloseInv'
<1> SUFFICES ASSUME Guarded(decision, confirmation, window, agreed),
                    Rest(window, windows, dialogs, answers, agreed, shutdown, approval),
                    Flags, [CloseNext]_closeVars
             PROVE  /\ Guarded(decision', confirmation', window', agreed')
                    /\ Rest(window', windows', dialogs', answers', agreed', shutdown', approval')
                    /\ Flags'
  BY CloseInvParts, CloseInvPartsAfter
<1> DEFINE Goal == /\ Guarded(decision', confirmation', window', agreed')
                    /\ Rest(window', windows', dialogs', answers', agreed', shutdown', approval')
                    /\ Flags'
<1>0. decision \in Decision /\ confirmation \in Confirmation
  BY DEF Guarded
<1>1. CASE UNCHANGED closeVars
  BY <1>1 DEF closeVars, broker, user, Flags
<1>2. CASE ProbeAnswered \/ ProbeFailed
  <2>1. UNCHANGED <<isMac, window, windows, sessions, confirmation, requests, dialogs, answers,
                    agreed, bypass, shutdown, approval>>
    BY <1>2 DEF ProbeAnswered, ProbeFailed, GuardOnly, broker, user
  <2>2. decision.at = "probing"
    BY <1>2 DEF ProbeAnswered, ProbeFailed
  <2>3. \/ decision' = [decision EXCEPT !.at = "answered", !.ground = "idle"]
        \/ decision' = [decision EXCEPT !.at = "preference"]
    BY <1>2 DEF ProbeAnswered, ProbeFailed, Goes
  <2>4. /\ decision' \in Decision /\ decision'.request = decision.request
        /\ \/ decision'.at = "answered" /\ decision'.ground = "idle"
           \/ decision'.at = "preference" /\ decision'.ground = decision.ground
    <3>1. "answered" \in Stage /\ "preference" \in Stage /\ "idle" \in Ground
      BY DEF Stage, Ground
    <3> QED
      BY <1>0, <2>3, <3>1 DEF Decision
  <2>5. confirmation = NoConfirmation /\ decision.ground = "none"
    BY <2>2 DEF Guarded
  <2>6. Guarded(decision', confirmation, window, agreed)
    BY <2>4, <2>5, NoConfirmationFields DEF Guarded
  <2> QED
    BY <2>1, <2>6 DEF Rest, Flags
<1>3. CASE ApproveIdle
  <2>1. decision.at = "answered" /\ Approve("idle")
    BY <1>3 DEF ApproveIdle
  <2>2. confirmation = NoConfirmation
    BY <2>1 DEF Guarded
  <2>3. UNCHANGED <<isMac, windows, sessions, confirmation, requests, dialogs, answers, agreed, bypass>>
    BY <1>3 DEF ApproveIdle, GuardOnly, broker, user
  <2>4. "idle" \in Ground \ {"none"}
    BY DEF Ground
  <2> QED
    BY <2>1, <2>2, <2>3, <2>4, Approved DEF Flags
<1>4. CASE ConfirmationDisabled
  <2>1. UNCHANGED <<isMac, window, windows, sessions, confirmation, requests, dialogs, answers,
                    agreed, bypass, shutdown, approval>>
    BY <1>4 DEF ConfirmationDisabled, GuardOnly, broker, user
  <2>2. decision' = [decision EXCEPT !.at = "disconnecting", !.ground = "disabled"]
    BY <1>4 DEF ConfirmationDisabled
  <2>3. "disabled" \in Ground \ {"none"}
    BY DEF Ground
  <2>4. confirmation = NoConfirmation
    BY <1>4 DEF ConfirmationDisabled, Guarded
  <2> QED
    <3>1. /\ decision' \in Decision /\ decision'.at = "disconnecting"
          /\ decision'.ground = "disabled" /\ decision'.request = decision.request
      BY <1>0, <2>2, <2>3 DEF Decision, Stage
    <3>2. Guarded(decision', NoConfirmation, window, agreed)
      BY <3>1, GuardDisconnects
    <3> QED
      BY <2>1, <2>4, <3>2 DEF Rest, Flags
<1>5. CASE AskForConfirmation
  <2>1. UNCHANGED <<isMac, window, windows, sessions, answers, agreed, bypass, shutdown, approval>>
    BY <1>5 DEF AskForConfirmation
  <2>2. decision.at = "preference" /\ confirmation = NoConfirmation /\ decision.ground = "none"
    BY <1>5 DEF AskForConfirmation, Guarded
  <2>3. CASE /\ window # NoWindow /\ requests < MaxRequest
             /\ requests' = requests + 1
             /\ confirmation' = [request |-> requests', window |-> window]
             /\ dialogs' = dialogs \cup {confirmation'}
             /\ decision' = [decision EXCEPT !.at = "confirming", !.request = requests']
    <3>0. /\ requests < MaxRequest /\ requests' = requests + 1 /\ window # NoWindow
          /\ requests \in {NoRequest} \cup Request
      BY <2>3 DEF Flags
    <3>1. requests' \in Request
      BY <3>0, CloseAssumption DEF Request, NoRequest
    <3>2. window \in Window
      BY <3>0 DEF Rest
    <3>2a. decision' = [decision EXCEPT !.at = "confirming", !.request = requests']
      BY <2>3
    <3>2b. /\ confirmation' = [request |-> requests', window |-> window]
           /\ dialogs' = dialogs \cup {confirmation'}
      BY <2>3
    <3>3. /\ decision' \in Decision /\ decision'.at = "confirming"
          /\ decision'.ground = "none" /\ decision'.request = requests'
      BY <1>0, <2>2, <3>1, <3>2a DEF Decision, Stage
    <3>4. /\ confirmation' \in Confirmation /\ confirmation' \in [request: Request, window: Window]
          /\ confirmation'.request = requests' /\ confirmation'.window = window
      BY <3>2b, <3>1, <3>2 DEF Confirmation
    <3>5. confirmation' # NoConfirmation
      BY <3>1, <3>4, Numbers, NoConfirmationFields
    <3>6. Guarded(decision', confirmation', window', agreed')
      BY <2>1, <3>1, <3>2, <3>3, <3>4, <3>5, Numbers DEF Guarded
    <3>7. Rest(window', windows', dialogs', answers', agreed', shutdown', approval')
      BY <2>1, <3>2b, <3>4 DEF Rest
    <3> QED
      BY <2>1, <3>1, <3>6, <3>7 DEF Flags
  <2>4. CASE /\ decision' = [decision EXCEPT !.at = "disconnecting", !.ground = "unreachable"]
             /\ UNCHANGED <<broker, dialogs>>
    <3>1. "unreachable" \in Ground \ {"none"}
      BY DEF Ground
    <3> QED
      <4>1. /\ decision' \in Decision /\ decision'.at = "disconnecting"
            /\ decision'.ground = "unreachable" /\ decision'.request = decision.request
        BY <1>0, <2>4, <3>1 DEF Decision, Stage
      <4>2. Guarded(decision', NoConfirmation, window, agreed)
        BY <4>1, GuardDisconnects
      <4>3. UNCHANGED <<confirmation, requests, dialogs>>
        BY <2>4 DEF broker
      <4> QED
        BY <2>1, <2>2, <4>2, <4>3 DEF Rest, Flags
  <2> QED
    BY <1>5, <2>3, <2>4 DEF AskForConfirmation
<1>6. CASE Disconnected
  <2>1. decision.at = "disconnecting" /\ Approve(decision.ground)
    BY <1>6 DEF Disconnected
  <2>2. confirmation = NoConfirmation /\ decision.ground \in Ground \ {"none"}
    BY <1>0, <2>1 DEF Guarded, Decision
  <2>3. UNCHANGED <<isMac, windows, confirmation, requests, dialogs, answers, agreed, bypass>>
    BY <1>6 DEF Disconnected, broker, user
  <2>4. sessions' \in BOOLEAN
    BY <1>6 DEF Disconnected, Flags
  <2> QED
    BY <2>1, <2>2, <2>3, <2>4, Approved DEF Flags
<1>7. CASE BackendStopped \/ TemporaryRootCleaned \/ OpenSession \/ EndSession
  <2>1. UNCHANGED <<isMac, window, windows, decision, confirmation, requests, dialogs, answers,
                    agreed, bypass, approval>>
    BY <1>7 DEF BackendStopped, TemporaryRootCleaned, OpenSession, EndSession, broker, user
  <2>2. sessions' \in {sessions, TRUE, FALSE}
    BY <1>7 DEF BackendStopped, TemporaryRootCleaned, OpenSession, EndSession
  <2>3. shutdown' = shutdown \/ (shutdown # "no" /\ shutdown' \in {"cleaning", "exited"})
    BY <1>7 DEF BackendStopped, TemporaryRootCleaned, OpenSession, EndSession
  <2> QED
    BY <2>1, <2>2, <2>3 DEF Rest, Flags
<1>8. CASE QuitApp \/ QuitWithoutConnectionWarning
  <2>1. UNCHANGED <<isMac, window, windows, sessions, confirmation, requests, dialogs, answers, agreed>>
    BY <1>8 DEF QuitApp, QuitWithoutConnectionWarning, broker, user
  <2>2. bypass' \in BOOLEAN
    BY <1>8 DEF QuitApp, QuitWithoutConnectionWarning, Flags
  <2>3. PICK forced \in BOOLEAN : BeforeQuit(forced)
    BY <1>8 DEF QuitApp, QuitWithoutConnectionWarning, Flags
  <2>4. \/ UNCHANGED decision
        \/ RequestClose("quit")
    BY <2>3 DEF BeforeQuit
  <2>5. Guarded(decision', confirmation', window', agreed')
    BY <2>1, <2>4, GuardBegins
  <2>6. \/ shutdown # "no" /\ shutdown' = "exited early" /\ approval' = approval
        \/ shutdown' = "stopping backend" /\ approval' = "forced"
        \/ shutdown' = shutdown /\ approval' = approval
    BY <2>3 DEF BeforeQuit, BeginAppShutdown, ShuttingDown
  <2>7. "forced" \in Ground
    BY DEF Ground
  <2> QED
    BY <2>1, <2>2, <2>5, <2>6, <2>7 DEF Rest, Flags
<1>9. CASE CloseWindow
  <2>1. /\ window # NoWindow
        /\ UNCHANGED <<isMac, windows, sessions, requests, answers, agreed, bypass, approval>>
    BY <1>9 DEF CloseWindow
  <2>2. CASE ShuttingDown
    <3>1. WindowGone /\ shutdown' \in {shutdown, "exited early"}
      BY <1>9, <2>2 DEF CloseWindow
    <3>2. window' = NoWindow /\ dialogs' \subseteq dialogs
      BY <3>1 DEF WindowGone
    <3> QED
      BY <2>1, <2>2, <3>1, <3>2, GuardLosesWindow DEF Rest, Flags, ShuttingDown
  <2>3. CASE ~ShuttingDown
    <3>1. RequestClose("window") /\ UNCHANGED <<window, dialogs, confirmation, shutdown>>
      BY <1>9, <2>3 DEF CloseWindow
    <3> QED
      BY <2>1, <3>1, GuardBegins DEF Rest, Flags
  <2> QED
    BY <2>2, <2>3
<1>10. CASE WindowDestroyed
  <2>1. /\ window # NoWindow
        /\ UNCHANGED <<isMac, windows, sessions, requests, answers, agreed, bypass, shutdown, approval>>
    BY <1>10 DEF WindowDestroyed
  <2>2. window' = NoWindow /\ dialogs' \subseteq dialogs
    BY <1>10 DEF WindowDestroyed, WindowGone
  <2>3. \/ WindowGone
        \/ decision.at = "none" /\ RequestClose("quit") /\ UNCHANGED confirmation
    BY <1>10 DEF WindowDestroyed
  <2> QED
    BY <2>1, <2>2, <2>3, GuardLosesWindow, GuardBegins DEF Rest, Flags
<1>11. CASE Activate
  <2>1. UNCHANGED <<isMac, sessions, decision, confirmation, requests, dialogs, answers, agreed, bypass,
                    shutdown, approval>>
    BY <1>11 DEF Activate, broker, user
  <2>2. windows' \in Window /\ window' = windows'
    <3>1. windows < MaxWindow /\ windows' = windows + 1 /\ windows \in Window
      BY <1>11 DEF Activate, Rest
    <3> QED
      BY <1>11, <3>1, CloseAssumption DEF Activate, Window
  <2>3. confirmation = NoConfirmation
    BY <1>11 DEF Activate, Guarded
  <2> QED
    BY <2>1, <2>2, <2>3 DEF Guarded, Rest, Flags
<1>12. ASSUME NEW d \in dialogs, NEW confirmed \in BOOLEAN, AnswerDialog(d, confirmed) PROVE Goal
  <2>1. UNCHANGED <<isMac, window, windows, sessions, decision, confirmation, requests, bypass,
                    shutdown, approval>>
    BY <1>12 DEF AnswerDialog, broker
  <2>2. d.request \in Request /\ d.window \in Window
    BY <1>12 DEF Rest
  <2> DEFINE a == [request |-> d.request, window |-> d.window, confirmed |-> confirmed]
  <2>3. /\ a \in [request: Request, window: Window, confirmed: BOOLEAN]
        /\ a.request = d.request /\ a.confirmed = confirmed
    BY <2>2
  <2>4. answers' = answers \cup {a} /\ dialogs' \subseteq dialogs
    BY <1>12 DEF AnswerDialog
  <2>5. agreed' = IF confirmed THEN agreed \cup {d.request} ELSE agreed
    BY <1>12 DEF AnswerDialog
  <2> HIDE DEF a
  <2>6. /\ agreed \subseteq agreed' /\ agreed' \subseteq agreed \cup {d.request}
        /\ a.confirmed => a.request \in agreed'
    BY <2>3, <2>5
  <2>7. Guarded(decision', confirmation', window', agreed')
    BY <2>1, <2>6 DEF Guarded
  <2>8. Rest(window', windows', dialogs', answers', agreed', shutdown', approval')
    BY <2>1, <2>2, <2>3, <2>4, <2>6 DEF Rest
  <2> QED
    BY <2>1, <2>7, <2>8 DEF Flags
<1>13. ASSUME NEW a \in answers, ResolveConfirmation(a) PROVE Goal
  <2>1. /\ UNCHANGED <<isMac, window, windows, sessions, requests, dialogs, agreed, bypass, shutdown,
                       approval>>
        /\ answers' \subseteq answers
    BY <1>13 DEF ResolveConfirmation
  <2>2. a.request \in Request /\ a.confirmed \in BOOLEAN /\ (a.confirmed => a.request \in agreed)
    BY <1>13 DEF Rest
  <2>3. CASE a.request = confirmation.request /\ a.window = confirmation.window
    <3>1. Settle(a.confirmed, "confirmed")
      BY <1>13, <2>3 DEF ResolveConfirmation
    <3>2. confirmation # NoConfirmation
      BY <2>2, <2>3, Numbers, NoConfirmationFields
    <3>3. a.confirmed => decision.request \in agreed
      BY <2>2, <2>3, <3>2 DEF Guarded
    <3>4. "confirmed" \in Ground
      BY DEF Ground
    <3>5. Guarded(decision', confirmation', window, agreed)
      BY <2>2, <3>1, <3>3, <3>4, GuardSettles
    <3> QED
      BY <2>1, <3>5 DEF Rest, Flags
  <2>4. CASE ~(a.request = confirmation.request /\ a.window = confirmation.window)
    <3>1. UNCHANGED <<confirmation, decision>>
      BY <1>13, <2>4 DEF ResolveConfirmation
    <3> QED
      BY <2>1, <3>1 DEF Rest, Flags
  <2> QED
    BY <2>3, <2>4
<1>14. CASE ConfirmationTimeout
  <2>1. UNCHANGED <<isMac, window, windows, sessions, requests, dialogs, answers, agreed, bypass,
                    shutdown, approval>>
    BY <1>14 DEF ConfirmationTimeout, user
  <2>2. Settle(FALSE, "none") /\ "none" \in Ground
    BY <1>14 DEF ConfirmationTimeout, Ground
  <2>3. Guarded(decision', confirmation', window, agreed)
    BY <2>2, GuardSettles
  <2> QED
    BY <2>1, <2>3 DEF Rest, Flags
<1> QED
  BY <1>1, <1>2, <1>3, <1>4, <1>5, <1>6, <1>7, <1>8, <1>9, <1>10, <1>11, <1>12, <1>13, <1>14
     DEF CloseNext, GuardGoesOn, ShutdownGoesOn, UserActs

\* connection-close-guard.ts and connection-close-confirmation.ts: whatever
\* the user, the renderer and the backend do, types are kept, the guard waits
\* exactly for the question the broker has pending, a question is pending
\* only for the window that shows it, and the application shuts down only on
\* a ground: idle sessions, a preference not to ask, a confirmation some user
\* gave, nobody to ask, or force.
THEOREM CloseAlwaysAgreed == CloseSpec => []CloseIsAgreed
<1>1. CloseInit => CloseInv
  <2> SUFFICES ASSUME CloseInit PROVE CloseInv
    OBVIOUS
  <2>1. Guarded(decision, confirmation, window, agreed)
    BY GuardRests DEF CloseInit
  <2>2. Rest(window, windows, dialogs, answers, agreed, shutdown, approval)
    BY Numbers DEF CloseInit, Rest, Ground
  <2>3. Flags
    BY DEF CloseInit, Flags
  <2> QED
    BY <2>1, <2>2, <2>3, CloseInvParts
<1> QED
  BY <1>1, ClosePreserved, PTL DEF CloseSpec, CloseInv

-----------------------------------------------------------------------------
(* The backend.                                                            *)

-----------------------------------------------------------------------------
(* The invariant.                                                          *)

\* Runs that have yet to spawn their child.
Preparing == {r \in Run : run[r].at = "preparing"}
\* A run under way.
Active(r) == run[r].at \in {"preparing", "waiting", "answered"}

\* Children are counted by the runs that spawn them: what was spawned and
\* what is still to be spawned never exceeds the runs begun, so that a spawn
\* always has a fresh number.
Counted ==
    /\ spawned + Cardinality(Preparing) <= runs
    /\ \A r \in Run : r > runs => run[r].at = "none"

\* A stop under way has signalled the child it waits for.
StopInv ==
    /\ StopWaitsForItsChild
    /\ stop.at # "none" => stop.child \in signalled

\* As long as nothing disturbs the sharing of starts: no stop, no child but
\* the current one, no run but the promised one, and a current child either
\* belongs to the run under way or serves.
Alone ==
    ~disturbed =>
        /\ stop.at = "none" /\ signalled = {}
        /\ \A p \in Child : child[p] \in {"booting", "serving", "dead"} => p = current
        /\ \A r \in Run : Active(r) => startup = r
        /\ \A r \in Run : Active(r) /\ current # None =>
              run[r].at # "preparing" /\ run[r].child = current
        /\ current # None /\ port # current => \E r \in Run : Active(r)

\* The inductive invariant. That there is one backend only is not inductive:
\* that a start finds none of an earlier run follows from what the fields say
\* of the run under way, and that a spawned child has a fresh number from the
\* counting.
BackendInv == TypeOK /\ Counted /\ StopInv /\ Alone

-----------------------------------------------------------------------------
(* Types and counting.                                                     *)

\* Types hold at first.
LEMMA TypeInitially == Init => TypeOK
<1> SUFFICES ASSUME Init PROVE TypeOK
  OBVIOUS
<1>1. run \in [Run -> [at: {"none", "preparing", "waiting", "answered", "ended"},
                       child: Child \cup {None}]]
  BY DEF Init, NoRun
<1>2. child \in [Child -> {"none", "booting", "serving", "dead", "reaped"}]
  BY DEF Init
<1>3. stop \in [at: {"none", "grace", "killing", "forced"}, child: Child \cup {None}, quits: BOOLEAN]
  BY DEF Init, NoStop
<1>4. runs \in 0 .. MaxRun /\ spawned \in 0 .. MaxRun
  BY LifecycleAssumption DEF Init
<1> QED
  BY <1>1, <1>2, <1>3, <1>4 DEF Init, TypeOK

\* The runs that prepare are finitely many, and are counted one by one.
LEMMA PreparingIsFinite ==
  /\ IsFiniteSet(Preparing) /\ Cardinality(Preparing) \in Nat
  /\ \A r \in Preparing : Cardinality(Preparing \ {r}) = Cardinality(Preparing) - 1
  /\ \A r \in Run \ Preparing : Cardinality(Preparing \cup {r}) = Cardinality(Preparing) + 1
<1>1. IsFiniteSet(Run)
  BY FS_Interval, LifecycleAssumption DEF Run
<1>2. IsFiniteSet(Preparing)
  BY <1>1, FS_Subset DEF Preparing
<1>3. \A S, x : IsFiniteSet(S) =>
         /\ Cardinality(S) \in Nat
         /\ x \in S => Cardinality(S \ {x}) = Cardinality(S) - 1
         /\ x \notin S => Cardinality(S \cup {x}) = Cardinality(S) + 1
  BY FS_CardinalityType, FS_AddElement, FS_RemoveElement
<1> QED
  BY <1>2, <1>3

\* A step of a run keeps the count: only a spawn uses a number up, and the
\* run that spawns no longer prepares.
LEMMA RunStepCounts ==
  ASSUME TypeOK, Counted, NEW r \in Run, RunGoesOn(r)
  PROVE  Counted' /\ spawned' \in 0 .. MaxRun
<1>1. runs' = runs /\ runs \in 0 .. MaxRun /\ spawned \in 0 .. MaxRun
  BY DEF RunGoesOn, PrepareFailed, Spawn, HealthAnswered, Ready, ChildGone, HealthTimedOut, TypeOK
<1>2. \A q \in Run : q # r => run'[q].at = run[q].at
  BY DEF RunGoesOn, PrepareFailed, Spawn, HealthAnswered, Ready, ChildGone, HealthTimedOut, RunEnds, TypeOK
<1>3. run[r].at # "none" /\ run'[r].at # "preparing"
  BY DEF RunGoesOn, PrepareFailed, Spawn, HealthAnswered, Ready, ChildGone, HealthTimedOut, RunEnds, TypeOK
<1>4. \A q \in Run : q > runs => run'[q].at = "none"
  BY <1>2, <1>3 DEF Counted
<1>5. Preparing' = Preparing \ {r}
  BY <1>2, <1>3 DEF Preparing
<1>6. CASE Spawn(r)
  <2>1. spawned' = spawned + 1 /\ r \in Preparing
    BY <1>6 DEF Spawn, Preparing
  <2>2. Cardinality(Preparing') = Cardinality(Preparing) - 1 /\ Cardinality(Preparing') \in Nat
    BY <1>5, <2>1, PreparingIsFinite, FS_CardinalityType, FS_RemoveElement
  <2> QED
    BY <1>1, <1>4, <2>1, <2>2, PreparingIsFinite, LifecycleAssumption DEF Counted
<1>7. CASE ~Spawn(r)
  <2>1. spawned' = spawned
    BY <1>7 DEF RunGoesOn, PrepareFailed, HealthAnswered, Ready, ChildGone, HealthTimedOut
  <2>2. Cardinality(Preparing') \in Nat /\ Cardinality(Preparing') <= Cardinality(Preparing)
    <3>1. CASE r \in Preparing
      <4>1. Cardinality(Preparing') = Cardinality(Preparing) - 1 /\ Cardinality(Preparing') \in Nat
        BY <1>5, <3>1, PreparingIsFinite, FS_CardinalityType, FS_RemoveElement
      <4> QED
        BY <4>1, PreparingIsFinite
    <3>2. CASE r \notin Preparing
      <4>1. Preparing' = Preparing
        BY <1>5, <3>2
      <4> QED
        BY <4>1, PreparingIsFinite
    <3> QED
      BY <3>1, <3>2
  <2> QED
    BY <1>1, <1>4, <2>1, <2>2, PreparingIsFinite DEF Counted
<1> QED
  BY <1>6, <1>7

\* A step of a run keeps types.
LEMMA RunStepKeepsType ==
  ASSUME TypeOK, Counted, NEW r \in Run, RunGoesOn(r)
  PROVE TypeOK'
<1>0. spawned' \in 0 .. MaxRun
  BY RunStepCounts
<1> USE <1>0, LifecycleAssumption DEF RunEnds, fields
<1>1. CASE PrepareFailed(r)
  BY <1>1 DEF PrepareFailed, TypeOK
<1>2. CASE Spawn(r)
  BY <1>2 DEF Spawn, TypeOK, Child, None
<1>3. CASE HealthAnswered(r)
  BY <1>3 DEF HealthAnswered, TypeOK
<1>4. CASE Ready(r)
  BY <1>4 DEF Ready, TypeOK
<1>5. CASE ChildGone(r)
  BY <1>5 DEF ChildGone, TypeOK
<1>6. CASE HealthTimedOut(r)
  BY <1>6 DEF HealthTimedOut, TypeOK
<1> QED
  BY <1>1, <1>2, <1>3, <1>4, <1>5, <1>6 DEF RunGoesOn

-----------------------------------------------------------------------------
(* Steps of a run.                                                         *)

\* A step of a run leaves the stop its child: a spawn takes a new one.
LEMMA RunStepKeepsStop ==
  ASSUME TypeOK, StopInv, NEW r \in Run, RunGoesOn(r), spawned' \in 0 .. MaxRun
  PROVE  StopInv'
<1>1. UNCHANGED <<stop, signalled>>
  BY DEF RunGoesOn, PrepareFailed, Spawn, HealthAnswered, Ready, ChildGone, HealthTimedOut
<1>2. child' = child \/ child' = [child EXCEPT ![spawned'] = "booting"]
  BY DEF RunGoesOn, PrepareFailed, Spawn, HealthAnswered, Ready, ChildGone, HealthTimedOut
<1> QED
  BY <1>1, <1>2 DEF StopInv, StopWaitsForItsChild, StopListens, TypeOK

\* A step of the one run under way keeps it the only one, until a health
\* check times out.
LEMMA RunStepKeepsAlone ==
  ASSUME TypeOK, Alone, NEW r \in Run, RunGoesOn(r), spawned' \in 0 .. MaxRun
  PROVE  Alone'
<1> SUFFICES ASSUME ~disturbed' PROVE Alone'
  BY DEF Alone
<1>1. ~disturbed /\ ~HealthTimedOut(r)
  BY DEF RunGoesOn, PrepareFailed, Spawn, HealthAnswered, Ready, ChildGone, HealthTimedOut
<1>2. \A q \in Run : q # r => run'[q] = run[q]
  BY DEF RunGoesOn, PrepareFailed, Spawn, HealthAnswered, Ready, ChildGone, HealthTimedOut, RunEnds, TypeOK
<1>3. Active(r) /\ startup = r /\ \A q \in Run : Active(q) => q = r
  BY <1>1 DEF Alone, Active, RunGoesOn, PrepareFailed, Spawn, HealthAnswered, Ready, ChildGone, HealthTimedOut
<1>4. UNCHANGED <<stop, signalled>> /\ stop.at = "none" /\ signalled = {}
  BY <1>1 DEF Alone, RunGoesOn, PrepareFailed, Spawn, HealthAnswered, Ready, ChildGone, HealthTimedOut
<1>5. \A p \in Child : child[p] \in {"booting", "serving", "dead"} => p = current
  BY <1>1 DEF Alone
<1>6. current # None => run[r].at # "preparing" /\ run[r].child = current
  BY <1>1, <1>3 DEF Alone
<1>7. CASE PrepareFailed(r) \/ ChildGone(r) \/ Ready(r)
  <2>1. /\ run' = [run EXCEPT ![r] = [at |-> "ended", child |-> None]]
        /\ UNCHANGED <<child, current>>
    BY <1>7 DEF PrepareFailed, ChildGone, Ready, RunEnds
  <2>2. run'[r].at = "ended"
    BY <2>1 DEF TypeOK
  <2>3. \A q \in Run : ~Active(q)'
    BY <1>2, <1>3, <2>2 DEF Active
  <2>4. current # None => port' = current
    <3>1. CASE PrepareFailed(r)
      BY <1>6, <3>1 DEF PrepareFailed
    <3>2. CASE ChildGone(r)
      BY <1>4, <1>6, <3>2 DEF ChildGone, TypeOK
    <3>3. CASE Ready(r)
      BY <1>6, <3>3 DEF Ready
    <3> QED
      BY <1>7, <3>1, <3>2, <3>3
  <2> QED
    BY <1>4, <1>5, <2>1, <2>3, <2>4 DEF Alone
<1>8. CASE Spawn(r)
  <2>1. /\ current = None /\ current' = spawned' /\ UNCHANGED startup
        /\ child' = [child EXCEPT ![spawned'] = "booting"]
        /\ run' = [run EXCEPT ![r] = [at |-> "waiting", child |-> spawned']]
    BY <1>6, <1>8 DEF Spawn
  <2>2. run'[r].at = "waiting" /\ run'[r].child = current'
    BY <2>1 DEF TypeOK
  <2>3. Active(r)' /\ \A q \in Run : Active(q)' => q = r
    BY <1>2, <1>3, <2>2 DEF Active
  <2>4. \A p \in Child : child'[p] \in {"booting", "serving", "dead"} => p = current'
    BY <1>5, <2>1 DEF TypeOK, Child, None
  <2> QED
    BY <1>3, <1>4, <2>1, <2>2, <2>3, <2>4 DEF Alone
<1>9. CASE HealthAnswered(r)
  <2>1. /\ run' = [run EXCEPT ![r].at = "answered"] /\ UNCHANGED <<child, current, port, startup>>
    BY <1>9 DEF HealthAnswered, fields
  <2>2. run'[r].at = "answered" /\ run'[r].child = run[r].child
    BY <2>1 DEF TypeOK
  <2>3. Active(r)' /\ \A q \in Run : Active(q)' => q = r
    BY <1>2, <1>3, <2>2 DEF Active
  <2> QED
    BY <1>3, <1>4, <1>5, <1>6, <2>1, <2>2, <2>3 DEF Alone
<1> QED
  BY <1>1, <1>7, <1>8, <1>9 DEF RunGoesOn

\* startBackendService begins a run only when no promise and no ready backend
\* is there.
LEMMA StartStep ==
  ASSUME BackendInv, Start
  PROVE  BackendInv'
<1>1. /\ startup = None /\ runs < MaxRun /\ runs' = runs + 1 /\ startup' = runs'
      /\ run' = [run EXCEPT ![runs'].at = "preparing"]
      /\ current = None \/ port = None
      /\ UNCHANGED <<isWindows, child, spawned, signalled, current, port, stop, app, disturbed>>
  BY DEF Start
<1>2. runs' \in Run /\ run[runs'].at = "none"
  BY <1>1, LifecycleAssumption DEF BackendInv, TypeOK, Counted, Run
<1>3. /\ run'[runs'].at = "preparing"
      /\ \A q \in Run : q # runs' => run'[q] = run[q]
  BY <1>1, <1>2 DEF BackendInv, TypeOK
<1>4. TypeOK'
  BY <1>1, <1>2 DEF BackendInv, TypeOK, Run
<1>5. Counted'
  <2>1. Preparing' = Preparing \cup {runs'} /\ runs' \notin Preparing
    BY <1>2, <1>3 DEF Preparing
  <2>2. Cardinality(Preparing') = Cardinality(Preparing) + 1 /\ Cardinality(Preparing) \in Nat
    BY <1>2, <2>1, PreparingIsFinite
  <2>3. spawned' + Cardinality(Preparing') <= runs'
    BY <1>1, <2>2 DEF BackendInv, TypeOK, Counted
  <2>4. \A q \in Run : q > runs' => run'[q].at = "none"
    BY <1>1, <1>3 DEF BackendInv, TypeOK, Counted, Run
  <2> QED
    BY <2>3, <2>4 DEF Counted
<1>6. StopInv'
  BY <1>1 DEF BackendInv, StopInv, StopWaitsForItsChild, StopListens
<1>7. Alone'
  <2> SUFFICES ASSUME ~disturbed PROVE Alone'
    BY <1>1 DEF Alone
  <2>1. None \notin Run
    BY DEF Run, None
  <2>2. \A r \in Run : ~Active(r)
    BY <1>1, <2>1 DEF BackendInv, Alone
  <2>3. current = None
    BY <1>1, <2>2 DEF BackendInv, Alone
  <2>4. \A q \in Run : Active(q)' => q = runs'
    BY <1>3, <2>2 DEF Active
  <2> QED
    BY <1>1, <2>3, <2>4 DEF BackendInv, Alone
<1> QED
  BY <1>4, <1>5, <1>6, <1>7 DEF BackendInv

-----------------------------------------------------------------------------
(* Stops and children.                                                     *)

\* A stop that returns has cleared its promise and the fields.
LEMMA StopIsOver ==
  ASSUME TypeOK, StopReturns
  PROVE  /\ stop' = NoStop /\ stop'.at = "none" /\ current' = None /\ port' = None /\ startup' = None
         /\ stop' \in [at: {"none", "grace", "killing", "forced"}, child: Child \cup {None}, quits: BOOLEAN]
         /\ app' \in {app, "cleaning"}
  BY DEF StopReturns, Continue, NoStop

\* A call of stop begins the stop of the current child or joins the one under
\* way.
LEMMA CallStopStep ==
  ASSUME BackendInv, NEW quits \in BOOLEAN, CallStop(quits)
  PROVE  BackendInv'
<1>1. /\ disturbed' = TRUE
      /\ UNCHANGED <<isWindows, run, runs, child, spawned, current, port, startup>>
  BY DEF CallStop, fields
<1>2. app' \in {app, "cleaning", "stopping"}
  BY DEF CallStop, Continue
<1>3. CASE current = None
  <2>1. UNCHANGED <<stop, signalled>>
    BY <1>3 DEF CallStop
  <2> QED
    BY <1>1, <1>2, <2>1 DEF BackendInv, TypeOK, Counted, StopInv, StopWaitsForItsChild, StopListens,
       Alone, Preparing
<1>4. CASE current # None
  <2>1. /\ stop' = IF stop.at # "none" THEN [stop EXCEPT !.quits = @ \/ quits]
                   ELSE [at |-> "grace", child |-> current, quits |-> quits]
        /\ signalled' = signalled \cup {stop'.child}
    BY <1>4 DEF CallStop
  <2>2. current \in Child /\ child[current] # "reaped"
    BY <1>4 DEF BackendInv, TypeOK
  <2>3. /\ stop' \in [at: {"none", "grace", "killing", "forced"}, child: Child \cup {None}, quits: BOOLEAN]
        /\ \/ stop.at # "none" /\ stop'.at = stop.at /\ stop'.child = stop.child
           \/ stop.at = "none" /\ stop'.at = "grace" /\ stop'.child = current
    BY <2>1, <2>2 DEF BackendInv, TypeOK
  <2>4. stop'.child \in Child
    BY <2>2, <2>3 DEF BackendInv, StopInv, TypeOK
  <2>5. TypeOK'
    BY <1>1, <1>2, <2>1, <2>3, <2>4 DEF BackendInv, TypeOK
  <2>6. StopInv'
    BY <1>1, <2>1, <2>2, <2>3 DEF BackendInv, StopInv, StopWaitsForItsChild, StopListens
  <2> QED
    BY <1>1, <2>5, <2>6 DEF BackendInv, Counted, Alone, Preparing
<1> QED
  BY <1>3, <1>4

\* The timers of a stop: it goes on waiting only for a child whose exit event
\* is still to come.
LEMMA StopStep ==
  ASSUME BackendInv, StopGoesOn
  PROVE  BackendInv'
<1>1. UNCHANGED <<isWindows, run, runs, child, spawned, signalled, disturbed>>
  BY DEF StopGoesOn, GraceOver, Taskkilled, ForcedOver, Exit
<1>2. CASE Exit
  BY <1>1, <1>2 DEF Exit, fields, BackendInv, TypeOK, Counted, StopInv, StopWaitsForItsChild,
     StopListens, Alone, Preparing, Active
<1>3. CASE ~Exit
  <2>1. stop.at # "none"
    BY <1>3 DEF StopGoesOn, GraceOver, Taskkilled, ForcedOver
  <2>2. Alone'
    BY <1>1, <2>1 DEF BackendInv, Alone
  <2>3. CASE StopReturns
    <3>1. TypeOK'
      BY <1>1, <2>3, StopIsOver DEF BackendInv, TypeOK
    <3>2. StopInv'
      BY <1>1, <2>3, StopIsOver DEF BackendInv, StopInv, StopWaitsForItsChild, StopListens
    <3> QED
      BY <1>1, <2>2, <3>1, <3>2 DEF BackendInv, Counted, Preparing
  <2>4. CASE ~StopReturns
    <3>1. UNCHANGED <<fields, app>>
      BY <1>3, <2>4 DEF StopGoesOn, GraceOver, Taskkilled, ForcedOver
    <3>2. \/ stop' = [stop EXCEPT !.at = "killing"]
          \/ stop' = [stop EXCEPT !.at = "forced"] /\ child[stop.child] # "reaped"
      BY <1>3, <2>4 DEF StopGoesOn, GraceOver, Taskkilled, ForcedOver
    <3>3. /\ stop' \in [at: {"none", "grace", "killing", "forced"}, child: Child \cup {None}, quits: BOOLEAN]
          /\ stop'.child = stop.child
          /\ stop'.at \in {"killing", "forced"}
          /\ stop'.at = "forced" => child[stop.child] # "reaped"
      BY <3>2 DEF BackendInv, TypeOK
    <3>4. TypeOK'
      BY <1>1, <3>1, <3>3 DEF BackendInv, TypeOK, fields
    <3>5. StopInv'
      BY <1>1, <2>1, <3>3 DEF BackendInv, StopInv, StopWaitsForItsChild, StopListens
    <3> QED
      BY <1>1, <2>2, <3>4, <3>5 DEF BackendInv, Counted, Preparing
  <2> QED
    BY <2>3, <2>4
<1> QED
  BY <1>2, <1>3

\* A child boots, dies, or its exit event is handled.
LEMMA ChildStep ==
  ASSUME BackendInv, NEW p \in Child, Boot(p) \/ Die(p) \/ ExitEvent(p)
  PROVE  BackendInv'
<1>1. UNCHANGED <<isWindows, run, runs, spawned, signalled, disturbed>>
  BY DEF Boot, Die, ExitEvent
<1>2. Counted'
  BY <1>1 DEF BackendInv, Counted, Preparing
<1>3. CASE Boot(p) \/ Die(p)
  <2>1. /\ UNCHANGED <<current, port, startup, stop, app>>
        /\ child[p] \in {"booting", "serving"}
        /\ child' = [child EXCEPT ![p] = "serving"] \/ child' = [child EXCEPT ![p] = "dead"]
    BY <1>3 DEF Boot, Die, Alive, fields
  <2>2. TypeOK'
    BY <1>1, <2>1 DEF BackendInv, TypeOK
  <2>3. StopInv'
    BY <1>1, <2>1 DEF BackendInv, TypeOK, StopInv, StopWaitsForItsChild, StopListens
  <2>4. Alone'
    BY <1>1, <2>1 DEF BackendInv, TypeOK, Alone, Active
  <2> QED
    BY <1>2, <2>2, <2>3, <2>4 DEF BackendInv
<1>4. CASE ExitEvent(p)
  <2>1. child[p] = "dead" /\ child' = [child EXCEPT ![p] = "reaped"]
    BY <1>4 DEF ExitEvent
  <2>2. CASE StopListens(p)
    <3>1. StopReturns /\ stop.at # "none"
      BY <1>4, <2>2 DEF ExitEvent, StopListens
    <3>2. TypeOK'
      BY <1>1, <2>1, <3>1, StopIsOver DEF BackendInv, TypeOK
    <3>3. StopInv'
      BY <1>1, <3>1, StopIsOver DEF BackendInv, StopInv, StopWaitsForItsChild, StopListens
    <3>4. Alone'
      BY <1>1, <3>1 DEF BackendInv, Alone
    <3> QED
      BY <1>2, <3>2, <3>3, <3>4 DEF BackendInv
  <2>3. CASE ~StopListens(p)
    <3>1. current' = None /\ port' = None /\ UNCHANGED <<startup, stop, app>>
      BY <1>4, <2>3 DEF ExitEvent
    <3>2. TypeOK'
      BY <1>1, <2>1, <3>1 DEF BackendInv, TypeOK
    <3>3. StopInv'
      BY <1>1, <2>1, <2>3, <3>1 DEF BackendInv, TypeOK, StopInv, StopWaitsForItsChild, StopListens
    <3>4. Alone'
      <4> SUFFICES ASSUME ~disturbed PROVE Alone'
        BY <1>1 DEF Alone
      <4>1. p = current
        BY <2>1 DEF BackendInv, Alone
      <4>2. \A q \in Child : child'[q] \notin {"booting", "serving", "dead"}
        BY <2>1, <4>1 DEF BackendInv, Alone, TypeOK
      <4> QED
        BY <1>1, <3>1, <4>2 DEF BackendInv, Alone, Active
    <3> QED
      BY <1>2, <3>2, <3>3, <3>4 DEF BackendInv
  <2> QED
    BY <2>2, <2>3
<1> QED
  BY <1>3, <1>4

-----------------------------------------------------------------------------
(* The theorem.                                                            *)

\* The invariant holds at first ...
LEMMA BackendInitially == Init => BackendInv
<1> SUFFICES ASSUME Init PROVE BackendInv
  OBVIOUS
<1>1. \A r \in Run : run[r].at = "none"
  BY DEF Init, NoRun
<1>2. Preparing = {}
  BY <1>1 DEF Preparing
<1>3. Counted
  BY <1>1, <1>2, FS_EmptySet DEF Init, Counted
<1>4. StopInv /\ Alone
  BY <1>1 DEF Init, NoStop, StopInv, StopWaitsForItsChild, StopListens, Alone, Active
<1> QED
  BY <1>3, <1>4, TypeInitially DEF BackendInv

\* ... and after every step.
LEMMA BackendPreserved == BackendInv /\ [Next]_vars => BackendInv'
<1> SUFFICES ASSUME BackendInv, [Next]_vars PROVE BackendInv'
  OBVIOUS
<1>1. CASE UNCHANGED vars
  BY <1>1 DEF vars, fields, BackendInv, TypeOK, Counted, StopInv, StopWaitsForItsChild, StopListens,
     Alone, Active, Preparing
<1>2. CASE Restart \/ Quit
  BY <1>2, CallStopStep DEF Restart, Quit
<1>3. ASSUME NEW r \in Run, RunGoesOn(r) PROVE BackendInv'
  BY <1>3, RunStepCounts, RunStepKeepsType, RunStepKeepsStop, RunStepKeepsAlone DEF BackendInv
<1> QED
  BY <1>1, <1>2, <1>3, StartStep, StopStep, ChildStep DEF Next

\* packages/main/src/index.ts, startBackendService and stopBackendService:
\* types are kept; until a health check times out or a stop begins there is
\* one child at most, the one a quit would stop, and one run at most; a stop
\* that listens for an exit event listens for that of a child it has
\* signalled, and the event is still to come.
THEOREM BackendAlwaysSafe == Spec => []BackendIsSafe
<1>1. BackendInv => BackendIsSafe
  <2> SUFFICES ASSUME BackendInv PROVE BackendIsSafe
    OBVIOUS
  <2>1. ASSUME ~disturbed PROVE Cardinality({r \in Run : Active(r)}) <= 1
    <3>1. {r \in Run : Active(r)} \subseteq {startup}
      BY <2>1 DEF BackendInv, Alone
    <3>2. IsFiniteSet({startup}) /\ Cardinality({startup}) = 1
      BY FS_Singleton
    <3> QED
      BY <3>1, <3>2, FS_Subset
  <2>2. ASSUME ~disturbed PROVE \A p \in Child : Alive(p) => p = current
    BY <2>2 DEF BackendInv, Alone, Alive
  <2> QED
    BY <2>1, <2>2 DEF BackendInv, BackendIsSafe, OneBackend, StopInv, Active
<1> QED
  BY <1>1, BackendInitially, BackendPreserved, PTL DEF Spec
=============================================================================
