--------------------------- MODULE RemoteShellEvents ---------------------------
(***************************************************************************)
(* RemoteShellEventOscParser: takes the events of the remote helper out of *)
(* the output of a shell, character by character, wherever the stream is   *)
(* cut into chunks.  An event is an OSC sequence                           *)
(*     ESC ]777;cosmosh; payload  BEL      or      ... ESC \               *)
(* Here Bracket is the "]" and Marker stands for "777;cosmosh;".           *)
(***************************************************************************)
EXTENDS Naturals, Sequences, SequencesExt

CONSTANTS Esc, Bracket, Marker, Bell, Backslash, Plain,  \* characters
          PayloadMax  \* REMOTE_SHELL_EVENT_OSC_PAYLOAD_MAX_BYTES, in characters

Character == {Esc, Bracket, Marker, Bell, Backslash, Plain}
Prefix    == <<Esc, Bracket, Marker>>      \* COSMOSH_OSC_PREFIX

(* pendingEscape, pendingOscPrefix and pendingCosmoshOsc are what is held   *)
(* back; in an oversized sequence only whether an ESC came last is kept.    *)
Idle == [held |-> << >>, discarding |-> FALSE, sawEscape |-> FALSE]

(* A payload parseRemoteShellEventPayload accepts.                          *)
IsEvent(payload) == payload # << >> /\ \A i \in DOMAIN payload : payload[i] = Plain

(* What one character makes of the parser, and what it lets out: visible    *)
(* characters, or an event, written as its payload.                         *)
Result(parser, out) == [parser |-> parser, out |-> out]

(* Fault: the byte that crossed the cap is forgotten.                       *)
Mut_CrossingForgotten(parser, char) ==
    IF Len(parser.held) + 1 > Len(Prefix) + PayloadMax
      THEN Result([Idle EXCEPT !.discarding = TRUE], << >>)
      ELSE Result([parser EXCEPT !.held = Append(@, char)], << >>)

(* appendCosmoshOscChar of a character that ends no sequence.               *)
Collect(parser, char) ==
    IF Len(parser.held) + 1 > Len(Prefix) + PayloadMax
      THEN Result([Idle EXCEPT !.discarding = TRUE, !.sawEscape = char = Esc], << >>)
      ELSE Result([parser EXCEPT !.held = Append(@, char)], << >>)

(* parseCompletedOsc of a sequence whose payload and terminator are text.   *)
Complete(payload) == Result(Idle, IF IsEvent(payload) THEN <<payload>> ELSE << >>)

(* appendCosmoshOscChar.                                                    *)
InSequence(parser, char) ==
    LET text == SubSeq(parser.held, Len(Prefix) + 1, Len(parser.held))
    IN  IF char = Bell THEN Complete(text)
        ELSE IF char = Backslash /\ Last(parser.held) = Esc THEN Complete(Front(text))
        ELSE Collect(parser, char)

(* consumeDiscardedOscChar.                                                 *)
Discard(parser, char) ==
    LET ends == IF parser.sawEscape THEN char = Backslash ELSE char = Bell
    IN  Result(IF ends THEN Idle ELSE [parser EXCEPT !.sawEscape = char = Esc], << >>)

(* appendOscPrefixChar, and the pending ESC before it: text that cannot     *)
(* become the prefix any more is let out with the character that shows it.  *)
InPrefix(parser, char) ==
    LET candidate == Append(parser.held, char)
    IN  IF IsPrefix(candidate, Prefix)
          THEN Result([parser EXCEPT !.held = candidate], << >>)
          ELSE Result(Idle, candidate)

(* One turn of the loop of parse.                                           *)
ParseChar(parser, char) ==
    CASE parser.discarding                -> Discard(parser, char)
      [] IsPrefix(Prefix, parser.held)    -> InSequence(parser, char)
      [] parser.held # << >> \/ char = Esc -> InPrefix(parser, char)
      [] OTHER                            -> Result(parser, <<char>>)

=============================================================================
