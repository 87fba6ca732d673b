------------------------------- MODULE Pinentry -------------------------------
(***************************************************************************)
(* go/pinentry-hybrid: commands on standard input (main.go) that ask a     *)
(* person for a passphrase or a confirmation, in a window (gui.go), whose  *)
(* handlers GTK calls in the order of what the person does, or on a        *)
(* terminal (tui.go).                                                      *)
(***************************************************************************)
EXTENDS Naturals, Sequences

CONSTANT Texts  \* what can be typed, the empty text aside

VARIABLES
  runUI,      \* "gui" or "tui"
  guiMode,    \* "Default", "Repeat", "Confirm" or "Message"
  cmd,        \* the command that is carried out, or "none"; "BYE" at the end
  ui,         \* what asks: "none"; "window", "destroying" and "left" (the loop of
              \* GTK); "prompt1", "prompt2", "confirm", "message" on the terminal
  password1, password2,  \* the entries, or what was read from the terminal
  passwordOk, \* whether the window's OK is heard
  ok,         \* how the window was left: "nil", "true" or "false"
  lines,      \* the answer to the command: its lines so far
  did         \* history: how the person has left the dialog

pinVars == <<runUI, guiMode, cmd, ui, password1, password2, passwordOk, ok, lines, did>>
entries == <<password1, password2, passwordOk, ok>>

Typed == Texts \cup {""}
OK == [line |-> "OK"]
ERR == [line |-> "ERR"]

\* fmt.Println puts a space between its arguments; tui's first one ends in a
\* space as well.
D(text) == [line |-> "D", spaces |-> IF runUI = "gui" THEN 1 ELSE 2, text |-> text]

\* The end of a command: CONFIRM and MESSAGE leave the default mode behind.
Respond(before, last) ==
  /\ lines' = before \o <<last>>
  /\ cmd' = "none" /\ ui' = "none"
  /\ guiMode' = IF cmd \in {"CONFIRM", "MESSAGE"} THEN "Default" ELSE guiMode

-----------------------------------------------------------------------------
(* main.go *)

\* The commands that ask nobody; those that set a text change nothing that is
\* followed here.
Command ==
  /\ cmd = "none"
  /\ \E c \in {"NOP", "RESET", "SETREPEAT", "BYE", "unknown"} :
       /\ guiMode' = CASE c = "RESET" -> "Default" [] c = "SETREPEAT" -> "Repeat" [] OTHER -> guiMode
       /\ lines' = <<IF c = "unknown" THEN ERR ELSE OK>>
       /\ cmd' = IF c = "BYE" THEN c ELSE "none"
  /\ did' = "nothing"
  /\ UNCHANGED <<runUI, ui, entries>>

Modes == [GETPIN |-> guiMode, CONFIRM |-> "Confirm", MESSAGE |-> "Message"]

\* GETPIN, CONFIRM or MESSAGE: a new window, or the first question.
Ask ==
  /\ cmd = "none"
  /\ cmd' \in {"GETPIN", "CONFIRM", "MESSAGE"}
  /\ guiMode' = Modes[cmd']
  /\ ui' = CASE runUI = "gui" -> "window"
             [] guiMode' = "Confirm" -> "confirm"
             [] guiMode' = "Message" -> "message"
             [] OTHER -> "prompt1"
  /\ password1' = "" /\ password2' = "" /\ passwordOk' = TRUE /\ ok' = "nil"
  /\ lines' = <<>> /\ did' = "nothing"
  /\ UNCHANGED runUI

-----------------------------------------------------------------------------
(* gui.go *)

\* enableCurrentGuiMode: the entries that can be seen.
Visible == CASE guiMode = "Default" -> {1} [] guiMode = "Repeat" -> {1, 2} [] OTHER -> {}

\* onPasswordUpdate
Checked_First ==  \* mutant: not connected to password2's "changed"
  IF password1' = password1 THEN passwordOk ELSE guiMode = "Default" \/ password1' = password2'
Checked == guiMode = "Default" \/ password1' = password2'

Change ==
  /\ ui = "window"
  /\ \E text \in Typed :
       \/ 1 \in Visible /\ password1' = text /\ UNCHANGED password2
       \/ 2 \in Visible /\ password2' = text /\ UNCHANGED password1
  /\ passwordOk' = Checked
  /\ UNCHANGED <<runUI, guiMode, cmd, ui, ok, lines, did>>

\* quit, up to the call of window.Destroy.  The first one decides: destroying the
\* window calls quit(false) in turn.
Outcome_Last(b) == b  \* mutant: ok is set by every call
Outcome(b) == IF ok = "nil" THEN b ELSE ok
Quit(b) == ok' = Outcome(b) /\ ui' = "destroying"

\* The button, or the enter key in the last entry.
OnOk ==
  /\ ui = "window" /\ passwordOk
  /\ did' = "agreed"
  /\ lines' = IF guiMode \in {"Default", "Repeat"} THEN <<D(password1)>> ELSE <<>>
  /\ Quit("true")
  /\ UNCHANGED <<runUI, guiMode, cmd, password1, password2, passwordOk>>

\* The button, which a message has not got, or the window is closed.
OnCancel ==
  /\ ui = "window"
  /\ did' = "refused"
  /\ Quit("false")
  /\ UNCHANGED <<runUI, guiMode, cmd, password1, password2, passwordOk, lines>>

\* "destroy" is connected to onCancel; both calls of quit end the loop of GTK.
Destroyed ==
  /\ ui = "destroying"
  /\ ok' = Outcome("false") /\ ui' = "left"
  /\ UNCHANGED <<runUI, guiMode, cmd, password1, password2, passwordOk, lines, did>>

\* gtk.Main returns, and so does runGUI.
GuiReturns ==
  /\ ui = "left"
  /\ Respond(lines, IF ok = "true" THEN OK ELSE ERR)
  /\ UNCHANGED <<runUI, did, entries>>

-----------------------------------------------------------------------------
(* tui.go *)

Returns(before, last, how) ==
  /\ Respond(before, last)
  /\ did' = how
  /\ UNCHANGED <<runUI, password2, passwordOk, ok>>

Prompt1 ==
  /\ ui = "prompt1"
  /\ password1' \in Typed
  /\ IF guiMode = "Default" THEN Returns(<<D(password1')>>, OK, "agreed")
     ELSE ui' = "prompt2" /\ UNCHANGED <<runUI, guiMode, cmd, password2, passwordOk, ok, lines, did>>

Prompt2 ==
  /\ ui = "prompt2"
  /\ password2' \in Typed
  /\ IF password1 = password2'
     THEN Respond(<<D(password1)>>, OK) /\ did' = "agreed"
     ELSE ui' = "prompt1" /\ UNCHANGED <<guiMode, cmd, lines, did>>
  /\ UNCHANGED <<runUI, password1, passwordOk, ok>>

ConfirmOrNot ==
  /\ ui = "confirm"
  /\ UNCHANGED password1
  /\ Returns(<<>>, OK, "agreed") \/ Returns(<<>>, ERR, "refused")

Told ==
  /\ ui = "message"
  /\ UNCHANGED password1
  /\ Returns(<<>>, OK, "agreed")

\* The terminal cannot be opened or read.
TerminalFails ==
  /\ ui \in {"prompt1", "prompt2", "confirm", "message"}
  /\ UNCHANGED password1
  /\ Returns(<<>>, ERR, "refused")

PinInit ==
  /\ runUI \in {"gui", "tui"}
  /\ guiMode = "Default" /\ cmd = "none" /\ ui = "none"
  /\ password1 = "" /\ password2 = "" /\ passwordOk = TRUE /\ ok = "nil"
  /\ lines = <<>> /\ did = "nothing"

PinNext ==
  \/ Command \/ Ask
  \/ Change \/ OnOk \/ OnCancel \/ Destroyed \/ GuiReturns
  \/ Prompt1 \/ Prompt2 \/ ConfirmOrNot \/ Told \/ TerminalFails

PinSpec == PinInit /\ [][PinNext]_pinVars

-----------------------------------------------------------------------------
(* Properties *)

Questions == {"GETPIN", "CONFIRM", "MESSAGE"}
Given == IF cmd = "GETPIN" THEN <<D(password1')>> ELSE <<>>

Agreed ==
  /\ lines' = Append(Given, OK)
  /\ (cmd = "GETPIN" /\ guiMode = "Repeat") => password1' = password2'
Refused == lines' = Append(<<>>, ERR)

\* A question is answered with OK exactly if the person agreed.  A passphrase is
\* given exactly in an answer with OK to GETPIN; it is what was typed last, and
\* in repeat mode it was typed twice.
PinentryAgreed ==
  [][(cmd \in Questions /\ cmd' = "none") =>
       IF did' = "agreed" THEN Agreed ELSE Refused]_pinVars
=============================================================================
