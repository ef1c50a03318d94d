-------------------------------- MODULE Repl --------------------------------
(***************************************************************************)
(* The program adv at its command line (src/src/repl), seen at one of      *)
(* three places, chosen at the start: a line is typed, lines are carried   *)
(* out, or the command load reads a text.  They share nothing but the line *)
(* that goes from the first to the second and the file from there to the   *)
(* third.                                                                  *)
(***************************************************************************)
EXTENDS Integers

CONSTANTS
  Letters, Space, Zero, Junk, BufSize, MaxHistory, Offered, ExitLines,  \* LineEdit
  Names, None, MaxNodes, MaxHandles,                                    \* Commands
  Texts, Chars, MaxChars, MaxTokens                                     \* Jsmn

VARIABLES
  place,                                                              \* which of them it is
  pc, buf, len, pos, history, history_index, shown, hup, line,        \* LineEdit
  alive, disk, handles, db, closed, said,                             \* Commands
  rest, next, tokens, toksuper, num_tokens, count, first, result      \* Jsmn

typingVars == <<pc, buf, len, pos, history, history_index, shown, hup, line>>
commandVars == <<alive, disk, handles, db, closed, said>>
jsonVars == <<rest, next, tokens, toksuper, num_tokens, count, first, result>>
vars == <<place, typingVars, commandVars, jsonVars>>

E == INSTANCE LineEdit WITH Commands <- Offered
C == INSTANCE Commands
J == INSTANCE Jsmn WITH pos <- next

ASSUME ReplAssumption ==
  /\ E!LineEditAssumption
  /\ C!CommandsAssumption
  /\ J!JsmnAssumption

Init ==
  /\ place \in {"typing", "commands", "json"}
  /\ E!Init /\ C!Init /\ J!Init
  /\ place # "json" => rest = <<>> /\ num_tokens = 0   \* one start for the others

Next ==
  /\ UNCHANGED place
  /\ \/ place = "typing" /\ E!Next /\ UNCHANGED <<commandVars, jsonVars>>
     \/ place = "commands" /\ C!Next /\ UNCHANGED <<typingVars, jsonVars>>
     \/ place = "json" /\ J!Next /\ UNCHANGED <<typingVars, commandVars>>

Spec == Init /\ [][Next]_vars
-----------------------------------------------------------------------------
\* linenoise.c: through every key, visit of the history and completion, the cursor,
\* the length, the terminator and the buffer fit each other.
EditorSafe == E!Safe

\* linenoise.c with the loop of repl.c: the buffer is a text with a cursor, the
\* history the lines entered.
EditorIsLine == E!ImplementsLine

\* cmds.c: the variable db holds no closed handle, unless the user has just closed it.
CommandsUseOpenHandle == C!UsesOpenHandle

\* cmds.c: handles that were dropped without being closed leave the one in use current.
CommandsHandleCurrent == C!HandleCurrent

\* cmds.c is one database in use at a time, and every node that was added stays.
CommandsAreSessions == C!ImplementsSessions

\* jsmn.c: tokens lie in each other as the parts of the text do, and know it.
TokensNest == J!TokensNest

\* load.c: streamJSON reads tokens the parser filled in.
LoadReadsTokens == J!LoadReadsTokens

\* jsmn.c follows the brackets, in one call or in many.
ParserIsBrackets == J!ImplementsBrackets
=============================================================================
