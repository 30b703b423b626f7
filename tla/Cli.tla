-------------------------------- MODULE Cli --------------------------------
(***************************************************************************)
(* service/cli: ezCli_Run polls one character and advances the parser of   *)
(* a command line.  The application of samples/app/app_cli polls a ring    *)
(* buffer and passes a NUL on whenever the next character has not come.    *)
(*                                                                         *)
(* A line is described by its command and arguments; what the parser is    *)
(* fed is the line's text, character by character.                         *)
(***************************************************************************)
EXTENDS Integers, Sequences

CONSTANTS
  CliCommands,   \* the table, a sequence of [name, arguments, callback]
  Lines,         \* the lines users type
  NumOfArgument, \* CONFIG_NUM_OF_ARGUMENT
  CliSize,       \* size of the buffer
  MarksRange     \* quotation_mark_count counts modulo this (a uint8_t: 256)

SPACE == "space"   NUL == "nul"   NEWLINE == "newline"   QUOTE == "quote"   DASH == "-"

\* A word of a line and the number of quotation marks around it: 1 leaves it open.
Word(text, marks) == [text |-> text, marks |-> marks]
CommandLine(command, words, trailing) ==
  [command |-> command, words |-> words, trailing |-> trailing]

\* What can be typed as one piece: blanks part the pieces, but inside marks.
Text(parting) == Seq(STRING \ (parting \cup {NUL, NEWLINE}))

ASSUME CliAssumption ==
  /\ CliSize \in Nat \ {0} /\ NumOfArgument \in Nat \ {0} /\ MarksRange \in Nat \ (0 .. 3)
  /\ Len(CliCommands) \in Nat
  /\ \A l \in Lines :
       /\ l.command \in Text({SPACE}) \ {<< >>} /\ l.trailing \in BOOLEAN
       /\ l.words \in Seq([text : Text({QUOTE}), marks : 0 .. 2])
       /\ \A i \in 1 .. Len(l.words) :
            /\ l.words[i].marks = 1 => i = Len(l.words)
            /\ l.words[i].marks = 0 => l.words[i].text \in Text({QUOTE, SPACE}) \ {<< >>}

Mark(w, k) == IF w.marks >= k THEN <<QUOTE>> ELSE << >>
Written(w) == <<SPACE>> \o Mark(w, 1) \o w.text \o Mark(w, 2)

\* The text up to the i-th word, and the whole of it.
TextUpTo(l) ==
  LET upTo[i \in 0 .. Len(l.words)] ==
        IF i = 0 THEN l.command ELSE upTo[i - 1] \o Written(l.words[i])
  IN upTo
LineText(l) ==
  TextUpTo(l)[Len(l.words)] \o (IF l.trailing THEN <<SPACE>> ELSE << >>) \o <<NEWLINE>>

-----------------------------------------------------------------------------
VARIABLES
  cli,        \* the fields of ezCli_t and of its buffer
  typed,      \* the line being typed
  coming,     \* what of its text has not been polled
  begun,      \* history: where the parser stood as the line began
  gap,        \* history: a NUL was polled within the line
  called      \* history: what callbacks were called with for this line

cliVars == <<cli, typed, coming, begun, gap, called>>

CliNULL == -1
NoPointers == [i \in 0 .. NumOfArgument - 1 |-> CliNULL]
EmptyBuffer == [i \in 0 .. CliSize - 1 |-> NUL]

\* Init sets quotation_mark_count; ResetStateMachine does not touch it.
ezCli_ResetStateMachine(c) ==
  [c EXCEPT !.buff = EmptyBuffer, !.curr_index = 0, !.curr_cmd_index = 1,
            !.curr_arg_index = 0, !.is_arg_found = FALSE, !.is_value_found = FALSE,
            !.arg_list = NoPointers, !.value_list = NoPointers]

CliStart ==
  ezCli_ResetStateMachine(
    [state |-> "COMMAND", buff |-> EmptyBuffer, curr_index |-> 0,
     curr_cmd_index |-> 1, curr_arg_index |-> 0, arg_list |-> NoPointers,
     value_list |-> NoPointers, is_arg_found |-> FALSE, is_value_found |-> FALSE,
     quotation_mark_count |-> 0])

NoLine == CommandLine(<<NUL>>, << >>, FALSE)
Standing(c) == [state |-> c.state, marks |-> c.quotation_mark_count]

ezCli_Init ==
  /\ cli = CliStart
  /\ typed = NoLine /\ coming = << >>
  /\ begun = Standing(CliStart) /\ gap = FALSE /\ called = << >>

-----------------------------------------------------------------------------
(* The buffer and the table. *)

\* The C string that starts at p.
StringAt(b, p) ==
  LET ends == {i \in p .. CliSize - 1 : b[i] = NUL}
      stop == IF ends = {} THEN CliSize ELSE CHOOSE i \in ends : \A j \in ends : i <= j
  IN IF p = CliNULL THEN << >> ELSE SubSeq([k \in 1 .. CliSize |-> b[k - 1]], p + 1, stop)

\* Whatever is printed goes through the buffer commands are read into.
ezCli_Printf(c) ==
  [c EXCEPT !.buff = [i \in DOMAIN @ |-> IF i < CliSize - 1 THEN "printed" ELSE NUL]]
ezCli_PrintCommandHelper(c) == ezCli_Printf(c)
ezCli_PrintMenu(c) == ezCli_PrintCommandHelper(ezCli_Printf(c))

ezCli_IsCommandExisting(name) == {i \in 1 .. Len(CliCommands) : CliCommands[i].name = name}
FirstOf(found) == CHOOSE i \in found : \A j \in found : i <= j
ezCli_IsArgumentExisting(i, name) == name \in CliCommands[i].arguments
TakesArguments(i) == CliCommands[i].arguments # {}

\* The callbacks of the sample: what each answers, and what it starts.
HandleHelloCallback(args, values) ==
  IF args[0] # CliNULL \/ values[0] # CliNULL THEN "BAD_ARG" ELSE "OK"
HandlEchoCmdCallback(args, values) ==
  IF args[0] = CliNULL \/ values[0] = CliNULL THEN "ERR" ELSE "OK"
HandleStartOsalDemo(args, values) ==
  IF HandleHelloCallback(args, values) = "OK" THEN "started" ELSE "BAD_ARG"
HandleStartTaskWorkerDemo(args, values) == HandleStartOsalDemo(args, values)

Answer(i, args, values) ==
  [hello |-> HandleHelloCallback(args, values),
   echo |-> HandlEchoCmdCallback(args, values),
   start_osal_demo |-> HandleStartOsalDemo(args, values),
   start_task_worker_demo |-> HandleStartTaskWorkerDemo(args, values)][CliCommands[i].callback]

-----------------------------------------------------------------------------
(* Faulty variants of the definitions below, one plausible slip each.      *)

\* The index is compared with the size as if the buffer had a byte more.
FullLate(c) == c.curr_index > CliSize

\* The count of arguments is compared with <=.
LastArgumentLate(k) == k <= NumOfArgument

-----------------------------------------------------------------------------
\* ezCli_Run stores the character before it looks at the state; with
\* curr_index = CliSize it lands behind the buffer.
Stored(c, ch) == [c EXCEPT !.buff = [i \in DOMAIN @ |-> IF i = c.curr_index THEN ch ELSE @[i]]]
Advanced(c, ch) == [Stored(c, ch) EXCEPT !.curr_index = @ + 1]
Terminated(c) == Advanced(c, NUL)

\* Whatever the callback returns, a response is sent and the parser starts afresh.
ezCli_ProcessCommand(c) ==
  /\ called' = Append(called,
       [command |-> CliCommands[c.curr_cmd_index].name,
        args |-> [i \in 0 .. NumOfArgument - 1 |-> StringAt(c.buff, c.arg_list[i])],
        values |-> [i \in 0 .. NumOfArgument - 1 |-> StringAt(c.buff, c.value_list[i])],
        answer |-> Answer(c.curr_cmd_index, c.arg_list, c.value_list)])
  /\ cli' = [ezCli_ResetStateMachine(c) EXCEPT !.state = "COMMAND"]

Goes(c) == cli' = c /\ UNCHANGED called

ezCli_HandleStateCommand(self, ch) ==
  LET c == Terminated(self)
      found == ezCli_IsCommandExisting(StringAt(c.buff, 0))
      known == [c EXCEPT !.curr_cmd_index = IF found = {} THEN @ ELSE FirstOf(found)]
      runs == found # {} /\ ~TakesArguments(FirstOf(found))
  IN \/ /\ ch = SPACE
        /\ Goes(IF found # {} THEN [known EXCEPT !.state = "ARGUMENT", !.arg_list = NoPointers]
                ELSE [known EXCEPT !.state = "ERROR"])
     \/ /\ ch = NEWLINE /\ runs
        /\ ezCli_ProcessCommand(known)
     \/ /\ ch = NEWLINE /\ ~runs
        /\ Goes([ezCli_PrintMenu(known) EXCEPT !.state = "ERROR"])
     \/ /\ ch \notin {SPACE, NEWLINE}
        /\ Goes(Advanced(self, ch))

ezCli_HandleStateArgument(self, ch) ==
  LET c == Terminated(self)
      name == StringAt(c.buff, self.arg_list[self.curr_arg_index])
  IN \/ /\ ch = SPACE /\ ~self.is_arg_found
        /\ Goes(Stored(self, ch))
     \/ /\ ch = SPACE /\ self.is_arg_found
        /\ Goes(IF ezCli_IsArgumentExisting(self.curr_cmd_index, name)
                THEN [c EXCEPT !.is_arg_found = FALSE, !.state = "VALUE"]
                ELSE [ezCli_PrintCommandHelper(c) EXCEPT !.state = "ERROR"])
     \/ /\ ch = NEWLINE
        /\ ezCli_ProcessCommand(c)
     \/ /\ ch \notin {SPACE, NEWLINE} /\ (self.is_arg_found \/ ch = DASH)
        /\ Goes(IF self.is_arg_found THEN Advanced(self, ch)
                ELSE [Advanced(self, ch) EXCEPT !.is_arg_found = TRUE,
                        !.arg_list[self.curr_arg_index] = self.curr_index])
     \/ /\ ch \notin {SPACE, NEWLINE} /\ ~self.is_arg_found /\ ch # DASH
        /\ Goes([Advanced(self, ch) EXCEPT !.state = "ERROR"])

AnotherArgument(k) == k < NumOfArgument

\* Quotation marks are counted and not kept.
ezCli_HandleStateValue(self, ch) ==
  LET marks == self.quotation_mark_count
      complete == [Terminated(self) EXCEPT !.quotation_mark_count = 0, !.is_value_found = FALSE,
                                           !.curr_arg_index = @ + 1]
      start(c) == [c EXCEPT !.is_value_found = TRUE,
                            !.value_list[self.curr_arg_index] = self.curr_index]
      quoted == [Stored(self, ch) EXCEPT !.quotation_mark_count = (@ + 1) % MarksRange]
  IN \/ /\ ch = SPACE /\ self.is_value_found /\ marks \in {0, 2}
        /\ Goes(IF AnotherArgument(complete.curr_arg_index)
                THEN [complete EXCEPT !.state = "ARGUMENT"]
                ELSE [ezCli_PrintCommandHelper(complete) EXCEPT !.state = "ERROR"])
     \/ /\ ch = SPACE /\ ~(self.is_value_found /\ marks \in {0, 2})
        /\ Goes(IF self.is_value_found /\ marks = 1 THEN Advanced(self, ch) ELSE Stored(self, ch))
     \/ /\ ch = QUOTE
        /\ Goes(IF quoted.quotation_mark_count = 1 THEN start(quoted)
                ELSE IF quoted.quotation_mark_count = 2 THEN quoted
                ELSE [quoted EXCEPT !.state = "ERROR"])
     \/ /\ ch = NEWLINE /\ marks \in {0, 2}
        /\ ezCli_ProcessCommand(complete)
     \/ /\ ch = NEWLINE /\ marks \notin {0, 2}
        /\ Goes([Stored(self, ch) EXCEPT !.state = "ERROR"])
     \/ /\ ch \notin {SPACE, QUOTE, NEWLINE}
        /\ Goes(IF self.is_value_found THEN Advanced(self, ch) ELSE start(Advanced(self, ch)))

ezCli_HandleStateError(self, ch) ==
  Goes(IF ch = NEWLINE THEN [ezCli_ResetStateMachine(self) EXCEPT !.state = "COMMAND"]
       ELSE Stored(self, ch))

Full(c) == c.curr_index >= CliSize

\* A full buffer is noticed at the next character, which is still stored.
ezCli_Run(ch) ==
  LET self == IF Full(cli) THEN [cli EXCEPT !.state = "ERROR"] ELSE cli IN
  IF ch \in {SPACE, NUL, NEWLINE} /\ self.curr_index = 0
  THEN Goes(self)
  ELSE \/ self.state = "COMMAND" /\ ezCli_HandleStateCommand(self, ch)
       \/ self.state = "ARGUMENT" /\ ezCli_HandleStateArgument(self, ch)
       \/ self.state = "VALUE" /\ ezCli_HandleStateValue(self, ch)
       \/ self.state = "ERROR" /\ ezCli_HandleStateError(self, ch)

-----------------------------------------------------------------------------
(* The two tasks of the sample: one passes on what is typed, the other     *)
(* polls; a character that has not come reads as NUL.                      *)

GetInputTaskFunction(l) ==
  /\ coming = << >>
  /\ typed' = l /\ coming' = LineText(l)
  /\ begun' = Standing(cli) /\ gap' = FALSE /\ called' = << >>
  /\ UNCHANGED cli

CliTaskFunction ==
  /\ coming # << >>
  /\ ezCli_Run(Head(coming))
  /\ coming' = Tail(coming)
  /\ UNCHANGED <<typed, begun, gap>>

\* One pause in a line shows what any number does.
GetCharCallbackEmpty ==
  /\ ~gap
  /\ ezCli_Run(NUL)
  /\ gap' = (gap \/ cli.curr_index # 0)
  /\ UNCHANGED <<typed, coming, begun>>

CliNext ==
  \/ \E l \in Lines : GetInputTaskFunction(l)
  \/ CliTaskFunction
  \/ GetCharCallbackEmpty

CliSpec == ezCli_Init /\ [][CliNext]_cliVars

-----------------------------------------------------------------------------
(* Type invariant. *)
CliTypeOK ==
  /\ cli.state \in {"COMMAND", "ARGUMENT", "VALUE", "ERROR"}
  /\ DOMAIN cli.buff = 0 .. CliSize - 1
  /\ cli.curr_cmd_index \in 1 .. Len(CliCommands)
  /\ cli.curr_arg_index \in 0 .. NumOfArgument
  /\ \A i \in 0 .. NumOfArgument - 1 :
       {cli.arg_list[i], cli.value_list[i]} \subseteq {CliNULL} \cup 0 .. CliSize - 1
  /\ cli.quotation_mark_count \in 0 .. MarksRange - 1
  /\ typed \in Lines \cup {NoLine}
  /\ gap \in BOOLEAN

\* What a line asks for, read off its words: the command, then names and
\* values by turns.  A name is looked up only when a blank follows it, so one
\* that ends the line is passed on unseen; a blank behind the last possible
\* value is one argument too many; a command that takes arguments is called
\* without any only when a blank follows it.
TheCommand(l) == FirstOf(ezCli_IsCommandExisting(l.command))
Followed(l, i) == i < Len(l.words) \/ l.trailing

\* The bytes of the buffer that the command and the first i words take.
LengthUpTo(l) ==
  LET length[i \in 0 .. Len(l.words)] ==
        IF i = 0 THEN Len(l.command) ELSE length[i - 1] + 1 + Len(l.words[i].text)
  IN length
Fits(l) == LengthUpTo(l)[Len(l.words)] + (IF l.trailing THEN 1 ELSE 0) < CliSize

IsName(l, i) ==
  /\ l.words[i].marks = 0 /\ l.words[i].text[1] = DASH
  /\ Followed(l, i) => ezCli_IsArgumentExisting(TheCommand(l), l.words[i].text)
IsValue(l, i) == l.words[i].marks # 1 /\ (Followed(l, i) => i < 2 * NumOfArgument)

IsCommandLine(l) ==
  /\ ezCli_IsCommandExisting(l.command) # {} /\ Fits(l)
  /\ \A i \in 1 .. Len(l.words) : IF i % 2 = 1 THEN IsName(l, i) ELSE IsValue(l, i)
  /\ l.words = << >> /\ ~l.trailing => ~TakesArguments(TheCommand(l))

LineMeaning(l) ==
  LET word(i) == IF i <= Len(l.words) THEN l.words[i].text ELSE << >>
      given(i) == IF i <= Len(l.words) THEN i ELSE CliNULL
      each(f(_), j) == [k \in 0 .. NumOfArgument - 1 |-> f(2 * k + j)]
  IN IF IsCommandLine(l)
     THEN <<[command |-> l.command,
             args |-> each(word, 1), values |-> each(word, 2),
             answer |-> Answer(TheCommand(l), each(given, 1), each(given, 2))]>>
     ELSE << >>

\* A line that finds the parser at rest, is typed without a pause and does not
\* meet a stale count of quotation marks has exactly the callback called that
\* its words ask for, with these arguments and values, or none; a line that
\* finds the parser in its error state is swallowed and ends that state.
CliObeys ==
  coming = << >> /\ typed # NoLine =>
    /\ begun.state = "COMMAND" /\ ~gap /\ (begun.marks = 0 \/ typed.words = << >>) =>
         called = LineMeaning(typed)
    /\ begun.state = "ERROR" => called = << >> /\ cli.state = "COMMAND"

\* The parser can be brought back by a newline wherever it stands: outside its
\* first state it has stored a character, so the newline is not skipped as a
\* leading blank; and an overlong line writes one byte behind the buffer, never
\* a second one.
CliCanRecover ==
  /\ cli.state # "COMMAND" => cli.curr_index > 0
  /\ cli.curr_index <= CliSize
=============================================================================
