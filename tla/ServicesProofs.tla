--------------------------- MODULE ServicesProofs ---------------------------
(***************************************************************************)
(* Proofs about the services, which share no state, alone and together.    *)
(*   - Cli, for every table of commands, every set of lines and every size *)
(*     of the buffer and of the argument list: the index into the buffer   *)
(*     passes the last byte by one at most, a newline always brings the    *)
(*     parser back, and a line calls what its words ask for, or nothing.   *)
(*   - StateMachine, for any states, any table of functions, any events    *)
(*     and any size of the event buffer: each machine settles in one state *)
(*     and events are handled once and in order.                           *)
(*   - DataModel, for any tables of points: the binary search finds every  *)
(*     point, and a point is clean only if the reader has its value.       *)
(*   - EventBus, for any listeners, events and capacity: it implements the *)
(*     Announcer.  Its list of listeners is LinkedList with one head.      *)
(*   - OsalApp, on both ports and for any bounds of its counters: the      *)
(*     objects of the demo keep their types, and the flag that ends it is  *)
(*     not lost.                                                           *)
(***************************************************************************)
EXTENDS ServicesMC, SequenceTheorems, WellFoundedInduction, TLAPS

(* A claim about a recursive function is shown at the smallest argument    *)
(* for which it would fail.                                                *)

LEMMA Smallest ==
  ASSUME NEW T \in SUBSET Nat, T # {}
  PROVE  \E x \in T : \A y \in T : x <= y
  <1>1. PICK x \in T : \A y \in T : ~ (<<y, x>> \in OpToRel(<, Nat))
    BY NatLessThanWellFounded, WFMin
  <1>2. \A y \in T : ~ (y < x)
    BY <1>1 DEF OpToRel
  <1> QED
    BY <1>2

-----------------------------------------------------------------------------
(* The command line can be brought back.                                   *)

Fields ==
  {"state", "buff", "curr_index", "curr_cmd_index", "curr_arg_index", "arg_list",
   "value_list", "is_arg_found", "is_value_found", "quotation_mark_count"}

(* A parser at index k of the buffer, in the state st.                     *)
ParserAt(c, k, st) == DOMAIN c = Fields /\ c.curr_index = k /\ c.state = st

(* What CliCanRecover says of one parser.                                  *)
Recovers(c) ==
  \E k \in 0 .. CliSize, st \in {"COMMAND", "ARGUMENT", "VALUE", "ERROR"} :
    ParserAt(c, k, st) /\ (st # "COMMAND" => k > 0)

CliIInv == Recovers(cli)

-----------------------------------------------------------------------------
(* What the helpers do to the index and to the state.                      *)

LEMMA ResetIndex ==
  ASSUME NEW c, NEW k, NEW st, ParserAt(c, k, st)
  PROVE  ParserAt(ezCli_ResetStateMachine(c), 0, st)
  BY DEF ezCli_ResetStateMachine, ParserAt, Fields

LEMMA StoredIndex ==
  ASSUME NEW c, NEW k, NEW st, NEW ch, ParserAt(c, k, st)
  PROVE  ParserAt(Stored(c, ch), k, st)
  BY DEF Stored, ParserAt, Fields

LEMMA AdvancedIndex ==
  ASSUME NEW c, NEW k, NEW st, NEW ch, ParserAt(c, k, st)
  PROVE  ParserAt(Advanced(c, ch), k + 1, st)
  BY StoredIndex DEF Advanced, ParserAt, Fields

LEMMA PrintedIndex ==
  ASSUME NEW c, NEW k, NEW st, ParserAt(c, k, st)
  PROVE  ParserAt(ezCli_PrintCommandHelper(c), k, st) /\ ParserAt(ezCli_PrintMenu(c), k, st)
  <1>1. \A b : ParserAt(b, k, st) => ParserAt(ezCli_Printf(b), k, st)
    BY DEF ezCli_Printf, ParserAt, Fields
  <1> QED
    BY <1>1 DEF ezCli_PrintMenu, ezCli_PrintCommandHelper

LEMMA Enters ==
  ASSUME NEW c, NEW k, NEW st, NEW new, ParserAt(c, k, st)
  PROVE  ParserAt([c EXCEPT !.state = new], k, new)
  BY DEF ParserAt, Fields

LEMMA ProcessCommandIndex ==
  ASSUME NEW c, NEW k, NEW st, ParserAt(c, k, st), ezCli_ProcessCommand(c)
  PROVE  ParserAt(cli', 0, "COMMAND")
  BY ResetIndex, Enters DEF ezCli_ProcessCommand

-----------------------------------------------------------------------------
(* One lemma per handler, on a parser whose buffer is not full.            *)

LEMMA RecoversAt ==
  ASSUME NEW c, NEW k \in 0 .. CliSize, NEW st \in {"COMMAND", "ARGUMENT", "VALUE", "ERROR"},
         ParserAt(c, k, st), st # "COMMAND" => k > 0
  PROVE  Recovers(c)
  BY DEF Recovers

LEMMA CommandStep ==
  ASSUME NEW self, NEW k \in 0 .. CliSize, k < CliSize, NEW ch, ParserAt(self, k, "COMMAND"),
         ezCli_HandleStateCommand(self, ch)
  PROVE  Recovers(cli')
  <1> DEFINE c == Terminated(self)
             found == ezCli_IsCommandExisting(StringAt(c.buff, 0))
             known == [c EXCEPT !.curr_cmd_index = IF found = {} THEN @ ELSE FirstOf(found)]
             runs == found # {} /\ ~TakesArguments(FirstOf(found))
  <1>0. k + 1 \in 0 .. CliSize /\ k + 1 > 0 /\ 0 \in 0 .. CliSize
    BY CliAssumption
  <1>1. ParserAt(c, k + 1, "COMMAND")
    BY AdvancedIndex DEF Terminated
  <1> HIDE DEF c
  <1>2. ParserAt(known, k + 1, "COMMAND")
    BY <1>1 DEF ParserAt, Fields
  <1> HIDE DEF known
  <1>3. \A new : ParserAt([known EXCEPT !.state = new], k + 1, new)
    BY <1>2, Enters
  <1>4. ASSUME Goes([known EXCEPT !.state = "ARGUMENT", !.arg_list = NoPointers])
        PROVE  Recovers(cli')
    <2>1. ParserAt([known EXCEPT !.state = "ARGUMENT", !.arg_list = NoPointers],
                   k + 1, "ARGUMENT")
      BY <1>3 DEF ParserAt, Fields
    <2> QED
      BY <1>0, <1>4, <2>1, RecoversAt DEF Goes
  <1>5. ASSUME Goes([known EXCEPT !.state = "ERROR"])
        PROVE  Recovers(cli')
    BY <1>0, <1>3, <1>5, RecoversAt DEF Goes
  <1>6. ASSUME ezCli_ProcessCommand(known)
        PROVE  Recovers(cli')
    BY <1>0, <1>2, <1>6, ProcessCommandIndex, RecoversAt
  <1>7. ASSUME Goes([ezCli_PrintMenu(known) EXCEPT !.state = "ERROR"])
        PROVE  Recovers(cli')
    BY <1>0, <1>2, <1>7, PrintedIndex, Enters, RecoversAt DEF Goes
  <1>8. ASSUME Goes(Advanced(self, ch))
        PROVE  Recovers(cli')
    BY <1>0, <1>8, AdvancedIndex, RecoversAt DEF Goes
  <1>9. \/ Goes(IF found # {} THEN [known EXCEPT !.state = "ARGUMENT", !.arg_list = NoPointers]
                ELSE [known EXCEPT !.state = "ERROR"])
        \/ ezCli_ProcessCommand(known)
        \/ Goes([ezCli_PrintMenu(known) EXCEPT !.state = "ERROR"])
        \/ Goes(Advanced(self, ch))
    BY DEF ezCli_HandleStateCommand, c, known
  <1> HIDE DEF found
  <1> QED
    BY <1>4, <1>5, <1>6, <1>7, <1>8, <1>9

LEMMA ArgumentStep ==
  ASSUME NEW self, NEW k \in 0 .. CliSize, k < CliSize, k > 0, NEW ch,
         ParserAt(self, k, "ARGUMENT"), ezCli_HandleStateArgument(self, ch)
  PROVE  Recovers(cli')
  <1> DEFINE c == Terminated(self)
             name == StringAt(c.buff, self.arg_list[self.curr_arg_index])
             found_here == [Advanced(self, ch) EXCEPT !.is_arg_found = TRUE,
                            !.arg_list[self.curr_arg_index] = self.curr_index]
  <1>0. k + 1 \in 0 .. CliSize /\ k + 1 > 0 /\ 0 \in 0 .. CliSize
    BY CliAssumption
  <1>1. ParserAt(c, k + 1, "ARGUMENT")
    BY AdvancedIndex DEF Terminated
  <1> HIDE DEF c
  <1>2. ASSUME Goes(Stored(self, ch))
        PROVE  Recovers(cli')
    BY <1>2, StoredIndex, RecoversAt DEF Goes
  <1>3. ASSUME Goes([c EXCEPT !.is_arg_found = FALSE, !.state = "VALUE"])
        PROVE  Recovers(cli')
    <2>1. ParserAt([c EXCEPT !.is_arg_found = FALSE, !.state = "VALUE"], k + 1, "VALUE")
      BY <1>1 DEF ParserAt, Fields
    <2> QED
      BY <1>0, <1>3, <2>1, RecoversAt DEF Goes
  <1>4. ASSUME Goes([ezCli_PrintCommandHelper(c) EXCEPT !.state = "ERROR"])
        PROVE  Recovers(cli')
    BY <1>0, <1>1, <1>4, PrintedIndex, Enters, RecoversAt DEF Goes
  <1>5. ASSUME ezCli_ProcessCommand(c)
        PROVE  Recovers(cli')
    BY <1>0, <1>1, <1>5, ProcessCommandIndex, RecoversAt
  <1>6. ASSUME Goes(Advanced(self, ch))
        PROVE  Recovers(cli')
    BY <1>0, <1>6, AdvancedIndex, RecoversAt DEF Goes
  <1>7. ASSUME Goes(found_here)
        PROVE  Recovers(cli')
    <2>1. ParserAt(Advanced(self, ch), k + 1, "ARGUMENT")
      BY AdvancedIndex
    <2>2. ParserAt(found_here, k + 1, "ARGUMENT")
      BY <2>1 DEF ParserAt, Fields
    <2> HIDE DEF found_here
    <2> QED
      BY <1>0, <1>7, <2>2, RecoversAt DEF Goes
  <1>8. ASSUME Goes([Advanced(self, ch) EXCEPT !.state = "ERROR"])
        PROVE  Recovers(cli')
    BY <1>0, <1>8, AdvancedIndex, Enters, RecoversAt DEF Goes
  <1>9. \/ Goes(Stored(self, ch))
        \/ Goes(IF ezCli_IsArgumentExisting(self.curr_cmd_index, name)
                THEN [c EXCEPT !.is_arg_found = FALSE, !.state = "VALUE"]
                ELSE [ezCli_PrintCommandHelper(c) EXCEPT !.state = "ERROR"])
        \/ ezCli_ProcessCommand(c)
        \/ Goes(IF self.is_arg_found THEN Advanced(self, ch) ELSE found_here)
        \/ Goes([Advanced(self, ch) EXCEPT !.state = "ERROR"])
    BY DEF ezCli_HandleStateArgument, c
  <1> HIDE DEF name, found_here
  <1> QED
    BY <1>2, <1>3, <1>4, <1>5, <1>6, <1>7, <1>8, <1>9

LEMMA ValueStep ==
  ASSUME NEW self, NEW k \in 0 .. CliSize, k < CliSize, k > 0, NEW ch,
         ParserAt(self, k, "VALUE"), ezCli_HandleStateValue(self, ch)
  PROVE  Recovers(cli')
  <1> DEFINE complete == [Terminated(self) EXCEPT !.quotation_mark_count = 0,
                            !.is_value_found = FALSE, !.curr_arg_index = @ + 1]
             start(c) == [c EXCEPT !.is_value_found = TRUE,
                                   !.value_list[self.curr_arg_index] = self.curr_index]
             quoted == [Stored(self, ch) EXCEPT !.quotation_mark_count = (@ + 1) % MarksRange]
  <1>0. k + 1 \in 0 .. CliSize /\ k + 1 > 0 /\ 0 \in 0 .. CliSize
    BY CliAssumption
  <1>1. ParserAt(complete, k + 1, "VALUE")
    <2>1. ParserAt(Terminated(self), k + 1, "VALUE")
      BY AdvancedIndex DEF Terminated
    <2> QED
      BY <2>1 DEF ParserAt, Fields
  <1>2. ParserAt(quoted, k, "VALUE")
    <2>1. ParserAt(Stored(self, ch), k, "VALUE")
      BY StoredIndex
    <2> QED
      BY <2>1 DEF ParserAt, Fields
  <1>3. \A c, n : ParserAt(c, n, "VALUE") => ParserAt(start(c), n, "VALUE")
    BY DEF ParserAt, Fields
  <1>4. \/ Goes([complete EXCEPT !.state = "ARGUMENT"])
        \/ Goes([ezCli_PrintCommandHelper(complete) EXCEPT !.state = "ERROR"])
        \/ Goes(Advanced(self, ch)) \/ Goes(Stored(self, ch))
        \/ Goes(start(quoted)) \/ Goes(quoted) \/ Goes([quoted EXCEPT !.state = "ERROR"])
        \/ ezCli_ProcessCommand(complete)
        \/ Goes([Stored(self, ch) EXCEPT !.state = "ERROR"])
        \/ Goes(start(Advanced(self, ch)))
    BY DEF ezCli_HandleStateValue
  <1> HIDE DEF complete, start, quoted
  <1>5. ASSUME \/ Goes([complete EXCEPT !.state = "ARGUMENT"])
               \/ Goes([ezCli_PrintCommandHelper(complete) EXCEPT !.state = "ERROR"])
        PROVE  Recovers(cli')
    BY <1>0, <1>1, <1>5, PrintedIndex, Enters, RecoversAt DEF Goes
  <1>6. ASSUME Goes(Advanced(self, ch)) \/ Goes(Stored(self, ch))
        PROVE  Recovers(cli')
    BY <1>0, <1>6, AdvancedIndex, StoredIndex, RecoversAt DEF Goes
  <1>7. ASSUME Goes(start(quoted)) \/ Goes(quoted) \/ Goes([quoted EXCEPT !.state = "ERROR"])
        PROVE  Recovers(cli')
    BY <1>0, <1>2, <1>3, <1>7, Enters, RecoversAt DEF Goes
  <1>8. ASSUME ezCli_ProcessCommand(complete)
        PROVE  Recovers(cli')
    BY <1>0, <1>1, <1>8, ProcessCommandIndex, RecoversAt
  <1>9. ASSUME \/ Goes([Stored(self, ch) EXCEPT !.state = "ERROR"])
               \/ Goes(start(Advanced(self, ch)))
        PROVE  Recovers(cli')
    BY <1>0, <1>3, <1>9, StoredIndex, AdvancedIndex, Enters, RecoversAt DEF Goes
  <1> QED
    BY <1>4, <1>5, <1>6, <1>7, <1>8, <1>9

LEMMA ErrorStep ==
  ASSUME NEW self, NEW k \in 0 .. CliSize, k > 0, NEW ch, ParserAt(self, k, "ERROR"),
         ezCli_HandleStateError(self, ch)
  PROVE  Recovers(cli')
  <1>1. 0 \in 0 .. CliSize
    BY CliAssumption
  <1>2. CASE cli' = [ezCli_ResetStateMachine(self) EXCEPT !.state = "COMMAND"]
    BY <1>1, <1>2, ResetIndex, Enters, RecoversAt
  <1>3. CASE cli' = Stored(self, ch)
    BY <1>3, StoredIndex, RecoversAt
  <1> QED
    BY <1>2, <1>3 DEF ezCli_HandleStateError, Goes

-----------------------------------------------------------------------------
LEMMA ParserStep ==
  ASSUME CliIInv, NEW ch, ezCli_Run(ch)
  PROVE  CliIInv'
  <1> DEFINE self == IF Full(cli) THEN [cli EXCEPT !.state = "ERROR"] ELSE cli
  <1>1. PICK k \in 0 .. CliSize, st \in {"COMMAND", "ARGUMENT", "VALUE", "ERROR"} :
          ParserAt(cli, k, st) /\ (st # "COMMAND" => k > 0)
    BY DEF CliIInv, Recovers
  <1>2. Full(cli) <=> k = CliSize
    BY <1>1, CliAssumption DEF Full, ParserAt
  <1>3. \E s \in {"COMMAND", "ARGUMENT", "VALUE", "ERROR"} :
          /\ ParserAt(self, k, s)
          /\ s # "COMMAND" => k > 0
          /\ s # "ERROR" => k < CliSize
    <2>1. CASE Full(cli)
      BY <1>1, <1>2, <2>1, Enters, CliAssumption
    <2>2. CASE ~Full(cli)
      BY <1>1, <1>2, <2>2, CliAssumption
    <2> QED
      BY <2>1, <2>2
  <1>4. PICK s \in {"COMMAND", "ARGUMENT", "VALUE", "ERROR"} :
          /\ ParserAt(self, k, s)
          /\ s # "COMMAND" => k > 0
          /\ s # "ERROR" => k < CliSize
    BY <1>3
  <1>5. \/ Goes(self)
        \/ self.state = "COMMAND" /\ ezCli_HandleStateCommand(self, ch)
        \/ self.state = "ARGUMENT" /\ ezCli_HandleStateArgument(self, ch)
        \/ self.state = "VALUE" /\ ezCli_HandleStateValue(self, ch)
        \/ self.state = "ERROR" /\ ezCli_HandleStateError(self, ch)
    BY DEF ezCli_Run
  <1>6. self.state = s
    BY <1>4 DEF ParserAt
  <1> HIDE DEF self
  <1>7. CASE Goes(self)
    BY <1>4, <1>7, RecoversAt DEF Goes, CliIInv
  <1>8. CASE s = "COMMAND" /\ ezCli_HandleStateCommand(self, ch)
    BY <1>4, <1>8, CommandStep DEF CliIInv
  <1>9. CASE s = "ARGUMENT" /\ ezCli_HandleStateArgument(self, ch)
    BY <1>4, <1>9, ArgumentStep DEF CliIInv
  <1>10. CASE s = "VALUE" /\ ezCli_HandleStateValue(self, ch)
    BY <1>4, <1>10, ValueStep DEF CliIInv
  <1>11. CASE s = "ERROR" /\ ezCli_HandleStateError(self, ch)
    BY <1>4, <1>11, ErrorStep DEF CliIInv
  <1> QED
    BY <1>5, <1>6, <1>7, <1>8, <1>9, <1>10, <1>11

LEMMA InitCliIInv == ezCli_Init => CliIInv
  <1> SUFFICES ASSUME ezCli_Init PROVE Recovers(cli)
    BY DEF CliIInv
  <1> DEFINE c == [state |-> "COMMAND", buff |-> EmptyBuffer, curr_index |-> 0,
                   curr_cmd_index |-> 1, curr_arg_index |-> 0, arg_list |-> NoPointers,
                   value_list |-> NoPointers, is_arg_found |-> FALSE, is_value_found |-> FALSE,
                   quotation_mark_count |-> 0]
  <1>1. ParserAt(c, 0, "COMMAND")
    BY DEF ParserAt, Fields
  <1>2. cli = ezCli_ResetStateMachine(c)
    BY DEF ezCli_Init, CliStart
  <1> HIDE DEF c
  <1> QED
    BY <1>1, <1>2, ResetIndex, RecoversAt, CliAssumption

LEMMA NextCliIInv == CliIInv /\ [CliNext]_cliVars => CliIInv'
  <1> SUFFICES ASSUME CliIInv, [CliNext]_cliVars PROVE CliIInv'
    OBVIOUS
  <1>1. ASSUME NEW l \in Lines, GetInputTaskFunction(l) PROVE CliIInv'
    BY <1>1 DEF GetInputTaskFunction, CliIInv
  <1>2. CASE CliTaskFunction
    BY <1>2, ParserStep DEF CliTaskFunction
  <1>3. CASE GetCharCallbackEmpty
    BY <1>3, ParserStep DEF GetCharCallbackEmpty
  <1>4. CASE UNCHANGED cliVars
    BY <1>4 DEF cliVars, CliIInv
  <1> QED
    BY <1>1, <1>2, <1>3, <1>4 DEF CliNext

(* Whatever is typed, with whatever pauses, the parser can be brought back *)
(* by a newline, and it writes one byte at most behind its buffer.         *)
THEOREM AlwaysRecovers == CliSpec => []CliCanRecover
  <1>1. CliIInv => CliCanRecover
    <2> SUFFICES ASSUME CliIInv PROVE CliCanRecover
      OBVIOUS
    <2>1. PICK k \in 0 .. CliSize, st \in {"COMMAND", "ARGUMENT", "VALUE", "ERROR"} :
            ParserAt(cli, k, st) /\ (st # "COMMAND" => k > 0)
      BY DEF CliIInv, Recovers
    <2> QED
      BY <2>1, CliAssumption DEF CliCanRecover, ParserAt
  <1> QED
    BY <1>1, InitCliIInv, NextCliIInv, PTL DEF CliSpec

-----------------------------------------------------------------------------
(* The command line obeys.  First the text of a line, piece by piece.      *)

IsWord(w) == w.text \in Text({QUOTE}) /\ w.marks \in {0, 1, 2}

Line(l, n) ==
  /\ n \in Nat /\ n = Len(l.words) /\ DOMAIN l.words = 1 .. n /\ (l.words = << >> <=> n = 0)
  /\ l.command \in Text({SPACE}) /\ Len(l.command) \in Nat \ {0} /\ l.trailing \in BOOLEAN
  /\ \A i \in 1 .. n :
       /\ l.words[i].text \in Text({QUOTE}) /\ Len(l.words[i].text) \in Nat
       /\ l.words[i].marks \in {0, 1, 2}
       /\ l.words[i].marks = 1 => i = n
       /\ l.words[i].marks = 0 => l.words[i].text \in Text({QUOTE, SPACE}) /\ Len(l.words[i].text) # 0

LEMMA LinesAre ==
  ASSUME NEW l \in Lines
  PROVE  Line(l, Len(l.words))
  <1>1. l.words \in Seq([text : Text({QUOTE}), marks : 0 .. 2])
    BY CliAssumption
  <1>2. /\ Len(l.words) \in Nat /\ DOMAIN l.words = 1 .. Len(l.words)
        /\ (l.words = << >> <=> Len(l.words) = 0)
        /\ \A i \in 1 .. Len(l.words) : l.words[i] \in [text : Text({QUOTE}), marks : 0 .. 2]
    BY <1>1, LenProperties, ElementOfSeq, EmptySeq
  <1>3. \A parting : \A t \in Text(parting) : Len(t) \in Nat /\ (t # << >> => Len(t) # 0)
    BY LenProperties, EmptySeq DEF Text
  <1>4. l.command \in Text({SPACE}) \ {<< >>} /\ l.trailing \in BOOLEAN
    BY CliAssumption
  <1>5. ASSUME NEW i \in 1 .. Len(l.words)
        PROVE  /\ l.words[i].text \in Text({QUOTE}) /\ l.words[i].marks \in {0, 1, 2}
               /\ l.words[i].marks = 1 => i = Len(l.words)
               /\ l.words[i].marks = 0 => l.words[i].text \in Text({QUOTE, SPACE}) \ {<< >>}
    <2>1. l.words[i].text \in Text({QUOTE}) /\ l.words[i].marks \in 0 .. 2
      BY <1>2
    <2>2. /\ l.words[i].marks = 1 => i = Len(l.words)
          /\ l.words[i].marks = 0 => l.words[i].text \in Text({QUOTE, SPACE}) \ {<< >>}
      BY CliAssumption
    <2> QED
      BY <2>1, <2>2
  <1> QED
    BY <1>2, <1>3, <1>4, <1>5 DEF Line

(* A piece has no character that would end it.                             *)
LEMMA TextPlain ==
  ASSUME NEW parting, NEW t \in Text(parting)
  PROVE  /\ t \in Seq(STRING) /\ Len(t) \in Nat /\ DOMAIN t = 1 .. Len(t)
         /\ \A k \in 1 .. Len(t) : t[k] \in STRING /\ t[k] \notin parting \cup {NUL, NEWLINE}
  <1>1. \A k \in 1 .. Len(t) : t[k] \in STRING \ (parting \cup {NUL, NEWLINE})
    BY ElementOfSeq DEF Text
  <1>2. Len(t) \in Nat /\ DOMAIN t = 1 .. Len(t)
    BY LenProperties DEF Text
  <1>3. t \in Seq(STRING)
    BY <1>1, <1>2 DEF Text
  <1> QED
    BY <1>1, <1>2, <1>3

(* What is recursive in the text and in its length.                        *)
IsTextUpTo(u, l, m) == u = [i \in 0 .. m |-> IF i = 0 THEN l.command ELSE u[i - 1] \o Written(l.words[i])]

IsLengthUpTo(u, l, m) ==
  u = [i \in 0 .. m |-> IF i = 0 THEN Len(l.command) ELSE u[i - 1] + 1 + Len(l.words[i].text)]

LEMMA TextUpToExists ==
  ASSUME NEW l, NEW m \in Nat
  PROVE  \E u : IsTextUpTo(u, l, m)
  <1> DEFINE T == {k \in Nat : ~ \E u : IsTextUpTo(u, l, k)}
  <1>1. SUFFICES ASSUME T # {} PROVE FALSE
    OBVIOUS
  <1>2. PICK k \in T : \A y \in T : k <= y
    BY <1>1, Smallest
  <1>3. k \in Nat /\ ~ \E u : IsTextUpTo(u, l, k)
    OBVIOUS
  <1>4. CASE k = 0
    <2> DEFINE u == [i \in 0 .. 0 |-> l.command]
    <2>1. IsTextUpTo(u, l, 0)
      BY DEF IsTextUpTo
    <2> QED
      BY <1>3, <1>4, <2>1
  <1>5. CASE k # 0
    <2>1. k - 1 \in Nat /\ k - 1 \notin T
      BY <1>2, <1>3, <1>5
    <2>2. PICK f : IsTextUpTo(f, l, k - 1)
      BY <2>1
    <2> DEFINE last == f[k - 1] \o Written(l.words[k])
               u == [i \in 0 .. k |-> IF i = k THEN last ELSE f[i]]
    <2>3. ASSUME NEW i \in 0 .. k
          PROVE  u[i] = IF i = 0 THEN l.command ELSE u[i - 1] \o Written(l.words[i])
      <3>1. CASE i = k
        <4>1. i # 0 /\ i - 1 \in 0 .. k /\ i - 1 # k
          BY <1>3, <1>5, <3>1
        <4> QED
          BY <3>1, <4>1
      <3>2. CASE i # k
        <4>1. i \in 0 .. k - 1 /\ (i # 0 => i - 1 \in 0 .. k - 1 /\ i - 1 \in 0 .. k /\ i - 1 # k)
          BY <1>3, <3>2
        <4>2. f[i] = IF i = 0 THEN l.command ELSE f[i - 1] \o Written(l.words[i])
          BY <2>2, <4>1 DEF IsTextUpTo
        <4> QED
          BY <3>2, <4>1, <4>2
      <3> QED
        BY <3>1, <3>2
    <2>4. u = [i \in 0 .. k |-> u[i]]
      OBVIOUS
    <2> HIDE DEF u
    <2>5. u = [i \in 0 .. k |-> IF i = 0 THEN l.command ELSE u[i - 1] \o Written(l.words[i])]
      BY <2>3, <2>4
    <2> QED
      BY <1>3, <2>5 DEF IsTextUpTo
  <1> QED
    BY <1>4, <1>5

LEMMA LengthUpToExists ==
  ASSUME NEW l, NEW m \in Nat
  PROVE  \E u : IsLengthUpTo(u, l, m)
  <1> DEFINE T == {k \in Nat : ~ \E u : IsLengthUpTo(u, l, k)}
  <1>1. SUFFICES ASSUME T # {} PROVE FALSE
    OBVIOUS
  <1>2. PICK k \in T : \A y \in T : k <= y
    BY <1>1, Smallest
  <1>3. k \in Nat /\ ~ \E u : IsLengthUpTo(u, l, k)
    OBVIOUS
  <1>4. CASE k = 0
    <2> DEFINE u == [i \in 0 .. 0 |-> Len(l.command)]
    <2>1. IsLengthUpTo(u, l, 0)
      BY DEF IsLengthUpTo
    <2> QED
      BY <1>3, <1>4, <2>1
  <1>5. CASE k # 0
    <2>1. k - 1 \in Nat /\ k - 1 \notin T
      BY <1>2, <1>3, <1>5
    <2>2. PICK f : IsLengthUpTo(f, l, k - 1)
      BY <2>1
    <2> DEFINE last == f[k - 1] + 1 + Len(l.words[k].text)
               u == [i \in 0 .. k |-> IF i = k THEN last ELSE f[i]]
    <2>3. ASSUME NEW i \in 0 .. k
          PROVE  u[i] = IF i = 0 THEN Len(l.command) ELSE u[i - 1] + 1 + Len(l.words[i].text)
      <3>1. CASE i = k
        <4>1. i # 0 /\ i - 1 \in 0 .. k /\ i - 1 # k
          BY <1>3, <1>5, <3>1
        <4> QED
          BY <3>1, <4>1
      <3>2. CASE i # k
        <4>1. i \in 0 .. k - 1 /\ (i # 0 => i - 1 \in 0 .. k - 1 /\ i - 1 \in 0 .. k /\ i - 1 # k)
          BY <1>3, <3>2
        <4>2. f[i] = IF i = 0 THEN Len(l.command) ELSE f[i - 1] + 1 + Len(l.words[i].text)
          BY <2>2, <4>1 DEF IsLengthUpTo
        <4> QED
          BY <3>2, <4>1, <4>2
      <3> QED
        BY <3>1, <3>2
    <2>4. u = [i \in 0 .. k |-> u[i]]
      OBVIOUS
    <2> HIDE DEF u
    <2>5. u = [i \in 0 .. k |-> IF i = 0 THEN Len(l.command) ELSE u[i - 1] + 1 + Len(l.words[i].text)]
      BY <2>3, <2>4
    <2> QED
      BY <1>3, <2>5 DEF IsLengthUpTo
  <1> QED
    BY <1>4, <1>5

LEMMA UpToAre ==
  ASSUME NEW l, Len(l.words) \in Nat
  PROVE  /\ IsTextUpTo(TextUpTo(l), l, Len(l.words))
         /\ IsLengthUpTo(LengthUpTo(l), l, Len(l.words))
  <1>1. TextUpTo(l) = CHOOSE u : IsTextUpTo(u, l, Len(l.words))
    BY DEF TextUpTo, IsTextUpTo
  <1>2. LengthUpTo(l) = CHOOSE u : IsLengthUpTo(u, l, Len(l.words))
    BY DEF LengthUpTo, IsLengthUpTo
  <1>3. \E u : IsTextUpTo(u, l, Len(l.words))
    BY TextUpToExists
  <1>4. \E u : IsLengthUpTo(u, l, Len(l.words))
    BY LengthUpToExists
  <1> QED
    BY <1>1, <1>2, <1>3, <1>4

Inline == (STRING \cup {SPACE, QUOTE}) \ {NEWLINE}
Inlines == Seq(Inline)

LEMMA Joined ==
  ASSUME NEW s \in Inlines, NEW t \in Inlines
  PROVE  /\ s \o t \in Inlines /\ Len(s \o t) = Len(s) + Len(t)
         /\ \A k \in 1 .. Len(s) : (s \o t)[k] = s[k]
         /\ \A k \in 1 .. Len(t) : (s \o t)[Len(s) + k] = t[k]
  <1>1. Len(s) \in Nat /\ Len(t) \in Nat
    BY LenProperties DEF Inlines
  <1>2. s \o t \in Inlines /\ Len(s \o t) = Len(s) + Len(t)
    BY ConcatProperties DEF Inlines
  <1>3. \A k \in 1 .. Len(s) + Len(t) : (s \o t)[k] = IF k <= Len(s) THEN s[k] ELSE t[k - Len(s)]
    BY ConcatProperties DEF Inlines
  <1>4. ASSUME NEW k \in 1 .. Len(s) PROVE (s \o t)[k] = s[k]
    <2>1. k \in 1 .. Len(s) + Len(t) /\ k <= Len(s)
      BY <1>1
    <2> QED
      BY <1>3, <2>1
  <1>5. ASSUME NEW k \in 1 .. Len(t) PROVE (s \o t)[Len(s) + k] = t[k]
    <2>1. Len(s) + k \in 1 .. Len(s) + Len(t) /\ ~ (Len(s) + k <= Len(s)) /\ (Len(s) + k) - Len(s) = k
      BY <1>1
    <2> QED
      BY <1>3, <2>1
  <1> QED
    BY <1>2, <1>4, <1>5

Marks(w, k) == IF w.marks >= k THEN 1 ELSE 0

(* How a word is written, from place p on, in a text t.                    *)
WrittenAt(t, p, w) ==
  /\ t[p + 1] = SPACE
  /\ w.marks >= 1 => t[p + 2] = QUOTE
  /\ \A k \in 1 .. Len(w.text) : t[p + 1 + Marks(w, 1) + k] = w.text[k]
  /\ w.marks = 2 => t[p + 3 + Len(w.text)] = QUOTE

Wide(w) == 1 + Marks(w, 1) + Len(w.text) + Marks(w, 2)

LEMMA WrittenIs ==
  ASSUME NEW w, w.text \in Text({QUOTE}), w.marks \in {0, 1, 2}
  PROVE  /\ Written(w) \in Inlines /\ Len(Written(w)) = Wide(w)
         /\ WrittenAt(Written(w), 0, w)
  <1> DEFINE m == Mark(w, 1)
             m2 == Mark(w, 2)
             t == w.text
             b == <<SPACE>>
  <1>1. /\ m \in Inlines /\ Len(m) = Marks(w, 1) /\ (w.marks >= 1 => m[1] = QUOTE)
        /\ m2 \in Inlines /\ Len(m2) = Marks(w, 2) /\ (w.marks = 2 => m2[1] = QUOTE)
    <2>1. <<QUOTE>> \in Inlines /\ Len(<<QUOTE>>) = 1 /\ <<QUOTE>>[1] = QUOTE
      <3>1. QUOTE \in Inline
        BY DEF Inline, SPACE, QUOTE, NEWLINE
      <3> QED
        BY <3>1 DEF Inlines
    <2>2. << >> \in Inlines /\ Len(<< >>) = 0
      BY EmptySeq DEF Inlines
    <2> QED
      BY <2>1, <2>2 DEF Mark, Marks
  <1>2. b \in Inlines /\ Len(b) = 1 /\ b[1] = SPACE
    <2>1. SPACE \in Inline
      BY DEF Inline, SPACE, QUOTE, NEWLINE
    <2> QED
      BY <2>1 DEF Inlines
  <1>3. t \in Inlines /\ Len(t) \in Nat
    <2>1. t \in Seq(STRING) /\ Len(t) \in Nat /\ \A k \in 1 .. Len(t) : t[k] \in Inline
      BY TextPlain DEF Inline
    <2>2. t = [k \in 1 .. Len(t) |-> t[k]]
      BY <2>1, LenProperties
    <2> QED
      BY <2>1, <2>2 DEF Inlines
  <1> HIDE DEF m, m2, t, b
  <1>4. /\ b \o m \in Inlines /\ Len(b \o m) = 1 + Marks(w, 1)
        /\ (b \o m)[1] = SPACE
        /\ w.marks >= 1 => (b \o m)[2] = QUOTE
    <2>1. /\ b \o m \in Inlines /\ Len(b \o m) = Len(b) + Len(m)
          /\ \A k \in 1 .. Len(b) : (b \o m)[k] = b[k]
          /\ \A k \in 1 .. Len(m) : (b \o m)[Len(b) + k] = m[k]
      BY <1>1, <1>2, Joined
    <2>2. w.marks >= 1 => 1 \in 1 .. Len(m)
      BY <1>1 DEF Marks
    <2>3. (b \o m)[1] = SPACE
      BY <2>1, <1>2
    <2>4. w.marks >= 1 => (b \o m)[1 + 1] = QUOTE
      BY <2>1, <2>2, <1>1, <1>2
    <2>5. 1 + 1 = 2 /\ Len(b \o m) = 1 + Marks(w, 1)
      BY <2>1, <1>1, <1>2
    <2> QED
      BY <2>1, <2>3, <2>4, <2>5
  <1> DEFINE c == b \o m
             d == c \o t
  <1> HIDE DEF c
  <1>5. /\ d \in Inlines /\ Len(d) = 1 + Marks(w, 1) + Len(t)
        /\ d[1] = SPACE
        /\ w.marks >= 1 => d[2] = QUOTE
        /\ \A k \in 1 .. Len(t) : d[1 + Marks(w, 1) + k] = t[k]
    <2>1. c \in Inlines /\ Len(c) = 1 + Marks(w, 1)
      BY <1>4 DEF c
    <2>2. /\ d \in Inlines /\ Len(d) = Len(c) + Len(t)
          /\ \A k \in 1 .. Len(c) : d[k] = c[k]
          /\ \A k \in 1 .. Len(t) : d[Len(c) + k] = t[k]
      BY <2>1, <1>3, Joined
    <2>3. 1 \in 1 .. Len(c) /\ (w.marks >= 1 => 2 \in 1 .. Len(c))
      BY <2>1 DEF Marks
    <2> HIDE DEF d
    <2>4. d[1] = SPACE /\ (w.marks >= 1 => d[2] = QUOTE)
      BY <1>4, <2>2, <2>3 DEF c
    <2> QED
      BY <2>1, <2>2, <2>4
  <1> HIDE DEF d
  <1>6. /\ d \o m2 \in Inlines /\ Len(d \o m2) = Wide(w)
        /\ \A k \in 1 .. Len(d) : (d \o m2)[k] = d[k]
        /\ w.marks = 2 => (d \o m2)[Len(d) + 1] = QUOTE
    <2>1. /\ d \o m2 \in Inlines /\ Len(d \o m2) = Len(d) + Len(m2)
          /\ \A k \in 1 .. Len(d) : (d \o m2)[k] = d[k]
          /\ \A k \in 1 .. Len(m2) : (d \o m2)[Len(d) + k] = m2[k]
      BY <1>1, <1>5, Joined
    <2>2. w.marks = 2 => 1 \in 1 .. Len(m2)
      BY <1>1 DEF Marks
    <2>3. Len(d) + Len(m2) = Wide(w)
      BY <1>1, <1>5 DEF Wide, t
    <2> QED
      BY <1>1, <2>1, <2>2, <2>3
  <1> DEFINE z == d \o m2
  <1>7. Written(w) = z
    BY DEF Written, z, d, c, b, m, t, m2
  <1> HIDE DEF z
  <1>8. /\ 1 \in 1 .. Len(d) /\ (w.marks >= 1 => 2 \in 1 .. Len(d))
        /\ \A k \in 1 .. Len(t) : 1 + Marks(w, 1) + k \in 1 .. Len(d)
        /\ w.marks = 2 => Len(d) + 1 = 3 + Len(t)
    BY <1>3, <1>5 DEF Marks
  <1>9. /\ z[1] = SPACE /\ (w.marks >= 1 => z[2] = QUOTE)
        /\ \A k \in 1 .. Len(t) : z[1 + Marks(w, 1) + k] = t[k]
        /\ w.marks = 2 => z[3 + Len(t)] = QUOTE
    BY <1>5, <1>6, <1>8 DEF z
  <1>10. WrittenAt(z, 0, w)
    <2>1. \A k \in 1 .. Len(t) : 0 + 1 + Marks(w, 1) + k = 1 + Marks(w, 1) + k
      BY DEF Marks
    <2> QED
      BY <1>3, <1>9, <2>1 DEF WrittenAt, t
  <1> QED
    BY <1>6, <1>7, <1>10 DEF z

LEMMA Ended ==
  ASSUME NEW s \in Inlines, NEW t, t = s \o <<NEWLINE>>
  PROVE  /\ t \in Seq(Inline \cup {NEWLINE}) /\ Len(t) = Len(s) + 1
         /\ \A k \in 1 .. Len(s) : t[k] = s[k]
         /\ t[Len(s) + 1] = NEWLINE
  <1> DEFINE A == Inline \cup {NEWLINE}
             e == <<NEWLINE>>
  <1>1. e \in Seq(A) /\ Len(e) = 1 /\ e[1] = NEWLINE
    OBVIOUS
  <1>2. s \in Seq(A) /\ Len(s) \in Nat
    <2>1. s \in Seq(Inline)
      BY DEF Inlines
    <2>2. Len(s) \in Nat /\ s = [k \in 1 .. Len(s) |-> s[k]] /\ \A k \in 1 .. Len(s) : s[k] \in A
      BY <2>1, LenProperties, ElementOfSeq
    <2> QED
      BY <2>2
  <1> HIDE DEF A, e
  <1>3. s \o e \in Seq(A) /\ Len(s \o e) = Len(s) + Len(e)
    BY <1>1, <1>2, ConcatProperties
  <1>4. \A k \in 1 .. Len(s) + Len(e) : (s \o e)[k] = IF k <= Len(s) THEN s[k] ELSE e[k - Len(s)]
    BY <1>1, <1>2, ConcatProperties
  <1>5. \A k \in 1 .. Len(s) : k \in 1 .. Len(s) + Len(e) /\ k <= Len(s)
    BY <1>1, <1>2
  <1>6. /\ Len(s) + 1 \in 1 .. Len(s) + Len(e) /\ ~ (Len(s) + 1 <= Len(s))
        /\ (Len(s) + 1) - Len(s) = 1
    BY <1>1, <1>2
  <1>7. t = s \o e
    BY DEF e
  <1> HIDE <1>7
  <1>8. (\A k \in 1 .. Len(s) : (s \o e)[k] = s[k]) /\ (s \o e)[Len(s) + 1] = NEWLINE
    BY <1>1, <1>4, <1>5, <1>6
  <1> QED
    BY <1>1, <1>3, <1>7, <1>8 DEF A

Blank(l) == IF l.trailing THEN 1 ELSE 0

(* The text t of a line: its first S[i] characters are those up to the     *)
(* i-th word.                                                              *)
Laid(t, S, l, n) ==
  /\ t \in Seq(Inline \cup {NEWLINE}) /\ Len(t) \in Nat
  /\ \A i \in 0 .. n : S[i] \in Nat /\ S[i] <= S[n]
  /\ S[0] = Len(l.command) /\ \A i \in 1 .. n : S[i] = S[i - 1] + Wide(l.words[i])
  /\ Len(t) = S[n] + Blank(l) + 1
  /\ \A k \in 1 .. Len(t) - 1 : t[k] # NEWLINE
  /\ t[Len(t)] = NEWLINE
  /\ l.trailing => t[S[n] + 1] = SPACE
  /\ \A k \in 1 .. Len(l.command) : t[k] = l.command[k]
  /\ \A i \in 1 .. n : WrittenAt(t, S[i - 1], l.words[i])

LEMMA WideNat ==
  ASSUME NEW w, Len(w.text) \in Nat, w.marks \in {0, 1, 2}
  PROVE  /\ Wide(w) \in Nat /\ Wide(w) >= 1
         /\ w.marks = 0 => Marks(w, 1) = 0 /\ Wide(w) = 1 + Len(w.text)
         /\ w.marks = 1 => Marks(w, 1) = 1 /\ Wide(w) = 2 + Len(w.text)
         /\ w.marks = 2 => Marks(w, 1) = 1 /\ Wide(w) = 3 + Len(w.text)
  <1>1. CASE w.marks = 0
    <2>1. Marks(w, 1) = 0 /\ Marks(w, 2) = 0
      BY <1>1 DEF Marks
    <2> QED
      BY <1>1, <2>1 DEF Wide
  <1>2. CASE w.marks = 1
    <2>1. Marks(w, 1) = 1 /\ Marks(w, 2) = 0
      BY <1>2 DEF Marks
    <2> QED
      BY <1>2, <2>1 DEF Wide
  <1>3. CASE w.marks = 2
    <2>1. Marks(w, 1) = 1 /\ Marks(w, 2) = 1
      BY <1>3 DEF Marks
    <2> QED
      BY <1>3, <2>1 DEF Wide
  <1> QED
    BY <1>1, <1>2, <1>3

Copied(t, p, s, m) == \A k \in 1 .. m : t[p + k] = s[k]

LEMMA WrittenLater ==
  ASSUME NEW t, NEW s, NEW p \in Nat, NEW w, w.marks \in {0, 1, 2}, Len(w.text) \in Nat,
         WrittenAt(s, 0, w), Copied(t, p, s, Wide(w))
  PROVE  WrittenAt(t, p, w)
  <1>0. /\ Wide(w) \in Nat /\ Wide(w) >= 1 /\ (w.marks >= 1 => Wide(w) >= 2)
        /\ Marks(w, 1) \in {0, 1} /\ Wide(w) >= 1 + Marks(w, 1) + Len(w.text)
        /\ w.marks = 2 => Wide(w) = 3 + Len(w.text)
    BY WideNat
  <1>1. /\ 1 \in 1 .. Wide(w) /\ (w.marks >= 1 => 2 \in 1 .. Wide(w))
        /\ w.marks = 2 => 3 + Len(w.text) \in 1 .. Wide(w)
    BY <1>0
  <1>a. \A k \in 1 .. Wide(w) : t[p + k] = s[k]
    BY DEF Copied
  <1>2. t[p + 1] = SPACE /\ (w.marks >= 1 => t[p + 2] = QUOTE)
    <2>1. 0 + 1 = 1 /\ 0 + 2 = 2
      OBVIOUS
    <2> QED
      BY <1>1, <1>a, <2>1 DEF WrittenAt
  <1>3. ASSUME NEW k \in 1 .. Len(w.text)
        PROVE  t[p + 1 + Marks(w, 1) + k] = w.text[k]
    <2>1. /\ 0 + 1 + Marks(w, 1) + k = 1 + Marks(w, 1) + k
          /\ 1 + Marks(w, 1) + k \in 1 .. Wide(w)
          /\ p + (1 + Marks(w, 1) + k) = p + 1 + Marks(w, 1) + k
      <3> DEFINE m == Marks(w, 1)
      <3>1. m \in {0, 1} /\ Wide(w) >= 1 + m + Len(w.text) /\ k \in Nat /\ k >= 1 /\ k <= Len(w.text)
            /\ Wide(w) \in Nat /\ p \in Nat
        BY <1>0
      <3> HIDE DEF m
      <3>2. 0 + 1 + m + k = 1 + m + k /\ 1 + m + k \in 1 .. Wide(w) /\ p + (1 + m + k) = p + 1 + m + k
        <4>1. m = 0 \/ m = 1
          BY <3>1
        <4>2. CASE m = 0
          BY <3>1, <4>2
        <4>3. CASE m = 1
          BY <3>1, <4>3
        <4> QED
          BY <4>1, <4>2, <4>3
      <3> QED
        BY <3>2 DEF m
    <2>2. s[0 + 1 + Marks(w, 1) + k] = w.text[k]
      BY DEF WrittenAt
    <2>3. t[p + (1 + Marks(w, 1) + k)] = s[1 + Marks(w, 1) + k]
      BY <1>a, <2>1
    <2> QED
      BY <2>1, <2>2, <2>3
  <1>4. w.marks = 2 => t[p + 3 + Len(w.text)] = QUOTE
    <2>1. 0 + 3 + Len(w.text) = 3 + Len(w.text) /\ p + (3 + Len(w.text)) = p + 3 + Len(w.text)
      <3>1. \A k \in Nat : 0 + 3 + k = 3 + k /\ p + (3 + k) = p + 3 + k
        OBVIOUS
      <3> QED
        BY <3>1
    <2> QED
      BY <1>1, <1>a, <2>1 DEF WrittenAt
  <1> QED
    BY <1>2, <1>3, <1>4 DEF WrittenAt

LEMMA Layout ==
  ASSUME NEW l, NEW n, Line(l, n)
  PROVE  \E S : Laid(LineText(l), S, l, n)
  <1> DEFINE u == TextUpTo(l)
             w(i) == l.words[i]
  <1> USE DEF w
  <1>1. n \in Nat /\ n = Len(l.words) /\ l.trailing \in BOOLEAN
        /\ \A i \in 1 .. n : w(i).text \in Text({QUOTE}) /\ Len(w(i).text) \in Nat /\ w(i).marks \in {0, 1, 2}
    BY DEF Line
  <1>2. u[0] = l.command /\ \A i \in 1 .. n : u[i] = u[i - 1] \o Written(w(i))
    <2>1. IsTextUpTo(u, l, n)
      BY <1>1, UpToAre
    <2> HIDE DEF u, w
    <2>2. n \in Nat
      BY <1>1
    <2>3. \A i \in 0 .. n : u[i] = IF i = 0 THEN l.command ELSE u[i - 1] \o Written(l.words[i])
      BY <2>1 DEF IsTextUpTo
    <2>4. 0 \in 0 .. n /\ \A i \in 1 .. n : i \in 0 .. n /\ i # 0
      BY <2>2
    <2> QED
      BY <2>3, <2>4 DEF w
  <1> HIDE DEF u, w
  <1>3. \A i \in 1 .. n : /\ Written(w(i)) \in Inlines /\ Len(Written(w(i))) = Wide(w(i))
                         /\ WrittenAt(Written(w(i)), 0, w(i)) /\ Wide(w(i)) \in Nat
    BY <1>1, WrittenIs, WideNat
  <1>4. l.command \in Inlines
    <2>1. /\ l.command \in Seq(STRING) /\ Len(l.command) \in Nat
          /\ \A k \in 1 .. Len(l.command) : l.command[k] \in Inline
      BY TextPlain DEF Line, Inline
    <2>2. l.command = [k \in 1 .. Len(l.command) |-> l.command[k]]
      BY <2>1, LenProperties
    <2> QED
      BY <2>1, <2>2 DEF Inlines
  <1>5. \A i \in 0 .. n : u[i] \in Inlines
    <2> DEFINE T == {i \in 0 .. n : u[i] \notin Inlines}
    <2>1. SUFFICES ASSUME T # {} PROVE FALSE
      OBVIOUS
    <2>a. T \in SUBSET Nat
      BY <1>1
    <2>2. PICK i \in T : \A y \in T : i <= y
      <3> HIDE DEF T
      <3> QED
        BY <2>1, <2>a, Smallest
    <2>3. i \in 0 .. n /\ i # 0
      BY <1>2, <1>4
    <2>4. i - 1 \in 0 .. n /\ i - 1 \notin T /\ i \in 1 .. n
      BY <1>1, <2>2, <2>3
    <2>5. u[i] \in Inlines
      BY <1>2, <1>3, <2>4, Joined
    <2> QED
      BY <2>5
  <1> DEFINE S == [i \in 0 .. n |-> Len(u[i])]
  <1>6. \A i \in 0 .. n : S[i] = Len(u[i]) /\ S[i] \in Nat
    BY <1>5, LenProperties DEF Inlines
  <1> HIDE DEF S
  <1>7. ASSUME NEW i \in 1 .. n
        PROVE  /\ S[i] = S[i - 1] + Wide(w(i))
               /\ \A k \in 1 .. S[i - 1] : u[i][k] = u[i - 1][k]
               /\ \A k \in 1 .. Wide(w(i)) : u[i][S[i - 1] + k] = Written(w(i))[k]
    <2>1. i - 1 \in 0 .. n /\ i \in 0 .. n
      BY <1>1
    <2>2. u[i] = u[i - 1] \o Written(w(i)) /\ S[i - 1] = Len(u[i - 1]) /\ S[i] = Len(u[i])
      BY <1>2, <1>6, <2>1
    <2>3. u[i - 1] \in Inlines /\ Written(w(i)) \in Inlines /\ Len(Written(w(i))) = Wide(w(i))
      BY <1>3, <1>5, <2>1
    <2>4. LET x == u[i - 1]   y == Written(w(i))
          IN  /\ Len(x \o y) = Len(x) + Len(y)
              /\ \A k \in 1 .. Len(x) : (x \o y)[k] = x[k]
              /\ \A k \in 1 .. Len(y) : (x \o y)[Len(x) + k] = y[k]
      BY <2>3, Joined
    <2> QED
      BY <2>2, <2>3, <2>4
  <1>8. \A i \in 0 .. n : S[i] <= S[n] /\ \A k \in 1 .. S[i] : u[n][k] = u[i][k]
    <2> DEFINE Begins(i) == S[i] <= S[n] /\ \A k \in 1 .. S[i] : u[n][k] = u[i][k]
               T == {d \in 0 .. n : ~ Begins(n - d)}
    <2>1. SUFFICES ASSUME T # {} PROVE FALSE
      <3>1. \A i \in 0 .. n : n - i \in 0 .. n /\ n - (n - i) = i
        BY <1>1
      <3>2. T = {} => \A i \in 0 .. n : Begins(n - (n - i))
        BY <3>1
      <3> QED
        BY <3>1, <3>2
    <2>a. T \in SUBSET Nat
      BY <1>1
    <2>2. PICK d \in T : \A y \in T : d <= y
      <3> HIDE DEF T
      <3> QED
        BY <2>1, <2>a, Smallest
    <2>3. d \in 0 .. n /\ ~ Begins(n - d)
      OBVIOUS
    <2>4. Begins(n)
      BY <1>1, <1>6
    <2>5. d # 0 /\ d - 1 \in 0 .. n /\ d - 1 \notin T
      <3>1. n - 0 = n
        BY <1>1
      <3>2. d # 0
        BY <2>3, <2>4, <3>1
      <3> QED
        BY <1>1, <2>2, <2>3, <3>2
    <2>6. Begins(n - (d - 1))
      BY <2>5
    <2> DEFINE i == n - (d - 1)
    <2>7. i \in 1 .. n /\ i - 1 = n - d /\ i - 1 \in 0 .. n /\ i \in 0 .. n
      BY <1>1, <2>3, <2>5
    <2>8. Begins(i)
      BY <2>6
    <2> HIDE DEF i
    <2>9. S[i] = S[i - 1] + Wide(w(i)) /\ \A k \in 1 .. S[i - 1] : u[i][k] = u[i - 1][k]
      BY <1>7, <2>7
    <2>10. S[i] \in Nat /\ S[i - 1] \in Nat /\ Wide(w(i)) \in Nat /\ S[n] \in Nat
      BY <1>1, <1>3, <1>6, <2>7
    <2>11. Begins(i - 1)
      BY <2>8, <2>9, <2>10
    <2> QED
      BY <2>3, <2>7, <2>11
  <1> DEFINE b == IF l.trailing THEN <<SPACE>> ELSE << >>
             v == u[n] \o b
             t == v \o <<NEWLINE>>
  <1>9. LineText(l) = t
    BY <1>1 DEF LineText, u
  <1>10. b \in Inlines /\ Len(b) = Blank(l) /\ (l.trailing => b[1] = SPACE)
    <2>1. SPACE \in Inline
      BY DEF Inline, SPACE, NEWLINE
    <2>2. <<SPACE>> \in Inlines /\ Len(<<SPACE>>) = 1 /\ <<SPACE>>[1] = SPACE
      BY <2>1 DEF Inlines
    <2>3. << >> \in Inlines /\ Len(<< >>) = 0
      BY EmptySeq DEF Inlines
    <2> QED
      BY <2>2, <2>3 DEF Blank
  <1> HIDE DEF b
  <1>11. /\ v \in Inlines /\ Len(v) = S[n] + Blank(l)
         /\ \A k \in 1 .. S[n] : v[k] = u[n][k]
         /\ l.trailing => v[S[n] + 1] = SPACE
    <2>1. u[n] \in Inlines /\ S[n] = Len(u[n])
      BY <1>1, <1>5, <1>6
    <2>2. /\ v \in Inlines /\ Len(v) = S[n] + Len(b)
          /\ \A k \in 1 .. S[n] : v[k] = u[n][k]
          /\ \A k \in 1 .. Len(b) : v[S[n] + k] = b[k]
      <3>1. LET x == u[n] \o b
            IN  /\ x \in Inlines /\ Len(x) = Len(u[n]) + Len(b)
                /\ \A k \in 1 .. Len(u[n]) : x[k] = u[n][k]
                /\ \A k \in 1 .. Len(b) : x[Len(u[n]) + k] = b[k]
        BY <1>10, <2>1, Joined
      <3> QED
        BY <2>1, <3>1
    <2>3. l.trailing => 1 \in 1 .. Len(b)
      BY <1>10 DEF Blank
    <2> HIDE DEF v
    <2> QED
      BY <1>10, <2>2, <2>3
  <1> HIDE DEF v
  <1>12. /\ t \in Seq(Inline \cup {NEWLINE}) /\ Len(t) = Len(v) + 1
         /\ \A k \in 1 .. Len(v) : t[k] = v[k]
         /\ t[Len(v) + 1] = NEWLINE
    BY <1>11, Ended
  <1> HIDE DEF t
  <1>13. Len(v) \in Nat /\ S[n] \in Nat /\ S[n] <= Len(v) /\ (l.trailing => S[n] + 1 \in 1 .. Len(v))
    BY <1>1, <1>6, <1>11 DEF Blank
  <1>14. \A k \in 1 .. Len(v) : t[k] # NEWLINE
    <2>1. \A k \in 1 .. Len(v) : v[k] \in Inline
      BY <1>11, ElementOfSeq DEF Inlines
    <2> QED
      BY <1>12, <2>1 DEF Inline
  <1>15. \A i \in 0 .. n : \A k \in 1 .. S[i] : t[k] = u[i][k]
    <2> SUFFICES ASSUME NEW i \in 0 .. n, NEW k \in 1 .. S[i] PROVE t[k] = u[i][k]
      OBVIOUS
    <2>1. S[i] \in Nat /\ S[i] <= S[n] /\ u[n][k] = u[i][k]
      BY <1>6, <1>8
    <2>2. k \in 1 .. S[n] /\ k \in 1 .. Len(v)
      BY <1>13, <2>1
    <2> QED
      BY <1>11, <1>12, <2>1, <2>2
  <1>16. \A k \in 1 .. Len(l.command) : t[k] = l.command[k]
    <2>1. 0 \in 0 .. n /\ S[0] = Len(l.command)
      BY <1>1, <1>2, <1>6
    <2> QED
      BY <1>2, <1>15, <2>1
  <1>17. ASSUME NEW i \in 1 .. n
         PROVE  WrittenAt(t, S[i - 1], l.words[i])
    <2>1. i \in 0 .. n /\ i - 1 \in 0 .. n
      BY <1>1
    <2>2. S[i - 1] \in Nat /\ S[i] = S[i - 1] + Wide(w(i)) /\ Wide(w(i)) \in Nat
      BY <1>3, <1>6, <1>7, <2>1
    <2>3. \A k \in 1 .. Wide(w(i)) : t[S[i - 1] + k] = Written(w(i))[k]
      <3> SUFFICES ASSUME NEW k \in 1 .. Wide(w(i)) PROVE t[S[i - 1] + k] = Written(w(i))[k]
        OBVIOUS
      <3>1. S[i - 1] + k \in 1 .. S[i]
        BY <2>2
      <3> QED
        BY <1>7, <1>15, <2>1, <3>1
    <2>4. WrittenAt(t, S[i - 1], w(i))
      <3>1. /\ w(i).marks \in {0, 1, 2} /\ Len(w(i).text) \in Nat
            /\ WrittenAt(Written(w(i)), 0, w(i)) /\ S[i - 1] \in Nat
        BY <1>1, <1>3, <2>2
      <3>2. Copied(t, S[i - 1], Written(w(i)), Wide(w(i)))
        BY <2>3 DEF Copied
      <3> QED
        BY <3>1, <3>2, WrittenLater
    <2> QED
      BY <2>4 DEF w
  <1>18. Len(t) \in Nat /\ Len(t) = S[n] + Blank(l) + 1 /\ Len(t) - 1 = Len(v) /\ Len(t) = Len(v) + 1
    BY <1>11, <1>12, <1>13 DEF Blank
  <1>19. l.trailing => t[S[n] + 1] = SPACE
    BY <1>11, <1>12, <1>13
  <1>20. S[0] = Len(l.command) /\ \A i \in 1 .. n : S[i] = S[i - 1] + Wide(l.words[i])
    <2>1. 0 \in 0 .. n
      BY <1>1
    <2> QED
      BY <1>2, <1>6, <1>7, <2>1 DEF w
  <1>21. t[Len(t)] = NEWLINE /\ \A k \in 1 .. Len(t) - 1 : t[k] # NEWLINE
    BY <1>12, <1>14, <1>18
  <1>22. Laid(t, S, l, n)
    BY <1>6, <1>8, <1>12, <1>16, <1>17, <1>18, <1>19, <1>20, <1>21 DEF Laid
  <1> QED
    BY <1>9, <1>22

(* Where the words of a line stand in the buffer: L[i] is the length up to *)
(* word i, and every word ends with a NUL.                                 *)
Long(L, l, n) ==
  /\ L = LengthUpTo(l)
  /\ L[0] = Len(l.command) /\ \A i \in 1 .. n : L[i] = L[i - 1] + 1 + Len(l.words[i].text)
  /\ \A i \in 0 .. n : L[i] \in Nat /\ \A j \in 0 .. i : L[j] <= L[i]

LEMMA LengthsAre ==
  ASSUME NEW l, NEW n, Line(l, n)
  PROVE  \E L : Long(L, l, n)
  <1> DEFINE L == LengthUpTo(l)
             w(i) == Len(l.words[i].text)
  <1>1. n \in Nat /\ n = Len(l.words) /\ Len(l.command) \in Nat /\ \A i \in 1 .. n : w(i) \in Nat
    BY DEF Line
  <1>2. L[0] = Len(l.command) /\ \A i \in 1 .. n : L[i] = L[i - 1] + 1 + w(i)
    <2>1. IsLengthUpTo(L, l, n)
      BY <1>1, UpToAre
    <2> HIDE DEF L
    <2>2. n \in Nat
      BY <1>1
    <2>3. \A i \in 0 .. n : L[i] = IF i = 0 THEN Len(l.command) ELSE L[i - 1] + 1 + Len(l.words[i].text)
      BY <2>1 DEF IsLengthUpTo
    <2>4. 0 \in 0 .. n /\ \A i \in 1 .. n : i \in 0 .. n /\ i # 0
      BY <2>2
    <2> QED
      BY <2>3, <2>4
  <1> HIDE DEF L, w
  <1>3. \A i \in 0 .. n : L[i] \in Nat
    <2> DEFINE T == {i \in 0 .. n : L[i] \notin Nat}
    <2>1. SUFFICES ASSUME T # {} PROVE FALSE
      OBVIOUS
    <2>2. T \in SUBSET Nat
      BY <1>1
    <2>3. PICK i \in T : \A y \in T : i <= y
      <3> HIDE DEF T
      <3> QED
        BY <2>1, <2>2, Smallest
    <2>4. i \in 0 .. n /\ i # 0 /\ L[i] \notin Nat
      BY <1>1, <1>2
    <2>5. i - 1 \in 0 .. n /\ i - 1 \notin T /\ i \in 1 .. n
      BY <1>1, <2>3, <2>4
    <2>6. L[i - 1] \in Nat /\ w(i) \in Nat
      BY <1>1, <2>5
    <2> QED
      BY <1>2, <2>4, <2>5, <2>6
  <1>4. \A i \in 0 .. n : \A j \in 0 .. i : L[j] <= L[i]
    <2> SUFFICES ASSUME NEW j \in 0 .. n PROVE \A i \in j .. n : L[j] <= L[i]
      BY <1>1
    <2> DEFINE T == {i \in j .. n : ~ (L[j] <= L[i])}
    <2>1. SUFFICES ASSUME T # {} PROVE FALSE
      OBVIOUS
    <2>2. T \in SUBSET Nat
      BY <1>1
    <2>3. PICK i \in T : \A y \in T : i <= y
      <3> HIDE DEF T
      <3> QED
        BY <2>1, <2>2, Smallest
    <2>4. i \in j .. n /\ ~ (L[j] <= L[i]) /\ i # j
      BY <1>1, <1>3
    <2>5. i - 1 \in j .. n /\ i - 1 \notin T /\ i \in 1 .. n /\ i - 1 \in 0 .. n
      BY <1>1, <2>3, <2>4
    <2>6. L[j] <= L[i - 1]
      BY <2>5
    <2>7. L[i] = L[i - 1] + 1 + w(i) /\ w(i) \in Nat /\ L[i - 1] \in Nat /\ L[j] \in Nat
      BY <1>1, <1>2, <1>3, <2>5
    <2> QED
      BY <2>4, <2>6, <2>7
  <1>5. L = LengthUpTo(l)
    BY DEF L
  <1> QED
    BY <1>2, <1>3, <1>4, <1>5 DEF Long, w

Begun(b, p, t, m) == \A k \in 1 .. m : b[p + k - 1] = t[k]

HoldsAt(b, p, t) ==
  /\ p \in Nat /\ p + Len(t) < CliSize
  /\ Begun(b, p, t, Len(t)) /\ b[p + Len(t)] = NUL

LEMMA StringHeld ==
  ASSUME NEW parting, NEW t \in Text(parting), NEW b, NEW p, HoldsAt(b, p, t)
  PROVE  StringAt(b, p) = t
  <1> DEFINE ends == {i \in p .. CliSize - 1 : b[i] = NUL}
             e == p + Len(t)
             stop == IF ends = {} THEN CliSize ELSE CHOOSE i \in ends : \A j \in ends : i <= j
             f == [k \in 1 .. CliSize |-> b[k - 1]]
  <1>1. /\ t \in Seq(STRING) /\ Len(t) \in Nat
        /\ \A k \in 1 .. Len(t) : t[k] \in STRING /\ t[k] # NUL
    BY TextPlain
  <1>2. CliSize \in Nat /\ p \in Nat /\ e < CliSize /\ b[e] = NUL
    BY CliAssumption DEF HoldsAt
  <1>3. \A k \in 1 .. Len(t) : b[p + k - 1] = t[k]
    BY DEF HoldsAt, Begun
  <1>4. e \in ends
    BY <1>1, <1>2
  <1>5. ASSUME NEW j \in ends PROVE e <= j
    <2>1. CASE j < e
      <3>1. (j - p) + 1 \in 1 .. Len(t) /\ p + ((j - p) + 1) - 1 = j
        BY <1>1, <1>2, <2>1
      <3>2. b[j] # NUL
        BY <1>1, <1>3, <3>1
      <3> QED
        BY <3>2
    <2> QED
      BY <1>1, <1>2, <2>1
  <1>6. stop = e
    <2>1. ends # {} /\ \A i \in ends : i \in Int
      BY <1>2, <1>4
    <2> DEFINE s == CHOOSE i \in ends : \A j \in ends : i <= j
    <2>2. e \in Int
      BY <1>1, <1>2
    <2> HIDE DEF ends, e
    <2>3. s \in ends /\ \A j \in ends : s <= j
      BY <1>4, <1>5
    <2>4. s <= e /\ e <= s /\ s \in Int
      BY <1>4, <1>5, <2>1, <2>3
    <2> HIDE DEF s
    <2>5. s = e
      BY <2>2, <2>4
    <2> QED
      BY <2>1, <2>5 DEF s
  <1>7. StringAt(b, p) = SubSeq(f, p + 1, stop)
    <2>1. p # CliNULL
      BY <1>2 DEF CliNULL
    <2> QED
      BY <2>1, Zenon DEF StringAt
  <1> DEFINE r == SubSeq(f, p + 1, e)
  <1> HIDE DEF e
  <1>8. \A i \in p + 1 .. e : f[i] \in STRING
    <2> SUFFICES ASSUME NEW i \in p + 1 .. e PROVE f[i] \in STRING
      OBVIOUS
    <2>1. /\ i \in 1 .. CliSize /\ i - p \in 1 .. Len(t) /\ p + (i - p) - 1 = i - 1
      BY <1>1, <1>2 DEF e
    <2>2. f[i] = b[i - 1]
      BY <2>1
    <2> QED
      BY <1>1, <1>3, <2>1, <2>2
  <1> HIDE DEF f
  <1>9. /\ r \in Seq(STRING) /\ Len(r) = IF p + 1 <= e THEN e - (p + 1) + 1 ELSE 0
        /\ \A i \in 1 .. e - (p + 1) + 1 : r[i] = f[p + 1 + i - 1]
    <2>1. p + 1 \in Int /\ e \in Int
      BY <1>1, <1>2 DEF e
    <2> QED
      BY <1>8, <2>1, SubSeqProperties
  <1>10. Len(r) = Len(t)
    BY <1>1, <1>2, <1>9 DEF e
  <1>11. ASSUME NEW i \in 1 .. Len(r) PROVE r[i] = t[i]
    <2>1. /\ i \in 1 .. e - (p + 1) + 1 /\ p + 1 + i - 1 = p + i
          /\ p + i \in 1 .. CliSize /\ i \in 1 .. Len(t) /\ (p + i) - 1 = p + i - 1
      BY <1>1, <1>2, <1>10 DEF e
    <2>2. r[i] = f[p + i] /\ f[p + i] = b[(p + i) - 1]
      BY <1>9, <2>1 DEF f
    <2> QED
      BY <1>3, <2>1, <2>2
  <1>12. r = t
    BY <1>1, <1>9, <1>10, <1>11, SeqEqual
  <1> QED
    BY <1>6, <1>7, <1>12

-----------------------------------------------------------------------------
(* What each handler makes of a parser, field by field.                    *)

Is(c, st, b, p, cmd, k, al, vl, af, vf, m) ==
  /\ DOMAIN c = Fields
  /\ c.state = st /\ c.buff = b /\ c.curr_index = p /\ c.curr_cmd_index = cmd
  /\ c.curr_arg_index = k /\ c.arg_list = al /\ c.value_list = vl
  /\ c.is_arg_found = af /\ c.is_value_found = vf /\ c.quotation_mark_count = m

Put(b, p, ch) == [i \in DOMAIN b |-> IF i = p THEN ch ELSE b[i]]

Failed(p) == cli'.state = "ERROR" /\ cli'.curr_index = p /\ UNCHANGED called

Completed(st, b, p, cmd, k, al, vl, af, vf, m) ==
  \E c : Is(c, st, b, p, cmd, k, al, vl, af, vf, m) /\ ezCli_ProcessCommand(c)

Becomes(st, b, p, cmd, k, al, vl, af, vf, m) ==
  Is(cli', st, b, p, cmd, k, al, vl, af, vf, m) /\ UNCHANGED called

LEMMA StoredIs ==
  ASSUME NEW c, NEW st, NEW b, NEW p, NEW cmd, NEW k, NEW al, NEW vl, NEW af, NEW vf, NEW m,
         Is(c, st, b, p, cmd, k, al, vl, af, vf, m), NEW ch
  PROVE  Is(Stored(c, ch), st, Put(b, p, ch), p, cmd, k, al, vl, af, vf, m)
  BY DEF Stored, Put, Is, Fields

LEMMA AdvancedIs ==
  ASSUME NEW c, NEW st, NEW b, NEW p, NEW cmd, NEW k, NEW al, NEW vl, NEW af, NEW vf, NEW m,
         Is(c, st, b, p, cmd, k, al, vl, af, vf, m), NEW ch
  PROVE  Is(Advanced(c, ch), st, Put(b, p, ch), p + 1, cmd, k, al, vl, af, vf, m)
  <1>1. Is(Stored(c, ch), st, Put(b, p, ch), p, cmd, k, al, vl, af, vf, m)
    BY StoredIs
  <1> QED
    BY <1>1 DEF Advanced, Is, Fields

LEMMA StateIs ==
  ASSUME NEW c, NEW st, NEW b, NEW p, NEW cmd, NEW k, NEW al, NEW vl, NEW af, NEW vf, NEW m,
         Is(c, st, b, p, cmd, k, al, vl, af, vf, m), NEW new
  PROVE  Is([c EXCEPT !.state = new], new, b, p, cmd, k, al, vl, af, vf, m)
  BY DEF Is, Fields

LEMMA PrintedIs ==
  ASSUME NEW c, DOMAIN c = Fields
  PROVE  /\ [ezCli_PrintCommandHelper(c) EXCEPT !.state = "ERROR"].state = "ERROR"
         /\ [ezCli_PrintCommandHelper(c) EXCEPT !.state = "ERROR"].curr_index = c.curr_index
         /\ [ezCli_PrintMenu(c) EXCEPT !.state = "ERROR"].state = "ERROR"
         /\ [ezCli_PrintMenu(c) EXCEPT !.state = "ERROR"].curr_index = c.curr_index
  <1>1. \A d : DOMAIN d = Fields => DOMAIN ezCli_Printf(d) = Fields /\ ezCli_Printf(d).curr_index = d.curr_index
    BY DEF ezCli_Printf, Fields
  <1>2. \A d : DOMAIN d = Fields => /\ [d EXCEPT !.state = "ERROR"].state = "ERROR"
                                    /\ [d EXCEPT !.state = "ERROR"].curr_index = d.curr_index
    BY DEF Fields
  <1> QED
    BY <1>1, <1>2 DEF ezCli_PrintMenu, ezCli_PrintCommandHelper

CommandDoes(st, b, p, cmd, k, al, vl, af, vf, m, ch, found) ==
  /\ ch = SPACE /\ found = {} => Failed(p + 1)
  /\ ch = SPACE /\ found # {} =>
       Becomes("ARGUMENT", Put(b, p, NUL), p + 1, FirstOf(found), k, NoPointers, vl, af, vf, m)
  /\ ch = NEWLINE /\ found # {} /\ ~TakesArguments(FirstOf(found)) =>
       Completed(st, Put(b, p, NUL), p + 1, FirstOf(found), k, al, vl, af, vf, m)
  /\ ch = NEWLINE /\ (found = {} \/ TakesArguments(FirstOf(found))) => Failed(p + 1)
  /\ ch \notin {SPACE, NEWLINE} => Becomes(st, Put(b, p, ch), p + 1, cmd, k, al, vl, af, vf, m)

LEMMA CommandIs ==
  ASSUME NEW self, NEW st, NEW b, NEW p, NEW cmd, NEW k, NEW al, NEW vl, NEW af, NEW vf, NEW m,
         Is(self, st, b, p, cmd, k, al, vl, af, vf, m), NEW ch,
         ezCli_HandleStateCommand(self, ch),
         NEW found, found = ezCli_IsCommandExisting(StringAt(Put(b, p, NUL), 0))
  PROVE  CommandDoes(st, b, p, cmd, k, al, vl, af, vf, m, ch, found)
  <1> DEFINE c == Terminated(self)
             known == [c EXCEPT !.curr_cmd_index = IF found = {} THEN @ ELSE FirstOf(found)]
             i == IF found = {} THEN cmd ELSE FirstOf(found)
  <1>1. Is(c, st, Put(b, p, NUL), p + 1, cmd, k, al, vl, af, vf, m)
    BY AdvancedIs DEF Terminated
  <1>2. found = ezCli_IsCommandExisting(StringAt(c.buff, 0))
    BY <1>1 DEF Is
  <1>3. \/ /\ ch = SPACE
           /\ Goes(IF found # {} THEN [known EXCEPT !.state = "ARGUMENT", !.arg_list = NoPointers]
                   ELSE [known EXCEPT !.state = "ERROR"])
        \/ /\ ch = NEWLINE /\ found # {} /\ ~TakesArguments(FirstOf(found))
           /\ ezCli_ProcessCommand(known)
        \/ /\ ch = NEWLINE /\ ~ (found # {} /\ ~TakesArguments(FirstOf(found)))
           /\ Goes([ezCli_PrintMenu(known) EXCEPT !.state = "ERROR"])
        \/ /\ ch \notin {SPACE, NEWLINE}
           /\ Goes(Advanced(self, ch))
    BY <1>2 DEF ezCli_HandleStateCommand
  <1> HIDE DEF c
  <1>4. Is(known, st, Put(b, p, NUL), p + 1, i, k, al, vl, af, vf, m)
    BY <1>1 DEF Is, Fields
  <1> HIDE DEF known
  <1>5. Is([known EXCEPT !.state = "ARGUMENT", !.arg_list = NoPointers],
           "ARGUMENT", Put(b, p, NUL), p + 1, i, k, NoPointers, vl, af, vf, m)
    BY <1>4 DEF Is, Fields
  <1>6. [known EXCEPT !.state = "ERROR"].state = "ERROR" /\ [known EXCEPT !.state = "ERROR"].curr_index = p + 1
    BY <1>4 DEF Is, Fields
  <1>7. /\ [ezCli_PrintMenu(known) EXCEPT !.state = "ERROR"].state = "ERROR"
        /\ [ezCli_PrintMenu(known) EXCEPT !.state = "ERROR"].curr_index = p + 1
    BY <1>4, PrintedIs DEF Is
  <1>8. Is(Advanced(self, ch), st, Put(b, p, ch), p + 1, cmd, k, al, vl, af, vf, m)
    BY AdvancedIs
  <1>9. SPACE # NEWLINE
    BY DEF SPACE, NEWLINE
  <1>10. CASE ch = SPACE /\ found = {}
    BY <1>3, <1>6, <1>9, <1>10 DEF Goes, Failed, CommandDoes
  <1>11. CASE ch = SPACE /\ found # {}
    <2>1. Goes([known EXCEPT !.state = "ARGUMENT", !.arg_list = NoPointers])
      BY <1>3, <1>9, <1>11
    <2> QED
      BY <1>5, <1>9, <1>11, <2>1 DEF Goes, Becomes, CommandDoes
  <1>12. CASE ch = NEWLINE /\ found # {} /\ ~TakesArguments(FirstOf(found))
    <2>1. ezCli_ProcessCommand(known)
      BY <1>3, <1>9, <1>12
    <2>2. Completed(st, Put(b, p, NUL), p + 1, FirstOf(found), k, al, vl, af, vf, m)
      BY <1>4, <1>12, <2>1 DEF Completed
    <2> QED
      BY <1>9, <1>12, <2>2 DEF CommandDoes
  <1>13. CASE ch = NEWLINE /\ (found = {} \/ TakesArguments(FirstOf(found)))
    BY <1>3, <1>7, <1>9, <1>13 DEF Goes, Failed, CommandDoes
  <1>14. CASE ch \notin {SPACE, NEWLINE}
    BY <1>3, <1>8, <1>14 DEF Goes, Becomes, CommandDoes
  <1> HIDE DEF i
  <1> QED
    BY <1>10, <1>11, <1>12, <1>13, <1>14 DEF CommandDoes

ArgumentDoes(st, b, p, cmd, k, al, vl, af, vf, m, ch, name) ==
  /\ ch = SPACE /\ ~af => Becomes(st, Put(b, p, ch), p, cmd, k, al, vl, af, vf, m)
  /\ ch = SPACE /\ af /\ ezCli_IsArgumentExisting(cmd, name) =>
       Becomes("VALUE", Put(b, p, NUL), p + 1, cmd, k, al, vl, FALSE, vf, m)
  /\ ch = SPACE /\ af /\ ~ezCli_IsArgumentExisting(cmd, name) => Failed(p + 1)
  /\ ch = NEWLINE => Completed(st, Put(b, p, NUL), p + 1, cmd, k, al, vl, af, vf, m)
  /\ ch \notin {SPACE, NEWLINE} /\ af => Becomes(st, Put(b, p, ch), p + 1, cmd, k, al, vl, af, vf, m)
  /\ ch = DASH /\ ~af =>
       Becomes(st, Put(b, p, ch), p + 1, cmd, k, [al EXCEPT ![k] = p], vl, TRUE, vf, m)
  /\ ch \notin {SPACE, NEWLINE, DASH} /\ ~af => Failed(p + 1)

LEMMA ArgumentIs ==
  ASSUME NEW self, NEW st, NEW b, NEW p, NEW cmd, NEW k, NEW al, NEW vl, NEW af, NEW vf, NEW m,
         Is(self, st, b, p, cmd, k, al, vl, af, vf, m), NEW ch,
         ezCli_HandleStateArgument(self, ch),
         NEW name, name = StringAt(Put(b, p, NUL), al[k])
  PROVE  ArgumentDoes(st, b, p, cmd, k, al, vl, af, vf, m, ch, name)
  <1> DEFINE c == Terminated(self)
             a == Advanced(self, ch)
             new == [a EXCEPT !.is_arg_found = TRUE, !.arg_list[self.curr_arg_index] = self.curr_index]
             value == [c EXCEPT !.is_arg_found = FALSE, !.state = "VALUE"]
             helped == [ezCli_PrintCommandHelper(c) EXCEPT !.state = "ERROR"]
             lost == [a EXCEPT !.state = "ERROR"]
             x == Stored(self, ch)
  <1>1. Is(c, st, Put(b, p, NUL), p + 1, cmd, k, al, vl, af, vf, m)
    BY AdvancedIs DEF Terminated
  <1>2. Is(a, st, Put(b, p, ch), p + 1, cmd, k, al, vl, af, vf, m)
    BY AdvancedIs
  <1>3. Is(x, st, Put(b, p, ch), p, cmd, k, al, vl, af, vf, m)
    BY StoredIs
  <1>4. name = StringAt(c.buff, self.arg_list[self.curr_arg_index]) /\ cmd = self.curr_cmd_index
        /\ self.is_arg_found = af
    BY <1>1 DEF Is
  <1>5. \/ /\ ch = SPACE /\ ~af
           /\ Goes(x)
        \/ /\ ch = SPACE /\ af
           /\ Goes(IF ezCli_IsArgumentExisting(cmd, name) THEN value ELSE helped)
        \/ /\ ch = NEWLINE
           /\ ezCli_ProcessCommand(c)
        \/ /\ ch \notin {SPACE, NEWLINE} /\ (af \/ ch = DASH)
           /\ Goes(IF af THEN a ELSE new)
        \/ /\ ch \notin {SPACE, NEWLINE} /\ ~af /\ ch # DASH
           /\ Goes(lost)
    BY <1>4 DEF ezCli_HandleStateArgument
  <1> HIDE DEF c, a, x
  <1>6. Is(new, st, Put(b, p, ch), p + 1, cmd, k, [al EXCEPT ![k] = p], vl, TRUE, vf, m)
    <2>1. self.curr_arg_index = k /\ self.curr_index = p
      BY DEF Is
    <2> QED
      BY <1>2, <2>1 DEF Is, Fields
  <1>7. Is(value, "VALUE", Put(b, p, NUL), p + 1, cmd, k, al, vl, FALSE, vf, m)
    BY <1>1 DEF Is, Fields
  <1>8. helped.state = "ERROR" /\ helped.curr_index = p + 1
    BY <1>1, PrintedIs DEF Is
  <1>9. lost.state = "ERROR" /\ lost.curr_index = p + 1
    BY <1>2 DEF Is, Fields
  <1> HIDE DEF new, value, helped, lost
  <1>10. SPACE # NEWLINE /\ DASH \notin {SPACE, NEWLINE}
    BY DEF SPACE, NEWLINE, DASH
  <1>11. CASE ch = SPACE /\ ~af
    BY <1>3, <1>5, <1>10, <1>11 DEF Goes, Becomes, ArgumentDoes
  <1>12. CASE ch = SPACE /\ af
    <2>1. Goes(IF ezCli_IsArgumentExisting(cmd, name) THEN value ELSE helped)
      BY <1>5, <1>10, <1>12
    <2>2. CASE ezCli_IsArgumentExisting(cmd, name)
      BY <1>7, <1>10, <1>12, <2>1, <2>2 DEF Goes, Becomes, ArgumentDoes
    <2>3. CASE ~ezCli_IsArgumentExisting(cmd, name)
      BY <1>8, <1>10, <1>12, <2>1, <2>3 DEF Goes, Failed, ArgumentDoes
    <2> QED
      BY <2>2, <2>3
  <1>13. CASE ch = NEWLINE
    <2>1. ezCli_ProcessCommand(c)
      BY <1>5, <1>10, <1>13
    <2>2. Completed(st, Put(b, p, NUL), p + 1, cmd, k, al, vl, af, vf, m)
      BY <1>1, <2>1 DEF Completed
    <2> QED
      BY <1>10, <1>13, <2>2 DEF ArgumentDoes
  <1>14. CASE ch \notin {SPACE, NEWLINE} /\ af
    BY <1>2, <1>5, <1>14 DEF Goes, Becomes, ArgumentDoes
  <1>15. CASE ch = DASH /\ ~af
    BY <1>5, <1>6, <1>10, <1>15 DEF Goes, Becomes, ArgumentDoes
  <1>16. CASE ch \notin {SPACE, NEWLINE, DASH} /\ ~af
    BY <1>5, <1>9, <1>16 DEF Goes, Failed, ArgumentDoes
  <1> QED
    BY <1>10, <1>11, <1>12, <1>13, <1>14, <1>15, <1>16 DEF ArgumentDoes

ValueDoes(st, b, p, cmd, k, al, vl, af, vf, m, ch, next) ==
  /\ ch = SPACE /\ vf /\ m \in {0, 2} /\ AnotherArgument(k + 1) =>
       Becomes("ARGUMENT", Put(b, p, NUL), p + 1, cmd, k + 1, al, vl, af, FALSE, 0)
  /\ ch = SPACE /\ vf /\ m \in {0, 2} /\ ~AnotherArgument(k + 1) => Failed(p + 1)
  /\ ch = SPACE /\ vf /\ m = 1 => Becomes(st, Put(b, p, ch), p + 1, cmd, k, al, vl, af, vf, m)
  /\ ch = SPACE /\ ~(vf /\ m \in {0, 1, 2}) => Becomes(st, Put(b, p, ch), p, cmd, k, al, vl, af, vf, m)
  /\ ch = QUOTE /\ next = 1 =>
       Becomes(st, Put(b, p, ch), p, cmd, k, al, [vl EXCEPT ![k] = p], af, TRUE, next)
  /\ ch = QUOTE /\ next = 2 => Becomes(st, Put(b, p, ch), p, cmd, k, al, vl, af, vf, next)
  /\ ch = QUOTE /\ next \notin {1, 2} => Failed(p)
  /\ ch = NEWLINE /\ m \in {0, 2} =>
       Completed(st, Put(b, p, NUL), p + 1, cmd, k + 1, al, vl, af, FALSE, 0)
  /\ ch = NEWLINE /\ m \notin {0, 2} => Failed(p)
  /\ ch \notin {SPACE, QUOTE, NEWLINE} /\ vf =>
       Becomes(st, Put(b, p, ch), p + 1, cmd, k, al, vl, af, vf, m)
  /\ ch \notin {SPACE, QUOTE, NEWLINE} /\ ~vf =>
       Becomes(st, Put(b, p, ch), p + 1, cmd, k, al, [vl EXCEPT ![k] = p], af, TRUE, m)

LEMMA ValueIs ==
  ASSUME NEW self, NEW st, NEW b, NEW p, NEW cmd, NEW k, NEW al, NEW vl, NEW af, NEW vf, NEW m,
         Is(self, st, b, p, cmd, k, al, vl, af, vf, m), NEW ch,
         ezCli_HandleStateValue(self, ch), NEW next, next = (m + 1) % MarksRange
  PROVE  ValueDoes(st, b, p, cmd, k, al, vl, af, vf, m, ch, next)
  <1> DEFINE t == Terminated(self)
             complete == [t EXCEPT !.quotation_mark_count = 0, !.is_value_found = FALSE,
                                   !.curr_arg_index = @ + 1]
             start(c) == [c EXCEPT !.is_value_found = TRUE,
                                   !.value_list[self.curr_arg_index] = self.curr_index]
             x == Stored(self, ch)
             a == Advanced(self, ch)
             quoted == [x EXCEPT !.quotation_mark_count = (@ + 1) % MarksRange]
             another == [complete EXCEPT !.state = "ARGUMENT"]
             helped == [ezCli_PrintCommandHelper(complete) EXCEPT !.state = "ERROR"]
             odd == [quoted EXCEPT !.state = "ERROR"]
             open == [x EXCEPT !.state = "ERROR"]
             opened == start(quoted)
             plain == start(a)
  <1>1. Is(t, st, Put(b, p, NUL), p + 1, cmd, k, al, vl, af, vf, m)
    BY AdvancedIs DEF Terminated
  <1>2. Is(a, st, Put(b, p, ch), p + 1, cmd, k, al, vl, af, vf, m)
    BY AdvancedIs
  <1>3. Is(x, st, Put(b, p, ch), p, cmd, k, al, vl, af, vf, m)
    BY StoredIs
  <1>4. self.is_value_found = vf /\ self.quotation_mark_count = m
    BY DEF Is
  <1>a. \/ /\ ch = SPACE /\ vf /\ m \in {0, 2}
           /\ Goes(IF AnotherArgument(complete.curr_arg_index) THEN another ELSE helped)
        \/ /\ ch = SPACE /\ ~(vf /\ m \in {0, 2})
           /\ Goes(IF vf /\ m = 1 THEN a ELSE x)
        \/ /\ ch = QUOTE
           /\ Goes(IF quoted.quotation_mark_count = 1 THEN opened
                   ELSE IF quoted.quotation_mark_count = 2 THEN quoted ELSE odd)
        \/ /\ ch = NEWLINE /\ m \in {0, 2}
           /\ ezCli_ProcessCommand(complete)
        \/ /\ ch = NEWLINE /\ m \notin {0, 2}
           /\ Goes(open)
        \/ /\ ch \notin {SPACE, QUOTE, NEWLINE}
           /\ Goes(IF vf THEN a ELSE plain)
    BY <1>4, Zenon DEF ezCli_HandleStateValue
  <1> HIDE DEF t, a, x
  <1>5. Is(complete, st, Put(b, p, NUL), p + 1, cmd, k + 1, al, vl, af, FALSE, 0)
    BY <1>1 DEF Is, Fields
  <1>6. Is(quoted, st, Put(b, p, ch), p, cmd, k, al, vl, af, vf, next)
    BY <1>3 DEF Is, Fields
  <1> HIDE DEF complete, quoted
  <1>b. self.curr_arg_index = k /\ self.curr_index = p
    BY DEF Is
  <1>7. Is(opened, st, Put(b, p, ch), p, cmd, k, al, [vl EXCEPT ![k] = p], af, TRUE, next)
    BY <1>6, <1>b DEF Is, Fields
  <1>8. Is(plain, st, Put(b, p, ch), p + 1, cmd, k, al, [vl EXCEPT ![k] = p], af, TRUE, m)
    BY <1>2, <1>b DEF Is, Fields
  <1>9. Is(another, "ARGUMENT", Put(b, p, NUL), p + 1, cmd, k + 1, al, vl, af, FALSE, 0)
    BY <1>5, StateIs
  <1>10. helped.state = "ERROR" /\ helped.curr_index = p + 1
    BY <1>5, PrintedIs DEF Is
  <1>11. odd.state = "ERROR" /\ odd.curr_index = p
    BY <1>6 DEF Is, Fields
  <1>12. open.state = "ERROR" /\ open.curr_index = p
    BY <1>3 DEF Is, Fields
  <1> HIDE DEF another, helped, odd, open, opened, plain, start
  <1>13. quoted.quotation_mark_count = next /\ complete.curr_arg_index = k + 1
    BY <1>5, <1>6 DEF Is
  <1>c. SPACE # NEWLINE /\ SPACE # QUOTE /\ NEWLINE # QUOTE
    BY DEF SPACE, NEWLINE, QUOTE
  <1>d. 1 # 2
    OBVIOUS
  <1>14. ASSUME ch = SPACE, vf, m \in {0, 2}
         PROVE  /\ AnotherArgument(k + 1) =>
                     Becomes("ARGUMENT", Put(b, p, NUL), p + 1, cmd, k + 1, al, vl, af, FALSE, 0)
                /\ ~AnotherArgument(k + 1) => Failed(p + 1)
    <2>1. Goes(IF AnotherArgument(k + 1) THEN another ELSE helped)
      BY <1>a, <1>c, <1>13, <1>14
    <2>2. CASE AnotherArgument(k + 1)
      BY <1>9, <2>1, <2>2 DEF Goes, Becomes
    <2>3. CASE ~AnotherArgument(k + 1)
      BY <1>10, <2>1, <2>3 DEF Goes, Failed
    <2> QED
      BY <2>2, <2>3
  <1>15. ASSUME ch = SPACE, ~(vf /\ m \in {0, 2})
         PROVE  /\ vf /\ m = 1 => Becomes(st, Put(b, p, ch), p + 1, cmd, k, al, vl, af, vf, m)
                /\ ~(vf /\ m = 1) => Becomes(st, Put(b, p, ch), p, cmd, k, al, vl, af, vf, m)
    <2>1. Goes(IF vf /\ m = 1 THEN a ELSE x)
      BY <1>a, <1>c, <1>15
    <2>2. CASE vf /\ m = 1
      BY <1>2, <2>1, <2>2 DEF Goes, Becomes
    <2>3. CASE ~(vf /\ m = 1)
      BY <1>3, <2>1, <2>3 DEF Goes, Becomes
    <2> QED
      BY <2>2, <2>3
  <1>16. ASSUME ch = QUOTE
         PROVE  /\ next = 1 => Becomes(st, Put(b, p, ch), p, cmd, k, al, [vl EXCEPT ![k] = p], af, TRUE, next)
                /\ next = 2 => Becomes(st, Put(b, p, ch), p, cmd, k, al, vl, af, vf, next)
                /\ next \notin {1, 2} => Failed(p)
    <2>1. Goes(IF next = 1 THEN opened ELSE IF next = 2 THEN quoted ELSE odd)
      BY <1>a, <1>c, <1>13, <1>16
    <2>2. CASE next = 1
      <3>1. Goes(opened)
        BY <2>1, <2>2
      <3>2. Becomes(st, Put(b, p, ch), p, cmd, k, al, [vl EXCEPT ![k] = p], af, TRUE, next)
        BY <1>7, <3>1 DEF Goes, Becomes
      <3> QED
        BY <1>d, <2>2, <3>2, Zenon
    <2>3. CASE next = 2
      <3>1. Goes(quoted)
        BY <2>1, <2>3
      <3>2. Becomes(st, Put(b, p, ch), p, cmd, k, al, vl, af, vf, next)
        BY <1>6, <3>1 DEF Goes, Becomes
      <3> QED
        BY <1>d, <2>3, <3>2, Zenon
    <2>4. CASE next \notin {1, 2}
      BY <1>11, <2>1, <2>4 DEF Goes, Failed
    <2> QED
      BY <2>2, <2>3, <2>4
  <1>17. ASSUME ch = NEWLINE, m \in {0, 2}
         PROVE  Completed(st, Put(b, p, NUL), p + 1, cmd, k + 1, al, vl, af, FALSE, 0)
    <2>1. ezCli_ProcessCommand(complete)
      BY <1>a, <1>c, <1>17
    <2> QED
      BY <1>5, <2>1 DEF Completed
  <1>18. ASSUME ch = NEWLINE, m \notin {0, 2} PROVE Failed(p)
    BY <1>a, <1>12, <1>c, <1>18 DEF Goes, Failed
  <1>19. ASSUME ch \notin {SPACE, QUOTE, NEWLINE}
         PROVE  /\ vf => Becomes(st, Put(b, p, ch), p + 1, cmd, k, al, vl, af, vf, m)
                /\ ~vf => Becomes(st, Put(b, p, ch), p + 1, cmd, k, al, [vl EXCEPT ![k] = p], af, TRUE, m)
    <2>1. Goes(IF vf THEN a ELSE plain)
      BY <1>a, <1>19
    <2> QED
      BY <1>2, <1>8, <2>1 DEF Goes, Becomes
  <1> QED
    <2>1. /\ ch = SPACE /\ vf /\ m = 1 => Becomes(st, Put(b, p, ch), p + 1, cmd, k, al, vl, af, vf, m)
          /\ ch = SPACE /\ ~(vf /\ m \in {0, 1, 2}) => Becomes(st, Put(b, p, ch), p, cmd, k, al, vl, af, vf, m)
      BY <1>15
    <2> QED
      BY <1>14, <1>16, <1>17, <1>18, <1>19, <2>1, Zenon DEF ValueDoes

-----------------------------------------------------------------------------
(* What any character does.  A parser at its start, as every line but one  *)
(* in the error state finds it.                                            *)

Fresh(c) ==
  /\ DOMAIN c = Fields /\ DOMAIN c.buff = 0 .. CliSize - 1
  /\ c.state = "COMMAND" /\ c.curr_index = 0 /\ c.curr_arg_index = 0
  /\ c.arg_list = NoPointers /\ c.value_list = NoPointers
  /\ c.is_arg_found = FALSE /\ c.is_value_found = FALSE

LEMMA ResetIsFresh ==
  ASSUME NEW c, DOMAIN c = Fields
  PROVE  Fresh([ezCli_ResetStateMachine(c) EXCEPT !.state = "COMMAND"])
  <1> DEFINE d == ezCli_ResetStateMachine(c)
  <1>1. /\ DOMAIN d = Fields /\ d.buff = EmptyBuffer
        /\ d.curr_index = 0 /\ d.curr_arg_index = 0
        /\ d.arg_list = NoPointers /\ d.value_list = NoPointers
        /\ d.is_arg_found = FALSE /\ d.is_value_found = FALSE
    BY DEF ezCli_ResetStateMachine, Fields
  <1>2. DOMAIN EmptyBuffer = 0 .. CliSize - 1
    BY DEF EmptyBuffer
  <1> DEFINE e == [d EXCEPT !.state = "COMMAND"]
  <1> HIDE DEF d
  <1>3. /\ DOMAIN e = Fields /\ e.state = "COMMAND" /\ e.buff = d.buff
        /\ e.curr_index = d.curr_index /\ e.curr_arg_index = d.curr_arg_index
        /\ e.arg_list = d.arg_list /\ e.value_list = d.value_list
        /\ e.is_arg_found = d.is_arg_found /\ e.is_value_found = d.is_value_found
    BY <1>1 DEF Fields
  <1> HIDE DEF e
  <1>4. Fresh(e)
    BY <1>1, <1>2, <1>3 DEF Fresh
  <1> QED
    BY <1>4 DEF e, d

Outcome(ch) ==
  /\ ch # NEWLINE => UNCHANGED called
  /\ DOMAIN cli' = Fields
  /\ \/ Fresh(cli')
     \/ cli'.curr_index # 0 /\ (ch = NEWLINE => cli'.state = "ERROR")

LEMMA AsItIs ==
  ASSUME NEW c, DOMAIN c = Fields
  PROVE  Is(c, c.state, c.buff, c.curr_index, c.curr_cmd_index, c.curr_arg_index, c.arg_list,
            c.value_list, c.is_arg_found, c.is_value_found, c.quotation_mark_count)
  BY DEF Is

LEMMA FailedOutcome ==
  ASSUME NEW p \in Nat \ {0}, Failed(p), DOMAIN cli' = Fields, NEW ch
  PROVE  Outcome(ch)
  BY DEF Failed, Outcome

LEMMA CompletedOutcome ==
  ASSUME NEW st, NEW b, NEW p, NEW cmd, NEW k, NEW al, NEW vl, NEW af, NEW vf, NEW m,
         Completed(st, b, p, cmd, k, al, vl, af, vf, m)
  PROVE  Outcome(NEWLINE) /\ Fresh(cli')
  <1>1. PICK c : Is(c, st, b, p, cmd, k, al, vl, af, vf, m) /\ ezCli_ProcessCommand(c)
    BY DEF Completed
  <1>2. cli' = [ezCli_ResetStateMachine(c) EXCEPT !.state = "COMMAND"] /\ DOMAIN c = Fields
    BY <1>1 DEF ezCli_ProcessCommand, Is
  <1>3. Fresh(cli')
    BY <1>2, ResetIsFresh
  <1> QED
    BY <1>3 DEF Outcome, Fresh

LEMMA BecomesOutcome ==
  ASSUME NEW st, NEW b, NEW p \in Nat \ {0}, NEW cmd, NEW k, NEW al, NEW vl, NEW af, NEW vf, NEW m,
         Becomes(st, b, p, cmd, k, al, vl, af, vf, m), NEW ch, ch # NEWLINE
  PROVE  Outcome(ch)
  BY DEF Becomes, Is, Outcome

LEMMA CommandOutcome ==
  ASSUME NEW self, DOMAIN self = Fields, self.curr_index \in Nat, NEW ch,
         ezCli_HandleStateCommand(self, ch), DOMAIN cli' = Fields
  PROVE  Outcome(ch)
  <1> DEFINE st == self.state
             b == self.buff
             p == self.curr_index
             cmd == self.curr_cmd_index
             k == self.curr_arg_index
             al == self.arg_list
             vl == self.value_list
             af == self.is_arg_found
             vf == self.is_value_found
             m == self.quotation_mark_count
             found == ezCli_IsCommandExisting(StringAt(Put(b, p, NUL), 0))
  <1>1. p + 1 \in Nat \ {0}
    OBVIOUS
  <1>2. Is(self, st, b, p, cmd, k, al, vl, af, vf, m)
    BY AsItIs
  <1> HIDE DEF st, b, p, cmd, k, al, vl, af, vf, m, found
  <1>3. CommandDoes(st, b, p, cmd, k, al, vl, af, vf, m, ch, found)
    <2>1. found = ezCli_IsCommandExisting(StringAt(Put(b, p, NUL), 0))
      BY DEF found
    <2> QED
      BY <1>2, <2>1, CommandIs
  <1>4. SPACE # NEWLINE
    BY DEF SPACE, NEWLINE
  <1>5. CASE ch = SPACE
    BY <1>1, <1>3, <1>4, <1>5, FailedOutcome, BecomesOutcome DEF CommandDoes
  <1>6. CASE ch = NEWLINE
    BY <1>1, <1>3, <1>6, FailedOutcome, CompletedOutcome DEF CommandDoes
  <1>7. CASE ch \notin {SPACE, NEWLINE}
    BY <1>1, <1>3, <1>7, BecomesOutcome DEF CommandDoes
  <1> QED
    BY <1>5, <1>6, <1>7

LEMMA ArgumentOutcome ==
  ASSUME NEW self, DOMAIN self = Fields, self.curr_index \in Nat \ {0}, NEW ch,
         ezCli_HandleStateArgument(self, ch), DOMAIN cli' = Fields
  PROVE  Outcome(ch)
  <1> DEFINE st == self.state
             b == self.buff
             p == self.curr_index
             cmd == self.curr_cmd_index
             k == self.curr_arg_index
             al == self.arg_list
             vl == self.value_list
             af == self.is_arg_found
             vf == self.is_value_found
             m == self.quotation_mark_count
             name == StringAt(Put(b, p, NUL), al[k])
  <1>1. p + 1 \in Nat \ {0} /\ p \in Nat \ {0}
    OBVIOUS
  <1>2. Is(self, st, b, p, cmd, k, al, vl, af, vf, m)
    BY AsItIs
  <1> HIDE DEF st, b, p, cmd, k, al, vl, af, vf, m, name
  <1>3. ArgumentDoes(st, b, p, cmd, k, al, vl, af, vf, m, ch, name)
    <2>1. name = StringAt(Put(b, p, NUL), al[k])
      BY DEF name
    <2> QED
      BY <1>2, <2>1, ArgumentIs
  <1>4. SPACE # NEWLINE /\ DASH # NEWLINE /\ DASH # SPACE
    BY DEF SPACE, NEWLINE, DASH
  <1>5. CASE ch = SPACE
    BY <1>1, <1>3, <1>4, <1>5, FailedOutcome, BecomesOutcome DEF ArgumentDoes
  <1>6. CASE ch = NEWLINE
    BY <1>1, <1>3, <1>6, CompletedOutcome DEF ArgumentDoes
  <1>7. CASE ch \notin {SPACE, NEWLINE}
    BY <1>1, <1>3, <1>7, FailedOutcome, BecomesOutcome DEF ArgumentDoes
  <1> QED
    BY <1>5, <1>6, <1>7

LEMMA ValueOutcome ==
  ASSUME NEW self, DOMAIN self = Fields, self.curr_index \in Nat \ {0}, NEW ch,
         ezCli_HandleStateValue(self, ch), DOMAIN cli' = Fields
  PROVE  Outcome(ch)
  <1> DEFINE st == self.state
             b == self.buff
             p == self.curr_index
             cmd == self.curr_cmd_index
             k == self.curr_arg_index
             al == self.arg_list
             vl == self.value_list
             af == self.is_arg_found
             vf == self.is_value_found
             m == self.quotation_mark_count
             next == (m + 1) % MarksRange
  <1>1. p + 1 \in Nat \ {0} /\ p \in Nat \ {0}
    OBVIOUS
  <1>2. Is(self, st, b, p, cmd, k, al, vl, af, vf, m)
    BY AsItIs
  <1> HIDE DEF st, b, p, cmd, k, al, vl, af, vf, m, next
  <1>3. ValueDoes(st, b, p, cmd, k, al, vl, af, vf, m, ch, next)
    <2>1. next = (m + 1) % MarksRange
      BY DEF next
    <2> QED
      BY <1>2, <2>1, ValueIs
  <1>4. SPACE # NEWLINE /\ QUOTE # NEWLINE /\ QUOTE # SPACE
    BY DEF SPACE, NEWLINE, QUOTE
  <1>5. CASE ch = SPACE
    BY <1>1, <1>3, <1>4, <1>5, FailedOutcome, BecomesOutcome DEF ValueDoes
  <1>6. CASE ch = NEWLINE
    BY <1>1, <1>3, <1>6, FailedOutcome, CompletedOutcome DEF ValueDoes
  <1>7. CASE ch = QUOTE
    BY <1>1, <1>3, <1>4, <1>7, FailedOutcome, BecomesOutcome DEF ValueDoes
  <1>8. CASE ch \notin {SPACE, QUOTE, NEWLINE}
    BY <1>1, <1>3, <1>8, BecomesOutcome DEF ValueDoes
  <1> QED
    BY <1>5, <1>6, <1>7, <1>8

LEMMA ErrorIs ==
  ASSUME NEW self, DOMAIN self = Fields, self.curr_index \in Nat \ {0}, self.state = "ERROR",
         NEW ch, ezCli_HandleStateError(self, ch)
  PROVE  /\ Outcome(ch) /\ UNCHANGED called
         /\ IF ch = NEWLINE THEN Fresh(cli') ELSE cli'.state = "ERROR"
  <1>1. CASE ch = NEWLINE
    <2>1. cli' = [ezCli_ResetStateMachine(self) EXCEPT !.state = "COMMAND"] /\ UNCHANGED called
      BY <1>1 DEF ezCli_HandleStateError, Goes
    <2>2. Fresh(cli')
      BY <2>1, ResetIsFresh
    <2> QED
      BY <1>1, <2>1, <2>2 DEF Outcome, Fresh
  <1>2. CASE ch # NEWLINE
    <2>1. cli' = Stored(self, ch) /\ UNCHANGED called
      BY <1>2 DEF ezCli_HandleStateError, Goes
    <2>2. DOMAIN cli' = Fields /\ cli'.state = "ERROR" /\ cli'.curr_index = self.curr_index
      BY <2>1 DEF Stored, Fields
    <2> QED
      BY <1>2, <2>1, <2>2 DEF Outcome
  <1> QED
    BY <1>1, <1>2

Refuses(ch) == UNCHANGED called /\ IF ch = NEWLINE THEN Fresh(cli') ELSE cli'.state = "ERROR"

StartsFresh == CliIInv /\ (cli.curr_index = 0 => Fresh(cli))

LEMMA RunIs ==
  ASSUME StartsFresh, NEW ch, ezCli_Run(ch)
  PROVE  /\ Outcome(ch)
         /\ cli.state = "ERROR" \/ Full(cli) => Refuses(ch)
         /\ cli.curr_index = 0 /\ ch \in {SPACE, NUL, NEWLINE} => UNCHANGED <<cli, called>>
         /\ ~Full(cli) /\ (cli.curr_index # 0 \/ ch \notin {SPACE, NUL, NEWLINE}) =>
              /\ cli.state = "COMMAND" => ezCli_HandleStateCommand(cli, ch)
              /\ cli.state = "ARGUMENT" => ezCli_HandleStateArgument(cli, ch)
              /\ cli.state = "VALUE" => ezCli_HandleStateValue(cli, ch)
  <1> DEFINE self == IF Full(cli) THEN [cli EXCEPT !.state = "ERROR"] ELSE cli
  <1>1. /\ DOMAIN cli = Fields /\ cli.curr_index \in 0 .. CliSize
        /\ cli.state \in {"COMMAND", "ARGUMENT", "VALUE", "ERROR"}
        /\ cli.state # "COMMAND" => cli.curr_index \in Nat \ {0}
    <2>1. PICK k \in 0 .. CliSize, st \in {"COMMAND", "ARGUMENT", "VALUE", "ERROR"} :
            ParserAt(cli, k, st) /\ (st # "COMMAND" => k > 0)
      BY DEF StartsFresh, CliIInv, Recovers
    <2> QED
      BY <2>1 DEF ParserAt
  <1>2. DOMAIN cli' = Fields
    <2>1. CliIInv'
      BY ParserStep DEF StartsFresh
    <2> QED
      BY <2>1 DEF CliIInv, Recovers, ParserAt
  <1>3. CASE Full(cli) \/ cli.state = "ERROR"
    <2>1. cli.curr_index \in Nat \ {0}
      BY <1>1, <1>3, CliAssumption DEF Full
    <2>2. DOMAIN self = Fields /\ self.curr_index = cli.curr_index /\ self.state = "ERROR"
      BY <1>1, <1>3 DEF Fields
    <2>3. ezCli_HandleStateError(self, ch)
      BY <2>1, <2>2 DEF ezCli_Run
    <2> HIDE DEF self
    <2>4. Outcome(ch) /\ Refuses(ch)
      BY <2>1, <2>2, <2>3, ErrorIs DEF Refuses
    <2> QED
      BY <1>3, <2>1, <2>4
  <1>4. CASE ~Full(cli) /\ cli.state # "ERROR" /\ cli.curr_index = 0 /\ ch \in {SPACE, NUL, NEWLINE}
    <2>1. UNCHANGED <<cli, called>>
      BY <1>4 DEF ezCli_Run, Goes
    <2>2. Fresh(cli')
      BY <1>4, <2>1 DEF StartsFresh
    <2> QED
      BY <1>2, <1>4, <2>1, <2>2 DEF Outcome
  <1>5. CASE ~Full(cli) /\ cli.state # "ERROR" /\ (cli.curr_index # 0 \/ ch \notin {SPACE, NUL, NEWLINE})
    <2>1. /\ cli.state = "COMMAND" => ezCli_HandleStateCommand(cli, ch)
          /\ cli.state = "ARGUMENT" => ezCli_HandleStateArgument(cli, ch)
          /\ cli.state = "VALUE" => ezCli_HandleStateValue(cli, ch)
      BY <1>5 DEF ezCli_Run
    <2>2. Outcome(ch)
      <3>1. CASE cli.state = "COMMAND"
        BY <1>1, <1>2, <2>1, <3>1, CommandOutcome
      <3>2. CASE cli.state = "ARGUMENT"
        BY <1>1, <1>2, <2>1, <3>2, ArgumentOutcome
      <3>3. CASE cli.state = "VALUE"
        BY <1>1, <1>2, <2>1, <3>3, ValueOutcome
      <3> QED
        BY <1>1, <1>5, <3>1, <3>2, <3>3
    <2> QED
      BY <1>5, <2>1, <2>2
  <1> QED
    BY <1>3, <1>4, <1>5

-----------------------------------------------------------------------------
(* Where a parser stands that has read a part of a line, and all of it     *)
(* well: in the command, before a name or a value, or within one.  Words   *)
(* 2k + 1 and 2k + 2 are the k-th name and the k-th value.                 *)

Args(L, a) == [k \in 0 .. NumOfArgument - 1 |-> IF k < a THEN L[2 * k] + 1 ELSE CliNULL]
Vals(L, a) == [k \in 0 .. NumOfArgument - 1 |-> IF k < a THEN L[2 * k + 1] + 1 ELSE CliNULL]

Buffer(b) == DOMAIN b = 0 .. CliSize - 1

RightWord(l, i) == IF i % 2 = 1 THEN IsName(l, i) ELSE IsValue(l, i)

(* The buffer b holds the command and the first i words, which are right.  *)
Good(b, l, L, i) ==
  /\ Buffer(b) /\ ezCli_IsCommandExisting(l.command) # {}
  /\ HoldsAt(b, 0, l.command)
  /\ \A j \in 1 .. i : HoldsAt(b, L[j - 1] + 1, l.words[j].text) /\ RightWord(l, j)

Here(l, n, i) == i \in 1 .. n \/ (i = n + 1 /\ l.trailing)

InCommand(c, l, q, b, cmd, m) ==
  /\ Is(c, "COMMAND", b, q, cmd, 0, NoPointers, NoPointers, FALSE, FALSE, m)
  /\ Buffer(b) /\ q \in 0 .. Len(l.command) /\ Begun(b, 0, l.command, q)
  /\ l.words # << >> => m = 0

BeforeName(c, l, n, L, S, q, k, b, m) ==
  /\ Is(c, "ARGUMENT", b, L[2 * k] + 1, TheCommand(l), k, Args(L, k), Vals(L, k), FALSE, FALSE, m)
  /\ k \in 0 .. NumOfArgument - 1 /\ Here(l, n, 2 * k + 1) /\ q = S[2 * k] + 1
  /\ Good(b, l, L, 2 * k) /\ (l.words # << >> => m = 0)

InName(c, l, n, L, S, q, k, b, j) ==
  LET p == L[2 * k] + 1   t == l.words[2 * k + 1].text IN
  /\ Is(c, "ARGUMENT", b, p + j, TheCommand(l), k, Args(L, k + 1), Vals(L, k), TRUE, FALSE, 0)
  /\ k \in 0 .. NumOfArgument - 1 /\ 2 * k + 1 \in 1 .. n
  /\ l.words[2 * k + 1].marks = 0 /\ t[1] = DASH
  /\ j \in 1 .. Len(t) /\ q = S[2 * k] + 1 + j
  /\ Good(b, l, L, 2 * k) /\ Begun(b, p, t, j)

BeforeValue(c, l, n, L, S, q, k, b) ==
  /\ Is(c, "VALUE", b, L[2 * k + 1] + 1, TheCommand(l), k, Args(L, k + 1), Vals(L, k), FALSE, FALSE, 0)
  /\ k \in 0 .. NumOfArgument - 1 /\ Here(l, n, 2 * k + 2) /\ q = S[2 * k + 1] + 1
  /\ Good(b, l, L, 2 * k + 1)

\* Behind m quotation marks and j characters of a value.
InValue(c, l, n, L, S, q, k, b, j, m) ==
  LET p == L[2 * k + 1] + 1   w == l.words[2 * k + 2] IN
  /\ Is(c, "VALUE", b, p + j, TheCommand(l), k, Args(L, k + 1), Vals(L, k + 1), FALSE, TRUE, m)
  /\ k \in 0 .. NumOfArgument - 1 /\ 2 * k + 2 \in 1 .. n
  /\ j \in 0 .. Len(w.text) /\ q = S[2 * k + 1] + 1 + m + j
  /\ m = Marks(w, 1) \/ (m = 2 /\ w.marks = 2 /\ j = Len(w.text))
  /\ w.marks = 0 => j # 0
  /\ Good(b, l, L, 2 * k + 1) /\ Begun(b, p, w.text, j)

On(c, l, n, L, S, q) ==
  \E b, k, j, m :
     \/ InCommand(c, l, q, b, k, m)
     \/ BeforeName(c, l, n, L, S, q, k, b, m)
     \/ InName(c, l, n, L, S, q, k, b, j)
     \/ BeforeValue(c, l, n, L, S, q, k, b)
     \/ InValue(c, l, n, L, S, q, k, b, j, m)

(* A line that is none the parser accepts, and that it no longer can.      *)
Lost(c, l, T, q) ==
  /\ ~IsCommandLine(l)
  /\ \/ c.state = "ERROR"
     \/ DOMAIN c = Fields /\ c.state = "VALUE" /\ c.quotation_mark_count = 1 /\ q + 1 = Len(T)

Of(l, n, L, S, T) == Line(l, n) /\ Long(L, l, n) /\ Laid(T, S, l, n)

(* What must come of the (q + 1)st character.                              *)
Result(l, n, L, S, T, q) ==
  IF q + 1 = Len(T) THEN called' = LineMeaning(l)
  ELSE UNCHANGED called /\ (On(cli', l, n, L, S, q + 1) \/ Lost(cli', l, T, q + 1))

LEMMA PutAt ==
  ASSUME NEW b, Buffer(b), NEW i \in 0 .. CliSize - 1, NEW ch
  PROVE  /\ Buffer(Put(b, i, ch)) /\ Put(b, i, ch)[i] = ch
         /\ \A j \in 0 .. CliSize - 1 : j # i => Put(b, i, ch)[j] = b[j]
  BY DEF Buffer, Put

LEMMA BegunPut ==
  ASSUME NEW b, Buffer(b), NEW p \in Nat, NEW j \in Nat, p + j < CliSize, NEW t, Begun(b, p, t, j), NEW ch
  PROVE  /\ Begun(Put(b, p + j, ch), p, t, j)
         /\ ch = t[j + 1] => Begun(Put(b, p + j, ch), p, t, j + 1)
         /\ ch = NUL /\ j = Len(t) => HoldsAt(Put(b, p + j, ch), p, t)
  <1> DEFINE d == Put(b, p + j, ch)
  <1>1. p + j \in 0 .. CliSize - 1
    BY CliAssumption
  <1>2. d[p + j] = ch /\ \A i \in 0 .. CliSize - 1 : i # p + j => d[i] = b[i]
    BY <1>1, PutAt
  <1> HIDE DEF d
  <1>3. Begun(d, p, t, j)
    <2> SUFFICES ASSUME NEW k \in 1 .. j PROVE d[p + k - 1] = t[k]
      BY DEF Begun
    <2>1. p + k - 1 \in 0 .. CliSize - 1 /\ p + k - 1 # p + j
      BY <1>1, CliAssumption
    <2> QED
      BY <1>2, <2>1 DEF Begun
  <1>4. ch = t[j + 1] => Begun(d, p, t, j + 1)
    <2> SUFFICES ASSUME ch = t[j + 1], NEW k \in 1 .. j + 1 PROVE d[p + k - 1] = t[k]
      BY DEF Begun
    <2>1. CASE k = j + 1
      BY <1>2, <2>1
    <2>2. CASE k # j + 1
      <3>1. k \in 1 .. j
        BY <2>2
      <3> QED
        BY <1>3, <3>1 DEF Begun
    <2> QED
      BY <2>1, <2>2
  <1>5. ch = NUL /\ j = Len(t) => HoldsAt(d, p, t)
    BY <1>2, <1>3 DEF HoldsAt
  <1> QED
    BY <1>3, <1>4, <1>5 DEF d

LEMMA HoldsPut ==
  ASSUME NEW b, Buffer(b), NEW p, NEW t, Len(t) \in Nat, HoldsAt(b, p, t),
         NEW i \in 0 .. CliSize - 1, i > p + Len(t), NEW ch
  PROVE  HoldsAt(Put(b, i, ch), p, t)
  <1> DEFINE d == Put(b, i, ch)
  <1>1. \A j \in 0 .. CliSize - 1 : j # i => d[j] = b[j]
    BY PutAt
  <1>2. p \in Nat /\ p + Len(t) < CliSize /\ Begun(b, p, t, Len(t)) /\ b[p + Len(t)] = NUL
    BY DEF HoldsAt
  <1> HIDE DEF d
  <1>3. p + Len(t) \in 0 .. CliSize - 1 /\ p + Len(t) # i
    BY <1>2, CliAssumption
  <1>4. Begun(d, p, t, Len(t))
    <2> SUFFICES ASSUME NEW k \in 1 .. Len(t) PROVE d[p + k - 1] = t[k]
      BY DEF Begun
    <2>1. p + k - 1 \in 0 .. CliSize - 1 /\ p + k - 1 # i
      BY <1>2, <1>3, CliAssumption
    <2> QED
      BY <1>1, <1>2, <2>1 DEF Begun
  <1>5. HoldsAt(d, p, t)
    BY <1>1, <1>2, <1>3, <1>4 DEF HoldsAt
  <1> QED
    BY <1>5 DEF d

LEMMA GoodPut ==
  ASSUME NEW l, NEW n, NEW L, Line(l, n), Long(L, l, n), NEW i \in 0 .. n,
         NEW b, Good(b, l, L, i), NEW x \in 0 .. CliSize - 1, x > L[i], NEW ch
  PROVE  Good(Put(b, x, ch), l, L, i)
  <1>1. Buffer(b) /\ Buffer(Put(b, x, ch))
    BY PutAt DEF Good
  <1>2. n \in Nat /\ Len(l.command) \in Nat /\ \A j \in 1 .. n : Len(l.words[j].text) \in Nat
    BY DEF Line
  <1>3. L[0] = Len(l.command) /\ L[i] \in Nat /\ \A j \in 0 .. i : L[j] <= L[i] /\ L[j] \in Nat
    <2>1. \A j \in 0 .. i : j \in 0 .. n
      BY <1>2
    <2> QED
      BY <2>1 DEF Long
  <1>4. HoldsAt(Put(b, x, ch), 0, l.command)
    <2>1. x > 0 + Len(l.command)
      BY <1>2, <1>3, CliAssumption
    <2> QED
      BY <1>1, <1>2, <2>1, HoldsPut DEF Good
  <1>5. ASSUME NEW j \in 1 .. i
        PROVE  HoldsAt(Put(b, x, ch), L[j - 1] + 1, l.words[j].text)
    <2>1. j \in 1 .. n /\ j \in 0 .. i /\ j - 1 \in 0 .. i
      BY <1>2
    <2>2. L[j] = L[j - 1] + 1 + Len(l.words[j].text) /\ Len(l.words[j].text) \in Nat
      BY <1>2, <2>1 DEF Long
    <2>3. x > (L[j - 1] + 1) + Len(l.words[j].text)
      <3>1. L[j] <= L[i] /\ L[j - 1] \in Nat /\ L[j] \in Nat /\ L[i] \in Nat
        BY <1>3, <2>1
      <3>2. \A u, v, w, y \in Nat : y <= w /\ y = u + 1 + v /\ x > w => x > (u + 1) + v
        BY CliAssumption
      <3> QED
        BY <2>2, <3>1, <3>2
    <2> QED
      BY <1>1, <2>2, <2>3, HoldsPut DEF Good
  <1> QED
    BY <1>1, <1>4, <1>5 DEF Good

LEMMA GoodFirst ==
  ASSUME NEW l, NEW L, NEW b, Buffer(b), Len(l.command) \in Nat, Len(l.command) < CliSize,
         Begun(b, 0, l.command, Len(l.command))
  PROVE  LET d == Put(b, Len(l.command), NUL)
         IN  HoldsAt(d, 0, l.command)
             /\ (ezCli_IsCommandExisting(l.command) # {} => Good(d, l, L, 0))
  <1> DEFINE x == Len(l.command)
  <1>1. 0 + x = x /\ x \in Nat /\ 0 \in Nat /\ 0 + x < CliSize /\ x \in 0 .. CliSize - 1
    BY CliAssumption
  <1>2. HoldsAt(Put(b, 0 + x, NUL), 0, l.command)
    BY <1>1, BegunPut
  <1>3. HoldsAt(Put(b, x, NUL), 0, l.command) /\ Buffer(Put(b, x, NUL))
    BY <1>1, <1>2, PutAt
  <1> QED
    BY <1>3 DEF Good

LEMMA GoodNext ==
  ASSUME NEW l, NEW n, NEW L, Line(l, n), Long(L, l, n), NEW i \in 1 .. n,
         NEW b, Good(b, l, L, i - 1), Begun(b, L[i - 1] + 1, l.words[i].text, Len(l.words[i].text)),
         L[i] < CliSize
  PROVE  LET d == Put(b, L[i], NUL)
         IN  HoldsAt(d, L[i - 1] + 1, l.words[i].text) /\ (RightWord(l, i) => Good(d, l, L, i))
  <1> DEFINE d == Put(b, L[i], NUL)
             t == l.words[i].text
             p == L[i - 1] + 1
  <1>1. n \in Nat /\ Len(t) \in Nat
    BY DEF Line
  <1>2. i - 1 \in 0 .. n /\ i \in 0 .. n /\ i - 1 \in 0 .. i
    BY <1>1
  <1>3. L[i] = p + Len(t) /\ L[i - 1] \in Nat /\ p \in Nat /\ L[i] \in Nat /\ L[i] > L[i - 1]
    <2>1. L[i] = L[i - 1] + 1 + Len(t) /\ L[i - 1] \in Nat
      BY <1>2 DEF Long
    <2>2. \A u, v \in Nat : u + 1 + v = (u + 1) + v /\ (u + 1) + v \in Nat /\ (u + 1) + v > u /\ u + 1 \in Nat
      OBVIOUS
    <2> QED
      BY <1>1, <2>1, <2>2
  <1>4. L[i] \in 0 .. CliSize - 1
    BY <1>3, CliAssumption
  <1>5. Buffer(b)
    BY DEF Good
  <1>6. HoldsAt(d, p, t)
    <2> HIDE DEF p, t
    <2>1. p + Len(t) < CliSize /\ Begun(b, p, t, Len(t))
      BY <1>3 DEF p, t
    <2> QED
      BY <1>1, <1>3, <1>5, <2>1, BegunPut
  <1>7. Good(d, l, L, i - 1)
    BY <1>2, <1>3, <1>4, GoodPut
  <1>8. ASSUME RightWord(l, i) PROVE Good(d, l, L, i)
    <2>1. \A j \in 1 .. i : j = i \/ j \in 1 .. i - 1
      BY <1>1
    <2> HIDE DEF d
    <2> QED
      BY <1>6, <1>7, <1>8, <2>1 DEF Good
  <1> QED
    BY <1>6, <1>8

LEMMA CommandsName ==
  ASSUME NEW name, ezCli_IsCommandExisting(name) # {}
  PROVE  CliCommands[FirstOf(ezCli_IsCommandExisting(name))].name = name
  <1> DEFINE found == ezCli_IsCommandExisting(name)
  <1>1. found \in SUBSET Nat /\ \A i \in found : CliCommands[i].name = name
    BY DEF ezCli_IsCommandExisting
  <1> HIDE DEF found
  <1>2. \E i \in found : \A j \in found : i <= j
    BY <1>1, Smallest DEF found
  <1>3. FirstOf(found) \in found
    BY <1>2 DEF FirstOf
  <1> QED
    BY <1>1, <1>3 DEF found

LEMMA AnswerDepends ==
  ASSUME NEW i, NEW a, NEW v, NEW x, NEW y, a[0] = CliNULL <=> x[0] = CliNULL,
         v[0] = CliNULL <=> y[0] = CliNULL
  PROVE  Answer(i, a, v) = Answer(i, x, y)
  <1>1. /\ HandleHelloCallback(a, v) = HandleHelloCallback(x, y)
        /\ HandlEchoCmdCallback(a, v) = HandlEchoCmdCallback(x, y)
    BY DEF HandleHelloCallback, HandlEchoCmdCallback
  <1>2. /\ HandleStartOsalDemo(a, v) = HandleStartOsalDemo(x, y)
        /\ HandleStartTaskWorkerDemo(a, v) = HandleStartTaskWorkerDemo(x, y)
    BY <1>1 DEF HandleStartOsalDemo, HandleStartTaskWorkerDemo
  <1> QED
    BY <1>1, <1>2 DEF Answer

WordOf(l, n, i) == IF i <= n THEN l.words[i].text ELSE << >>
GivenOf(n, i) == IF i <= n THEN i ELSE CliNULL

LEMMA MeaningIs ==
  ASSUME NEW l, IsCommandLine(l), NEW n, n = Len(l.words)
  PROVE  LineMeaning(l) =
           <<[command |-> l.command,
              args |-> [k \in 0 .. NumOfArgument - 1 |-> WordOf(l, n, 2 * k + 1)],
              values |-> [k \in 0 .. NumOfArgument - 1 |-> WordOf(l, n, 2 * k + 2)],
              answer |-> Answer(TheCommand(l), [k \in 0 .. NumOfArgument - 1 |-> GivenOf(n, 2 * k + 1)],
                                [k \in 0 .. NumOfArgument - 1 |-> GivenOf(n, 2 * k + 2)])]>>
  BY DEF LineMeaning, WordOf, GivenOf

LEMMA Complete ==
  ASSUME NEW l, NEW n, NEW L, Line(l, n), Long(L, l, n), Fits(l),
         l.words = << >> /\ ~l.trailing => ~TakesArguments(TheCommand(l)),
         NEW b, Good(b, l, L, n), called = << >>, NEW a \in Nat, NEW v \in Nat,
         \A j \in 0 .. NumOfArgument - 1 : (j < a <=> 2 * j + 1 <= n) /\ (j < v <=> 2 * j + 2 <= n),
         NEW st, NEW p, NEW k, NEW af, NEW vf, NEW m,
         Completed(st, b, p, TheCommand(l), k, Args(L, a), Vals(L, v), af, vf, m)
  PROVE  called' = LineMeaning(l)
  <1>1. n \in Nat /\ n = Len(l.words) /\ l.command \in Text({SPACE})
        /\ \A i \in 1 .. n : l.words[i].text \in Text({QUOTE})
    BY DEF Line
  <1>2. IsCommandLine(l)
    <2>1. ezCli_IsCommandExisting(l.command) # {}
      BY DEF Good
    <2>2. \A i \in 1 .. n : RightWord(l, i)
      BY DEF Good
    <2> QED
      BY <1>1, <2>1, <2>2 DEF IsCommandLine, RightWord
  <1>3. PICK c : /\ Is(c, st, b, p, TheCommand(l), k, Args(L, a), Vals(L, v), af, vf, m)
                 /\ ezCli_ProcessCommand(c)
    BY DEF Completed
  <1> DEFINE N == 0 .. NumOfArgument - 1
             names == [j \in N |-> StringAt(b, Args(L, a)[j])]
             values == [j \in N |-> StringAt(b, Vals(L, v)[j])]
             answer == Answer(TheCommand(l), Args(L, a), Vals(L, v))
  <1>4. called' = <<[command |-> CliCommands[TheCommand(l)].name, args |-> names, values |-> values,
                     answer |-> answer]>>
    <2>1. /\ c.curr_cmd_index = TheCommand(l) /\ c.buff = b /\ c.arg_list = Args(L, a)
          /\ c.value_list = Vals(L, v)
      BY <1>3 DEF Is
    <2>2. called' = Append(<< >>, [command |-> CliCommands[TheCommand(l)].name, args |-> names,
                                   values |-> values, answer |-> answer])
      BY <1>3, <2>1 DEF ezCli_ProcessCommand
    <2> HIDE DEF names, values, answer
    <2> QED
      BY <2>2
  <1>5. CliCommands[TheCommand(l)].name = l.command
    BY <1>2, CommandsName DEF TheCommand, IsCommandLine
  <1>6. StringAt(b, CliNULL) = << >>
    BY DEF StringAt
  <1>7. \A i \in 1 .. n : StringAt(b, L[i - 1] + 1) = l.words[i].text /\ L[i - 1] + 1 # CliNULL
    <2> SUFFICES ASSUME NEW i \in 1 .. n
                 PROVE  StringAt(b, L[i - 1] + 1) = l.words[i].text /\ L[i - 1] + 1 # CliNULL
      OBVIOUS
    <2>1. HoldsAt(b, L[i - 1] + 1, l.words[i].text)
      BY DEF Good
    <2>2. StringAt(b, L[i - 1] + 1) = l.words[i].text
      BY <1>1, <2>1, StringHeld
    <2>3. L[i - 1] + 1 # CliNULL
      BY <2>1 DEF HoldsAt, CliNULL
    <2> QED
      BY <2>2, <2>3
  <1>8. ASSUME NEW j \in N
        PROVE  /\ StringAt(b, Args(L, a)[j]) = WordOf(l, n, 2 * j + 1)
               /\ StringAt(b, Vals(L, v)[j]) = WordOf(l, n, 2 * j + 2)
               /\ Args(L, a)[j] = CliNULL <=> GivenOf(n, 2 * j + 1) = CliNULL
               /\ Vals(L, v)[j] = CliNULL <=> GivenOf(n, 2 * j + 2) = CliNULL
    <2>1. /\ Args(L, a)[j] = IF 2 * j + 1 <= n THEN L[2 * j] + 1 ELSE CliNULL
          /\ Vals(L, v)[j] = IF 2 * j + 2 <= n THEN L[2 * j + 1] + 1 ELSE CliNULL
      BY DEF Args, Vals
    <2>2. /\ j \in Nat /\ (2 * j + 1) - 1 = 2 * j /\ (2 * j + 2) - 1 = 2 * j + 1
          /\ 2 * j + 1 # CliNULL /\ 2 * j + 2 # CliNULL
          /\ 2 * j + 1 <= n => 2 * j + 1 \in 1 .. n
          /\ 2 * j + 2 <= n => 2 * j + 2 \in 1 .. n
      BY <1>1 DEF CliNULL
    <2> HIDE DEF N
    <2>3. /\ 2 * j + 1 <= n => /\ StringAt(b, L[2 * j] + 1) = l.words[2 * j + 1].text
                               /\ L[2 * j] + 1 # CliNULL
          /\ 2 * j + 2 <= n => /\ StringAt(b, L[2 * j + 1] + 1) = l.words[2 * j + 2].text
                               /\ L[2 * j + 1] + 1 # CliNULL
      <3>1. CASE 2 * j + 1 <= n
        BY <1>7, <2>2, <3>1
      <3>2. 2 * j + 2 <= n => /\ StringAt(b, L[(2 * j + 2) - 1] + 1) = l.words[2 * j + 2].text
                              /\ L[(2 * j + 2) - 1] + 1 # CliNULL
        BY <1>7, <2>2
      <3>3. 2 * j + 1 <= n => /\ StringAt(b, L[(2 * j + 1) - 1] + 1) = l.words[2 * j + 1].text
                              /\ L[(2 * j + 1) - 1] + 1 # CliNULL
        BY <1>7, <2>2
      <3> QED
        BY <2>2, <3>2, <3>3
    <2> QED
      BY <1>6, <2>1, <2>2, <2>3 DEF WordOf, GivenOf
  <1> DEFINE names2 == [j \in N |-> WordOf(l, n, 2 * j + 1)]
             values2 == [j \in N |-> WordOf(l, n, 2 * j + 2)]
             given == [j \in N |-> GivenOf(n, 2 * j + 1)]
             given2 == [j \in N |-> GivenOf(n, 2 * j + 2)]
  <1>9. names = names2 /\ values = values2
    BY <1>8
  <1>10. answer = Answer(TheCommand(l), given, given2)
    <2>1. 0 \in N
      BY CliAssumption
    <2>2. /\ Args(L, a)[0] = CliNULL <=> given[0] = CliNULL
          /\ Vals(L, v)[0] = CliNULL <=> given2[0] = CliNULL
      BY <1>8, <2>1
    <2> HIDE DEF given, given2
    <2> QED
      BY <2>2, AnswerDepends
  <1>11. LineMeaning(l) = <<[command |-> l.command, args |-> names2, values |-> values2,
                             answer |-> Answer(TheCommand(l), given, given2)]>>
    BY <1>1, <1>2, MeaningIs
  <1> HIDE DEF names, values, answer, names2, values2, given, given2
  <1> QED
    BY <1>4, <1>5, <1>9, <1>10, <1>11

-----------------------------------------------------------------------------
(* The characters of a line.                                               *)

LEMMA InCommandChar ==
  ASSUME NEW l, NEW n, NEW L, NEW S, NEW T, Of(l, n, L, S, T), NEW q \in 0 .. Len(l.command) - 1
  PROVE  /\ T[q + 1] = l.command[q + 1] /\ q + 1 < Len(T)
         /\ T[q + 1] \notin {SPACE, NUL, NEWLINE}
  <1>1. /\ l.command \in Text({SPACE}) /\ Len(l.command) \in Nat /\ n \in Nat
        /\ l.trailing \in BOOLEAN
    BY DEF Of, Line
  <1>2. q + 1 \in 1 .. Len(l.command) /\ 0 \in 0 .. n
    BY <1>1
  <1>3. T[q + 1] = l.command[q + 1]
    BY <1>2 DEF Of, Laid
  <1>4. l.command[q + 1] \notin {SPACE, NUL, NEWLINE}
    BY <1>1, <1>2, TextPlain
  <1>5. S[0] = Len(l.command) /\ S[0] \in Nat /\ S[n] \in Nat /\ S[0] <= S[n] /\ Len(T) = S[n] + Blank(l) + 1
    <2>1. n \in 0 .. n
      BY <1>1
    <2> QED
      BY <1>2, <2>1 DEF Of, Laid
  <1>6. Blank(l) \in {0, 1}
    BY DEF Blank
  <1>7. q + 1 < Len(T)
    BY <1>1, <1>5, <1>6
  <1> QED
    BY <1>3, <1>4, <1>7

LEMMA AfterWord ==
  ASSUME NEW l, NEW n, NEW L, NEW S, NEW T, Of(l, n, L, S, T), NEW i \in 0 .. n
  PROVE  /\ i < n \/ l.trailing => T[S[i] + 1] = SPACE /\ S[i] + 1 < Len(T)
         /\ ~(i < n \/ l.trailing) => i = n /\ S[i] + 1 = Len(T) /\ T[S[i] + 1] = NEWLINE
  <1>1. n \in Nat /\ S[i] \in Nat /\ S[n] \in Nat /\ S[i] <= S[n]
    <2>1. n \in Nat
      BY DEF Of, Line
    <2>2. n \in 0 .. n
      BY <2>1
    <2> QED
      BY <2>1, <2>2 DEF Of, Laid
  <1>2. Len(T) = S[n] + Blank(l) + 1 /\ T[Len(T)] = NEWLINE /\ (l.trailing => T[S[n] + 1] = SPACE)
    BY DEF Of, Laid
  <1>3. CASE i < n
    <2>1. i + 1 \in 1 .. n /\ (i + 1) - 1 = i /\ i + 1 \in 0 .. n
      BY <1>1, <1>3
    <2>2. /\ WrittenAt(T, S[(i + 1) - 1], l.words[i + 1])
          /\ S[i + 1] = S[(i + 1) - 1] + Wide(l.words[i + 1])
          /\ S[i + 1] \in Nat /\ S[i + 1] <= S[n]
      BY <2>1 DEF Of, Laid
    <2>3. Wide(l.words[i + 1]) \in Nat /\ Wide(l.words[i + 1]) >= 1
      BY <2>1, WideNat DEF Of, Line
    <2>4. T[S[i] + 1] = SPACE
      BY <2>1, <2>2 DEF WrittenAt
    <2>5. Blank(l) \in {0, 1}
      BY DEF Blank
    <2>6. S[i + 1] = S[i] + Wide(l.words[i + 1])
      BY <2>1, <2>2
    <2> DEFINE y == Wide(l.words[i + 1])
    <2> HIDE DEF y
    <2>7. S[i] + 1 < Len(T)
      <3>1. S[i + 1] = S[i] + y /\ y \in Nat /\ y >= 1
        BY <2>3, <2>6 DEF y
      <3> QED
        BY <1>1, <1>2, <2>2, <2>5, <3>1
    <2> QED
      BY <1>3, <2>4, <2>7
  <1>4. CASE i = n
    BY <1>1, <1>2, <1>4 DEF Blank
  <1> QED
    BY <1>1, <1>3, <1>4

LEMMA AfterBlank ==
  ASSUME NEW l, NEW n, NEW L, NEW S, NEW T, Of(l, n, L, S, T), l.trailing
  PROVE  (S[n] + 1) + 1 = Len(T) /\ T[(S[n] + 1) + 1] = NEWLINE
  <1>1. n \in Nat
    BY DEF Of, Line
  <1>2. S[n] \in Nat
    <2>1. n \in 0 .. n
      BY <1>1
    <2> QED
      BY <2>1 DEF Of, Laid
  <1>3. Len(T) = S[n] + Blank(l) + 1 /\ T[Len(T)] = NEWLINE /\ Blank(l) = 1
    BY DEF Of, Laid, Blank
  <1>4. (S[n] + 1) + 1 = Len(T)
    BY <1>2, <1>3
  <1> QED
    BY <1>3, <1>4

(* A word's characters, from the place p behind its blank on.              *)
LettersFrom(T, w, p) == \A k \in 1 .. Len(w.text) : T[p + k] = w.text[k] /\ p + k < Len(T)

CharFacts(S, T, i, w, p) ==
  /\ p \in Nat /\ S[i] = S[i - 1] + Wide(w) /\ S[i - 1] \in Nat
  /\ w.marks >= 1 => T[p + 1] = QUOTE /\ p + 1 < Len(T)
  /\ LettersFrom(T, w, p + Marks(w, 1))
  /\ w.marks = 2 => T[p + 2 + Len(w.text)] = QUOTE /\ p + 2 + Len(w.text) < Len(T)

LEMMA InWordChar ==
  ASSUME NEW l, NEW n, NEW L, NEW S, NEW T, Of(l, n, L, S, T), NEW i \in 1 .. n,
         NEW w, w = l.words[i], NEW p, p = S[i - 1] + 1
  PROVE  CharFacts(S, T, i, w, p)
  <1>1. n \in Nat /\ w.marks \in {0, 1, 2} /\ Len(w.text) \in Nat
    BY DEF Of, Line
  <1>2. i - 1 \in 0 .. n /\ i \in 0 .. n /\ n \in 0 .. n
    BY <1>1
  <1>3. /\ S[i - 1] \in Nat /\ S[i] \in Nat /\ S[n] \in Nat /\ S[i] <= S[n]
        /\ S[i] = S[i - 1] + Wide(w) /\ Len(T) = S[n] + Blank(l) + 1
        /\ WrittenAt(T, S[i - 1], w)
    BY <1>2 DEF Of, Laid
  <1> DEFINE z == S[i - 1]
             y == Len(w.text)
             g == Wide(w)
             o == Marks(w, 1)
  <1>4. /\ g \in Nat /\ (w.marks = 0 => o = 0 /\ g = 1 + y) /\ (w.marks = 1 => o = 1 /\ g = 2 + y)
        /\ (w.marks = 2 => o = 1 /\ g = 3 + y)
    BY <1>1, WideNat
  <1>5. Blank(l) \in {0, 1}
    BY DEF Blank
  <1>6. /\ w.marks >= 1 => T[z + 2] = QUOTE
        /\ \A k \in 1 .. y : T[z + 1 + o + k] = w.text[k]
        /\ w.marks = 2 => T[z + 3 + y] = QUOTE
    BY <1>3 DEF WrittenAt
  <1>7. z \in Nat /\ y \in Nat /\ p = z + 1 /\ z + g + 1 <= Len(T) /\ Len(T) \in Nat
    <2> HIDE DEF g
    <2>1. z + g = S[i] /\ z \in Nat
      BY <1>3 DEF g
    <2>2. p = z + 1
      OBVIOUS
    <2> HIDE DEF z
    <2>3. z + g + 1 <= Len(T) /\ Len(T) \in Nat
      BY <1>3, <1>4, <1>5, <2>1
    <2> QED
      BY <1>1, <2>1, <2>2, <2>3 DEF y
  <1> HIDE DEF z, y, g, o
  <1>8. w.marks >= 1 => T[p + 1] = QUOTE /\ p + 1 < Len(T)
    BY <1>1, <1>4, <1>6, <1>7
  <1>9. ASSUME NEW k \in 1 .. y PROVE T[p + o + k] = w.text[k] /\ p + o + k < Len(T)
    BY <1>1, <1>4, <1>6, <1>7
  <1>10. w.marks = 2 => T[p + 2 + y] = QUOTE /\ p + 2 + y < Len(T)
    BY <1>1, <1>4, <1>6, <1>7
  <1>11. p \in Nat
    BY <1>7
  <1> QED
    <2>1. LettersFrom(T, w, p + o)
      BY <1>9 DEF LettersFrom, y
    <2> QED
      BY <1>3, <1>8, <1>10, <1>11, <2>1 DEF y, o, z, CharFacts

-----------------------------------------------------------------------------
(* What the next character comes to, wherever the parser stands.           *)

LEMMA NoCommandLine ==
  ASSUME NEW l, ~IsCommandLine(l)
  PROVE  LineMeaning(l) = << >>
  BY DEF LineMeaning

LEMMA FailedResult ==
  ASSUME NEW l, NEW n, NEW L, NEW S, NEW T, NEW q, ~IsCommandLine(l), called = << >>,
         cli'.state = "ERROR", UNCHANGED called
  PROVE  Result(l, n, L, S, T, q)
  BY NoCommandLine DEF Result, Lost

LEMMA FitsIs ==
  ASSUME NEW l, NEW n, NEW L, Line(l, n), Long(L, l, n)
  PROVE  Fits(l) <=> L[n] + Blank(l) < CliSize
  BY DEF Fits, Line, Long, Blank

LEMMA NoneYet == Args(<< >>, 0) = NoPointers /\ \A L : Args(L, 0) = NoPointers /\ Vals(L, 0) = NoPointers
  <1>1. \A k \in 0 .. NumOfArgument - 1 : ~ (k < 0)
    BY CliAssumption
  <1> QED
    BY <1>1 DEF Args, Vals, NoPointers

LEMMA OneMore ==
  ASSUME NEW L, NEW k \in 0 .. NumOfArgument - 1
  PROVE  /\ [Args(L, k) EXCEPT ![k] = L[2 * k] + 1] = Args(L, k + 1)
         /\ [Vals(L, k) EXCEPT ![k] = L[2 * k + 1] + 1] = Vals(L, k + 1)
  <1>1. \A j \in 0 .. NumOfArgument - 1 : (j < k + 1) <=> (j < k \/ j = k)
    BY CliAssumption
  <1>2. ~ (k < k)
    BY CliAssumption
  <1> QED
    BY <1>1, <1>2 DEF Args, Vals

LEMMA InCommandStep ==
  ASSUME NEW l, NEW n, NEW L, NEW S, NEW T, Of(l, n, L, S, T), NEW q, NEW b, NEW cmd, NEW m,
         InCommand(cli, l, q, b, cmd, m), called = << >>, ~Full(cli),
         ezCli_HandleStateCommand(cli, T[q + 1])
  PROVE  Result(l, n, L, S, T, q)
  <1> DEFINE ch == T[q + 1]
             len == Len(l.command)
             d == Put(b, q, NUL)
             found == ezCli_IsCommandExisting(StringAt(d, 0))
  <1>1. /\ Is(cli, "COMMAND", b, q, cmd, 0, NoPointers, NoPointers, FALSE, FALSE, m)
        /\ Buffer(b) /\ q \in 0 .. len /\ Begun(b, 0, l.command, q)
        /\ l.words # << >> => m = 0
    BY DEF InCommand
  <1>2. /\ l.command \in Text({SPACE}) /\ len \in Nat /\ n \in Nat /\ l.trailing \in BOOLEAN
        /\ n = Len(l.words) /\ (l.words = << >> <=> n = 0) /\ Line(l, n) /\ Long(L, l, n)
    BY DEF Of, Line
  <1>3. q < CliSize /\ q \in Nat /\ CliSize \in Nat /\ q \in 0 .. CliSize - 1 /\ 0 + q = q
    BY <1>1, <1>2, CliAssumption DEF Full, Is
  <1> HIDE DEF found, d
  <1>4. CommandDoes("COMMAND", b, q, cmd, 0, NoPointers, NoPointers, FALSE, FALSE, m, ch, found)
    <2>1. found = ezCli_IsCommandExisting(StringAt(Put(b, q, NUL), 0))
      BY DEF found, d
    <2> QED
      BY <1>1, <2>1, CommandIs
  <1>5. CASE q # len
    <2>1. q \in 0 .. len - 1
      BY <1>1, <1>2, <1>5
    <2>2. ch = l.command[q + 1] /\ q + 1 < Len(T) /\ ch \notin {SPACE, NUL, NEWLINE}
      BY <2>1, InCommandChar
    <2> HIDE DEF ch
    <2>3. Becomes("COMMAND", Put(b, q, ch), q + 1, cmd, 0, NoPointers, NoPointers, FALSE, FALSE, m)
      BY <1>4, <2>2 DEF CommandDoes
    <2>4. Begun(Put(b, q, ch), 0, l.command, q + 1)
      <3>1. Begun(Put(b, 0 + q, ch), 0, l.command, q + 1)
        BY <1>1, <1>3, <2>2, BegunPut
      <3> QED
        BY <1>3, <3>1
    <2>5. InCommand(cli', l, q + 1, Put(b, q, ch), cmd, m)
      <3>1. Buffer(Put(b, q, ch)) /\ q + 1 \in 0 .. Len(l.command)
        BY <1>1, <1>2, <1>3, <2>1, PutAt
      <3> QED
        BY <1>1, <2>3, <2>4, <3>1 DEF InCommand, Becomes
    <2>6. On(cli', l, n, L, S, q + 1)
      BY <2>5 DEF On
    <2>7. UNCHANGED called /\ q + 1 # Len(T)
      <3>1. Len(T) \in Nat
        BY DEF Of, Laid
      <3> QED
        BY <1>3, <2>2, <2>3, <3>1 DEF Becomes
    <2> QED
      BY <2>6, <2>7 DEF Result
  <1>6. CASE q = len
    <2>1. S[0] = q /\ L[0] = q /\ 0 \in 0 .. n
      BY <1>2, <1>6 DEF Of, Laid, Long
    <2>2. /\ 0 < n \/ l.trailing => ch = SPACE /\ q + 1 < Len(T)
          /\ ~(0 < n \/ l.trailing) => 0 = n /\ q + 1 = Len(T) /\ ch = NEWLINE
      BY <2>1, AfterWord
    <2>3. /\ HoldsAt(d, 0, l.command)
          /\ ezCli_IsCommandExisting(l.command) # {} => Good(d, l, L, 0)
      BY <1>1, <1>2, <1>3, <1>6, GoodFirst DEF d
    <2>4. found = ezCli_IsCommandExisting(l.command)
      BY <1>2, <2>3, StringHeld DEF found
    <2>5. found # {} => FirstOf(found) = TheCommand(l)
      BY <2>4 DEF TheCommand
    <2>6. Put(b, q, NUL) = d
      BY DEF d
    <2>7. found = {} => ~IsCommandLine(l)
      BY <2>4 DEF IsCommandLine
    <2> HIDE DEF ch
    <2>8. CASE 0 < n \/ l.trailing
      <3>1. ch = SPACE /\ q + 1 # Len(T)
        <4>1. Len(T) \in Nat
          BY DEF Of, Laid
        <4> QED
          BY <1>3, <2>2, <2>8, <4>1
      <3>2. CASE found = {}
        <4>1. Failed(q + 1)
          BY <1>4, <3>1, <3>2 DEF CommandDoes
        <4> QED
          BY <2>7, <3>2, <4>1, FailedResult DEF Failed
      <3>3. CASE found # {}
        <4>1. Becomes("ARGUMENT", d, q + 1, TheCommand(l), 0, NoPointers, NoPointers, FALSE, FALSE, m)
          BY <1>4, <2>5, <2>6, <3>1, <3>3 DEF CommandDoes
        <4>2. 2 * 0 = 0 /\ 2 * 0 + 1 = 1 /\ 0 \in 0 .. NumOfArgument - 1 /\ Here(l, n, 1)
          BY <1>2, <2>8, CliAssumption DEF Here
        <4>3. BeforeName(cli', l, n, L, S, q + 1, 0, d, m)
          BY <1>1, <2>1, <2>3, <2>4, <3>3, <4>1, <4>2, NoneYet DEF BeforeName, Becomes
        <4> QED
          BY <3>1, <4>1, <4>3 DEF Result, On, Becomes
      <3> QED
        BY <3>2, <3>3
    <2>9. CASE ~(0 < n \/ l.trailing)
      <3>1. ch = NEWLINE /\ q + 1 = Len(T) /\ n = 0 /\ l.words = << >> /\ ~l.trailing
        BY <1>2, <2>2, <2>9
      <3>2. CASE found # {} /\ ~TakesArguments(FirstOf(found))
        <4>1. Completed("COMMAND", d, q + 1, TheCommand(l), 0, NoPointers, NoPointers, FALSE, FALSE, m)
          BY <1>4, <2>5, <2>6, <3>1, <3>2 DEF CommandDoes
        <4>2. Fits(l)
          <5>1. L[n] + Blank(l) < CliSize
            BY <1>3, <2>1, <3>1 DEF Blank
          <5> QED
            BY <1>2, <5>1, FitsIs
        <4>3. Completed("COMMAND", d, q + 1, TheCommand(l), 0, Args(L, 0), Vals(L, 0), FALSE, FALSE, m)
          BY <4>1, NoneYet
        <4>4. Good(d, l, L, n) /\ ~TakesArguments(TheCommand(l))
          BY <2>3, <2>4, <2>5, <3>1, <3>2
        <4>5. \A j \in 0 .. NumOfArgument - 1 : (j < 0 <=> 2 * j + 1 <= n) /\ (j < 0 <=> 2 * j + 2 <= n)
          BY <3>1, CliAssumption
        <4>6. called' = LineMeaning(l)
          BY <1>2, <4>2, <4>3, <4>4, <4>5, Complete
        <4> QED
          BY <3>1, <4>6 DEF Result
      <3>3. CASE found = {} \/ TakesArguments(FirstOf(found))
        <4>1. Failed(q + 1)
          BY <1>4, <3>1, <3>3 DEF CommandDoes
        <4>2. ~IsCommandLine(l)
          BY <2>5, <2>7, <3>1, <3>3 DEF IsCommandLine
        <4> QED
          BY <4>1, <4>2, FailedResult DEF Failed
      <3> QED
        BY <3>2, <3>3
    <2> QED
      BY <2>8, <2>9
  <1> QED
    BY <1>5, <1>6

LEMMA Parity == \A k \in Nat : (2 * k + 1) % 2 = 1 /\ (2 * k + 2) % 2 = 0
  OBVIOUS

LEMMA WrongWord ==
  ASSUME NEW l, NEW n, Line(l, n), NEW i \in 1 .. n, ~RightWord(l, i)
  PROVE  ~IsCommandLine(l)
  BY DEF Line, IsCommandLine, RightWord

(* What a line says of its i-th word.                                      *)
WordFacts(l, n, L, T, i, w) ==
  /\ Line(l, n) /\ Long(L, l, n) /\ l.words # << >> /\ n \in Nat /\ Len(T) \in Nat
  /\ w.text \in Text({QUOTE}) /\ Len(w.text) \in Nat /\ w.marks \in {0, 1, 2}
  /\ w.marks = 1 => i = n
  /\ w.marks = 0 => w.text \in Text({QUOTE, SPACE}) /\ Len(w.text) # 0
  /\ L[i - 1] \in Nat /\ L[i] \in Nat /\ L[i] = (L[i - 1] + 1) + Len(w.text)
  /\ L[i] <= L[n] /\ L[n] \in Nat

Letters(w) == \A k \in 1 .. Len(w.text) : w.text[k] \notin {QUOTE, NUL, NEWLINE}
PlainLetters(w) == \A k \in 1 .. Len(w.text) : w.text[k] # SPACE

LEMMA WordIs ==
  ASSUME NEW l, NEW n, NEW L, NEW S, NEW T, Of(l, n, L, S, T), NEW i \in 1 .. n,
         NEW w, w = l.words[i]
  PROVE  /\ WordFacts(l, n, L, T, i, w) /\ Letters(w)
         /\ w.marks = 0 => PlainLetters(w)
  <1>1. Line(l, n) /\ Long(L, l, n) /\ n \in Nat /\ l.words # << >> /\ Len(T) \in Nat
    <2>1. Line(l, n) /\ Long(L, l, n) /\ Len(T) \in Nat
      BY DEF Of, Laid
    <2>2. n \in Nat /\ n # 0 /\ (l.words = << >> <=> n = 0)
      BY <2>1 DEF Line
    <2> QED
      BY <2>1, <2>2
  <1>2. /\ w.text \in Text({QUOTE}) /\ Len(w.text) \in Nat /\ w.marks \in {0, 1, 2}
        /\ w.marks = 1 => i = n
        /\ w.marks = 0 => w.text \in Text({QUOTE, SPACE}) /\ Len(w.text) # 0
    BY <1>1 DEF Line
  <1>3. \A k \in 1 .. Len(w.text) : w.text[k] \notin {QUOTE, NUL, NEWLINE}
    BY <1>2, TextPlain
  <1>4. w.marks = 0 => \A k \in 1 .. Len(w.text) : w.text[k] # SPACE
    BY <1>2, TextPlain
  <1>5. i - 1 \in 0 .. n /\ i \in 0 .. n /\ n \in 0 .. n
    BY <1>1
  <1>6. L[i - 1] \in Nat /\ L[i] \in Nat /\ L[n] \in Nat /\ L[i] <= L[n] /\ L[i] = L[i - 1] + 1 + Len(w.text)
    <2>1. i \in 0 .. n /\ \A j \in 0 .. n : j \in 0 .. n
      BY <1>5
    <2> QED
      BY <1>1, <1>5, <2>1 DEF Long
  <1>7. \A u, v \in Nat : u + 1 + v = (u + 1) + v
    OBVIOUS
  <1> QED
    BY <1>1, <1>2, <1>3, <1>4, <1>6, <1>7 DEF WordFacts, Letters, PlainLetters

LEMMA BeforeNameStep ==
  ASSUME NEW l, NEW n, NEW L, NEW S, NEW T, Of(l, n, L, S, T), NEW q, NEW k, NEW b, NEW m,
         BeforeName(cli, l, n, L, S, q, k, b, m), called = << >>, ~Full(cli),
         ezCli_HandleStateArgument(cli, T[q + 1])
  PROVE  Result(l, n, L, S, T, q)
  <1> DEFINE ch == T[q + 1]
             p == L[2 * k] + 1
             i == 2 * k + 1
             w == l.words[i]
             name == StringAt(Put(b, p, NUL), Args(L, k)[k])
             e == Put(b, p, ch)
  <1>1. /\ Is(cli, "ARGUMENT", b, p, TheCommand(l), k, Args(L, k), Vals(L, k), FALSE, FALSE, m)
        /\ k \in 0 .. NumOfArgument - 1 /\ Here(l, n, i) /\ q = S[2 * k] + 1
        /\ Good(b, l, L, 2 * k) /\ (l.words # << >> => m = 0)
    BY DEF BeforeName
  <1>2. Line(l, n) /\ Long(L, l, n) /\ n \in Nat
    BY DEF Of, Line
  <1>3. k \in Nat /\ 2 * k \in 0 .. n /\ i - 1 = 2 * k /\ i \in Nat /\ i % 2 = 1
    <2>1. k \in Nat
      BY <1>1, CliAssumption
    <2> QED
      BY <1>1, <1>2, <2>1, Parity DEF Here
  <1>4. L[2 * k] \in Nat /\ p \in Nat /\ p > L[2 * k]
    BY <1>2, <1>3 DEF Long
  <1>5. p < CliSize /\ p \in 0 .. CliSize - 1 /\ p + 0 = p
    BY <1>1, <1>4, CliAssumption DEF Full, Is
  <1>6. ArgumentDoes("ARGUMENT", b, p, TheCommand(l), k, Args(L, k), Vals(L, k), FALSE, FALSE, m, ch, name)
    <2> HIDE DEF p, name
    <2>1. name = StringAt(Put(b, p, NUL), Args(L, k)[k])
      BY DEF name
    <2> QED
      BY <1>1, <2>1, ArgumentIs
  <1>7. \A x : Good(Put(b, p, x), l, L, 2 * k)
    <2> HIDE DEF p
    <2> QED
      BY <1>1, <1>2, <1>3, <1>4, <1>5, GoodPut
  <1>8. DASH \notin {SPACE, NEWLINE} /\ QUOTE \notin {SPACE, NEWLINE, DASH}
    BY DEF DASH, SPACE, NEWLINE, QUOTE
  <1> HIDE DEF name
  <1>9. CASE i \in 1 .. n
    <2> DEFINE t == w.text
    <2>a. w = l.words[i] /\ i \in 1 .. n /\ q = S[i - 1] + 1
      BY <1>1, <1>3, <1>9
    <2>b. WordFacts(l, n, L, T, i, w) /\ Letters(w) /\ (w.marks = 0 => PlainLetters(w))
      <3> HIDE DEF i, w
      <3> QED
        BY <2>a, WordIs
    <2>c. CharFacts(S, T, i, w, q)
      <3> HIDE DEF i, w
      <3> QED
        BY <2>a, InWordChar
    <2> HIDE DEF i, w, ch, p
    <2>1. /\ w.marks \in {0, 1, 2} /\ l.words # << >> /\ Len(t) \in Nat /\ Len(T) \in Nat
          /\ w.marks = 0 => Len(t) # 0
          /\ \A x \in 1 .. Len(t) : t[x] \notin {QUOTE, NUL, NEWLINE} /\ (w.marks = 0 => t[x] # SPACE)
      BY <2>b DEF WordFacts, Letters, PlainLetters
    <2>3. /\ q \in Nat
          /\ w.marks >= 1 => T[q + 1] = QUOTE /\ q + 1 < Len(T)
          /\ \A x \in 1 .. Len(t) : T[q + Marks(w, 1) + x] = t[x] /\ q + Marks(w, 1) + x < Len(T)
      BY <2>c DEF CharFacts, LettersFrom
    <2>4. CASE w.marks # 0
      <3>1. ch = QUOTE
        BY <2>1, <2>3, <2>4 DEF ch
      <3>2. Failed(p + 1)
        BY <1>6, <1>8, <3>1 DEF ArgumentDoes
      <3>3. ~RightWord(l, i)
        BY <1>3, <2>4 DEF RightWord, IsName, w
      <3>4. ~IsCommandLine(l)
        BY <1>2, <1>9, <3>3, WrongWord
      <3> QED
        BY <3>2, <3>4, FailedResult DEF Failed
    <2>5. CASE w.marks = 0
      <3>1. 1 \in 1 .. Len(t) /\ Marks(w, 1) = 0 /\ q + 0 + 1 = q + 1
        BY <2>1, <2>3, <2>5 DEF Marks
      <3>2. ch = t[1] /\ ch \notin {SPACE, NEWLINE} /\ q + 1 < Len(T)
        BY <2>1, <2>3, <2>5, <3>1 DEF ch
      <3>3. CASE ch = DASH
        <4>1. Becomes("ARGUMENT", e, p + 1, TheCommand(l), k, [Args(L, k) EXCEPT ![k] = p], Vals(L, k),
                      TRUE, FALSE, m)
          BY <1>6, <3>3 DEF ArgumentDoes
        <4>2. [Args(L, k) EXCEPT ![k] = p] = Args(L, k + 1)
          BY <1>1, OneMore DEF p
        <4>3. Begun(e, p, t, 1)
          <5>1. Begun(b, p, t, 0)
            BY DEF Begun
          <5>2. 0 + 1 = 1 /\ p + 0 = p /\ 0 \in Nat /\ p \in Nat /\ p + 0 < CliSize /\ Buffer(b)
            BY <1>1, <1>4, <1>5 DEF Good
          <5>3. Begun(Put(b, p + 0, ch), p, t, 0 + 1)
            BY <3>2, <5>1, <5>2, BegunPut
          <5> QED
            BY <5>2, <5>3
        <4>4. InName(cli', l, n, L, S, q + 1, k, e, 1)
          <5>1. q + 1 = S[2 * k] + 1 + 1
            BY <1>1, <2>3
          <5>2. Is(cli', "ARGUMENT", e, p + 1, TheCommand(l), k, Args(L, k + 1), Vals(L, k), TRUE, FALSE, 0)
            BY <1>1, <2>1, <4>1, <4>2 DEF Becomes
          <5> QED
            BY <1>1, <1>7, <1>9, <2>5, <3>1, <3>2, <3>3, <4>3, <5>1, <5>2 DEF InName, p, i, w
        <4>5. On(cli', l, n, L, S, q + 1)
          BY <4>4 DEF On
        <4>6. q + 1 # Len(T)
          BY <2>1, <2>3, <3>2
        <4> QED
          BY <4>1, <4>5, <4>6 DEF Result, Becomes
      <3>4. CASE ch # DASH
        <4>1. Failed(p + 1)
          BY <1>6, <3>2, <3>4 DEF ArgumentDoes
        <4>2. ~RightWord(l, i)
          BY <1>3, <3>2, <3>4 DEF RightWord, IsName, w
        <4>3. ~IsCommandLine(l)
          BY <1>2, <1>9, <4>2, WrongWord
        <4> QED
          BY <4>1, <4>3, FailedResult DEF Failed
      <3> QED
        BY <3>3, <3>4
    <2> QED
      BY <2>1, <2>4, <2>5
  <1>10. CASE i \notin 1 .. n
    <2>1. n = 2 * k /\ l.trailing
      BY <1>1, <1>2, <1>3, <1>10 DEF Here
    <2>2. q + 1 = Len(T) /\ ch = NEWLINE
      <3>1. q = S[n] + 1
        BY <1>1, <2>1
      <3> QED
        BY <2>1, <3>1, AfterBlank
    <2> HIDE DEF ch, p
    <2>3. Completed("ARGUMENT", Put(b, p, NUL), p + 1, TheCommand(l), k, Args(L, k), Vals(L, k),
                    FALSE, FALSE, m)
      BY <1>6, <2>2 DEF ArgumentDoes
    <2>4. Fits(l)
      <3>1. L[n] + Blank(l) < CliSize
        BY <1>5, <2>1 DEF p, Blank
      <3> QED
        BY <1>2, <3>1, FitsIs
    <2>5. Good(Put(b, p, NUL), l, L, n)
      BY <1>7, <2>1
    <2>6. \A j \in 0 .. NumOfArgument - 1 : (j < k <=> 2 * j + 1 <= n) /\ (j < k <=> 2 * j + 2 <= n)
      BY <1>3, <2>1, CliAssumption
    <2>7. called' = LineMeaning(l)
      BY <1>2, <1>3, <2>1, <2>3, <2>4, <2>5, <2>6, Complete
    <2> QED
      BY <2>2, <2>7 DEF Result
  <1> QED
    BY <1>9, <1>10

LEMMA InNameStep ==
  ASSUME NEW l, NEW n, NEW L, NEW S, NEW T, Of(l, n, L, S, T), NEW q, NEW k, NEW b, NEW j,
         InName(cli, l, n, L, S, q, k, b, j), called = << >>, ~Full(cli),
         ezCli_HandleStateArgument(cli, T[q + 1])
  PROVE  Result(l, n, L, S, T, q)
  <1> DEFINE ch == T[q + 1]
             p == L[2 * k] + 1
             i == 2 * k + 1
             w == l.words[i]
             t == w.text
             x == p + j
             name == StringAt(Put(b, x, NUL), Args(L, k + 1)[k])
             e == Put(b, x, ch)
  <1>1. /\ Is(cli, "ARGUMENT", b, x, TheCommand(l), k, Args(L, k + 1), Vals(L, k), TRUE, FALSE, 0)
        /\ k \in 0 .. NumOfArgument - 1 /\ i \in 1 .. n /\ w.marks = 0 /\ t[1] = DASH
        /\ j \in 1 .. Len(t) /\ q = S[2 * k] + 1 + j
        /\ Good(b, l, L, 2 * k) /\ Begun(b, p, t, j)
    BY DEF InName
  <1>2. /\ Line(l, n) /\ Long(L, l, n) /\ l.words # << >> /\ n \in Nat /\ Len(T) \in Nat
        /\ t \in Text({QUOTE}) /\ Len(t) \in Nat
        /\ \A y \in 1 .. Len(t) : t[y] \notin {SPACE, QUOTE, NUL, NEWLINE}
        /\ L[i - 1] \in Nat /\ L[i] \in Nat /\ L[i] = (L[i - 1] + 1) + Len(t)
    <2> HIDE DEF i
    <2>1. w = l.words[i] /\ w.marks = 0 /\ i \in 1 .. n
      BY <1>1
    <2> HIDE DEF w
    <2>2. WordFacts(l, n, L, T, i, w) /\ Letters(w) /\ PlainLetters(w)
      BY <2>1, WordIs
    <2>3. \A y \in 1 .. Len(t) : t[y] \notin {SPACE, QUOTE, NUL, NEWLINE}
      BY <2>2 DEF Letters, PlainLetters
    <2> QED
      BY <2>2, <2>3 DEF WordFacts
  <1>3. k \in Nat /\ i - 1 = 2 * k /\ i \in Nat /\ i % 2 = 1 /\ 2 * k \in 0 .. n /\ i \in 0 .. n
    <2>1. k \in Nat
      BY <1>1, CliAssumption
    <2> QED
      BY <1>1, <1>2, <2>1, Parity
  <1>4. /\ L[2 * k] \in Nat /\ p \in Nat /\ x \in Nat /\ x > L[2 * k] /\ j \in Nat /\ p = L[i - 1] + 1
        /\ L[i] = p + Len(t)
    <2>1. p = L[i - 1] + 1 /\ L[2 * k] = L[i - 1] /\ j \in Nat
      BY <1>1, <1>2, <1>3
    <2> DEFINE z == L[i - 1]
    <2>2. z \in Nat /\ p = z + 1
      BY <1>2, <2>1
    <2>3. L[i] = (z + 1) + Len(t)
      BY <1>2
    <2> HIDE DEF z, p, t
    <2>4. p \in Nat /\ x \in Nat /\ x > z /\ L[i] = p + Len(t)
      BY <2>1, <2>2, <2>3
    <2> QED
      BY <2>1, <2>2, <2>4 DEF z
  <1>5. x < CliSize /\ x \in 0 .. CliSize - 1
    <2>1. cli.curr_index = x /\ x \in Nat
      BY <1>1, <1>4 DEF Is
    <2> HIDE DEF x
    <2> QED
      BY <2>1, CliAssumption DEF Full
  <1>6. ArgumentDoes("ARGUMENT", b, x, TheCommand(l), k, Args(L, k + 1), Vals(L, k), TRUE, FALSE, 0, ch, name)
    <2> HIDE DEF x, name
    <2>1. name = StringAt(Put(b, x, NUL), Args(L, k + 1)[k])
      BY DEF name
    <2> QED
      BY <1>1, <2>1, ArgumentIs
  <1>7. /\ q \in Nat /\ S[i] = S[i - 1] + Wide(w) /\ S[i - 1] \in Nat /\ q = S[i - 1] + 1 + j
        /\ \A y \in 1 .. Len(t) : /\ T[S[i - 1] + 1 + Marks(w, 1) + y] = t[y]
                                  /\ S[i - 1] + 1 + Marks(w, 1) + y < Len(T)
        /\ Marks(w, 1) = 0 /\ Wide(w) = 1 + Len(t)
    <2>1. Marks(w, 1) = 0 /\ Wide(w) = 1 + Len(t)
      BY <1>1, <1>2, WideNat
    <2>2. q = S[i - 1] + 1 + j
      BY <1>1, <1>3
    <2> HIDE DEF i
    <2> DEFINE z == S[i - 1] + 1
    <2>3. w = l.words[i] /\ i \in 1 .. n /\ z = S[i - 1] + 1
      BY <1>1
    <2> HIDE DEF w, z
    <2>6. CharFacts(S, T, i, w, z)
      BY <2>3, InWordChar
    <2>4. /\ S[i] = S[i - 1] + Wide(w) /\ S[i - 1] \in Nat
          /\ \A y \in 1 .. Len(t) : T[z + Marks(w, 1) + y] = t[y] /\ z + Marks(w, 1) + y < Len(T)
      BY <2>6 DEF CharFacts, LettersFrom
    <2>5. q \in Nat
      <3>1. j \in Nat /\ S[i - 1] \in Nat
        BY <1>4, <2>4
      <3> HIDE DEF p, x, t
      <3> QED
        BY <2>2, <3>1
    <2> QED
      BY <2>1, <2>2, <2>3, <2>4, <2>5
  <1>8. Buffer(b)
    BY <1>1 DEF Good
  <1> HIDE DEF name
  <1>9. CASE j < Len(t)
    <2>1. j + 1 \in 1 .. Len(t) /\ S[i - 1] + 1 + 0 + (j + 1) = q + 1
      <3> DEFINE y == Len(t)
                 z == S[i - 1]
      <3>1. y \in Nat /\ j \in Nat /\ j < y /\ z \in Nat /\ q = z + 1 + j
        BY <1>2, <1>4, <1>7, <1>9
      <3> HIDE DEF y, z, x, p
      <3>2. j + 1 \in 1 .. y /\ z + 1 + 0 + (j + 1) = q + 1
        BY <3>1
      <3> QED
        BY <3>2 DEF y, z
    <2>2. ch = t[j + 1] /\ q + 1 < Len(T) /\ ch \notin {SPACE, NEWLINE}
      <3> HIDE DEF t, i, w
      <3>1. T[S[i - 1] + 1 + 0 + (j + 1)] = t[j + 1] /\ S[i - 1] + 1 + 0 + (j + 1) < Len(T)
        BY <1>7, <2>1
      <3> QED
        BY <1>2, <2>1, <3>1
    <2> HIDE DEF ch, w, i, p
    <2>3. Becomes("ARGUMENT", e, x + 1, TheCommand(l), k, Args(L, k + 1), Vals(L, k), TRUE, FALSE, 0)
      BY <1>6, <2>2 DEF ArgumentDoes
    <2>4. Begun(e, p, t, j + 1)
      BY <1>1, <1>4, <1>5, <1>8, <2>2, BegunPut
    <2>5. Good(e, l, L, 2 * k)
      <3> HIDE DEF x
      <3> QED
        BY <1>1, <1>2, <1>3, <1>4, <1>5, GoodPut
    <2>6. x + 1 = p + (j + 1) /\ q + 1 = S[2 * k] + 1 + (j + 1)
      <3>1. q = S[i - 1] + 1 + j /\ S[i - 1] = S[2 * k] /\ S[i - 1] \in Nat
        BY <1>3, <1>7
      <3> DEFINE z == S[2 * k]
      <3>2. q = z + 1 + j /\ z \in Nat /\ j \in Nat /\ p \in Nat
        BY <1>4, <3>1
      <3> HIDE DEF z
      <3> QED
        BY <3>2 DEF z
    <2>7. InName(cli', l, n, L, S, q + 1, k, e, j + 1)
      <3>1. Is(cli', "ARGUMENT", e, p + (j + 1), TheCommand(l), k, Args(L, k + 1), Vals(L, k), TRUE, FALSE, 0)
        BY <2>3, <2>6 DEF Becomes
      <3> QED
        BY <1>1, <2>1, <2>4, <2>5, <2>6, <3>1 DEF InName, p, w, i
    <2>8. On(cli', l, n, L, S, q + 1)
      BY <2>7 DEF On
    <2>9. q + 1 # Len(T)
      BY <1>2, <1>7, <2>2
    <2> QED
      BY <2>3, <2>8, <2>9 DEF Result, Becomes
  <1>10. CASE j = Len(t)
    <2>1. x = L[i] /\ q = S[i]
      <3> DEFINE y == Len(t)
      <3>1. /\ q = S[i - 1] + 1 + y /\ S[i] = S[i - 1] + (1 + y) /\ S[i - 1] \in Nat /\ y \in Nat
            /\ L[i] = p + y /\ x = p + y
        BY <1>2, <1>4, <1>7, <1>10
      <3> HIDE DEF y, i, t
      <3> QED
        BY <3>1
    <2>2. /\ i < n \/ l.trailing => ch = SPACE /\ q + 1 < Len(T)
          /\ ~(i < n \/ l.trailing) => i = n /\ q + 1 = Len(T) /\ ch = NEWLINE
      <3> HIDE DEF i
      <3> QED
        BY <1>3, <2>1, AfterWord
    <2> DEFINE d == Put(b, x, NUL)
    <2>3. HoldsAt(d, p, t) /\ (RightWord(l, i) => Good(d, l, L, i))
      <3>1. Good(b, l, L, i - 1) /\ Begun(b, L[i - 1] + 1, l.words[i].text, Len(l.words[i].text)) /\ L[i] < CliSize
        BY <1>1, <1>3, <1>4, <1>5, <1>10, <2>1
      <3>2. /\ HoldsAt(Put(b, L[i], NUL), L[i - 1] + 1, l.words[i].text)
            /\ RightWord(l, i) => Good(Put(b, L[i], NUL), l, L, i)
        <4> HIDE DEF i
        <4> QED
          BY <1>1, <1>2, <3>1, GoodNext
      <3> QED
        BY <1>4, <2>1, <3>2
    <2>4. name = t
      <3>1. Args(L, k + 1)[k] = p
        BY <1>1, <1>3 DEF Args
      <3>2. StringAt(d, p) = t
        BY <1>2, <2>3, StringHeld
      <3> QED
        BY <3>1, <3>2 DEF name
    <2>5. RightWord(l, i) <=> ((i < n \/ l.trailing) => ezCli_IsArgumentExisting(TheCommand(l), t))
      <3>1. n = Len(l.words)
        BY <1>2 DEF Line
      <3> QED
        BY <1>1, <1>3, <3>1 DEF RightWord, IsName, Followed
    <2> HIDE DEF ch, w, i, p, x, d, t
    <2>6. CASE i < n \/ l.trailing
      <3>1. ch = SPACE /\ q + 1 # Len(T)
        BY <1>2, <1>7, <2>2, <2>6
      <3>2. CASE ezCli_IsArgumentExisting(TheCommand(l), t)
        <4>1. Becomes("VALUE", d, x + 1, TheCommand(l), k, Args(L, k + 1), Vals(L, k), FALSE, FALSE, 0)
          BY <1>6, <2>4, <3>1, <3>2 DEF ArgumentDoes, d
        <4>2. 2 * k + 2 = i + 1 /\ 2 * k + 1 = i
          BY <1>3 DEF i
        <4>3. Here(l, n, i + 1)
          BY <1>1, <1>2, <2>6 DEF Here
        <4>4. BeforeValue(cli', l, n, L, S, q + 1, k, d)
          BY <1>1, <2>1, <2>3, <2>5, <3>2, <4>1, <4>2, <4>3 DEF BeforeValue, Becomes
        <4>5. On(cli', l, n, L, S, q + 1)
          BY <4>4 DEF On
        <4> QED
          BY <3>1, <4>1, <4>5 DEF Result, Becomes
      <3>3. CASE ~ezCli_IsArgumentExisting(TheCommand(l), t)
        <4>1. Failed(x + 1)
          BY <1>6, <2>4, <3>1, <3>3 DEF ArgumentDoes
        <4>2. ~IsCommandLine(l)
          BY <1>1, <1>2, <2>5, <2>6, <3>3, WrongWord
        <4> QED
          BY <4>1, <4>2, FailedResult DEF Failed
      <3> QED
        BY <3>2, <3>3
    <2>7. CASE ~(i < n \/ l.trailing)
      <3>1. i = n /\ q + 1 = Len(T) /\ ch = NEWLINE /\ ~l.trailing
        BY <2>2, <2>7
      <3>2. Completed("ARGUMENT", d, x + 1, TheCommand(l), k, Args(L, k + 1), Vals(L, k), TRUE, FALSE, 0)
        BY <1>6, <3>1 DEF ArgumentDoes, d
      <3>3. Fits(l)
        <4>1. L[n] + Blank(l) < CliSize
          BY <1>4, <1>5, <2>1, <3>1 DEF Blank
        <4> QED
          BY <1>2, <4>1, FitsIs
      <3>4. Good(d, l, L, n)
        BY <2>3, <2>5, <2>7, <3>1
      <3>5. \A y \in 0 .. NumOfArgument - 1 : (y < k + 1 <=> 2 * y + 1 <= n) /\ (y < k <=> 2 * y + 2 <= n)
        <4>1. n = 2 * k + 1
          BY <3>1 DEF i
        <4> QED
          BY <1>3, <4>1, CliAssumption
      <3>6. called' = LineMeaning(l)
        <4>1. k + 1 \in Nat
          BY <1>3
        <4> QED
          BY <1>2, <1>3, <3>2, <3>3, <3>4, <3>5, <4>1, Complete
      <3> QED
        BY <3>1, <3>6 DEF Result
    <2> QED
      BY <2>6, <2>7
  <1> QED
    BY <1>1, <1>2, <1>9, <1>10

LEMMA BeforeValueStep ==
  ASSUME NEW l, NEW n, NEW L, NEW S, NEW T, Of(l, n, L, S, T), NEW q, NEW k, NEW b,
         BeforeValue(cli, l, n, L, S, q, k, b), called = << >>, ~Full(cli),
         ezCli_HandleStateValue(cli, T[q + 1])
  PROVE  Result(l, n, L, S, T, q)
  <1> DEFINE ch == T[q + 1]
             p == L[2 * k + 1] + 1
             i == 2 * k + 2
             w == l.words[i]
             next == (0 + 1) % MarksRange
             e == Put(b, p, ch)
  <1>1. /\ Is(cli, "VALUE", b, p, TheCommand(l), k, Args(L, k + 1), Vals(L, k), FALSE, FALSE, 0)
        /\ k \in 0 .. NumOfArgument - 1 /\ Here(l, n, i) /\ q = S[2 * k + 1] + 1
        /\ Good(b, l, L, 2 * k + 1)
    BY DEF BeforeValue
  <1>2. Line(l, n) /\ Long(L, l, n) /\ n \in Nat
    BY DEF Of, Line
  <1>3. k \in Nat /\ 2 * k + 1 \in 0 .. n /\ i - 1 = 2 * k + 1 /\ i \in Nat
    <2>1. k \in Nat
      BY <1>1, CliAssumption
    <2> QED
      BY <1>1, <1>2, <2>1 DEF Here
  <1>4. L[2 * k + 1] \in Nat /\ p \in Nat /\ p > L[2 * k + 1]
    BY <1>2, <1>3 DEF Long
  <1>5. p < CliSize /\ p \in 0 .. CliSize - 1 /\ p + 0 = p
    BY <1>1, <1>4, CliAssumption DEF Full, Is
  <1>6. ValueDoes("VALUE", b, p, TheCommand(l), k, Args(L, k + 1), Vals(L, k), FALSE, FALSE, 0, ch, next)
    <2> HIDE DEF p, next
    <2>1. next = (0 + 1) % MarksRange
      BY DEF next
    <2> QED
      BY <1>1, <2>1, ValueIs
  <1>7. next = 1
    BY CliAssumption
  <1>8. \A x : Good(Put(b, p, x), l, L, 2 * k + 1)
    <2> HIDE DEF p
    <2> QED
      BY <1>1, <1>2, <1>3, <1>4, <1>5, GoodPut
  <1>9. [Vals(L, k) EXCEPT ![k] = p] = Vals(L, k + 1)
    BY <1>1, OneMore
  <1> HIDE DEF next
  <1>10. CASE i \in 1 .. n
    <2> DEFINE t == w.text
    <2>a. w = l.words[i] /\ i \in 1 .. n /\ q = S[i - 1] + 1
      BY <1>1, <1>3, <1>10
    <2>b. WordFacts(l, n, L, T, i, w) /\ Letters(w) /\ (w.marks = 0 => PlainLetters(w))
      <3> HIDE DEF i, w
      <3> QED
        BY <2>a, WordIs
    <2>c. CharFacts(S, T, i, w, q)
      <3> HIDE DEF i, w
      <3> QED
        BY <2>a, InWordChar
    <2> HIDE DEF i, w, ch, p
    <2>1. /\ w.marks \in {0, 1, 2} /\ l.words # << >> /\ Len(t) \in Nat /\ Len(T) \in Nat
          /\ w.marks = 0 => Len(t) # 0
          /\ \A x \in 1 .. Len(t) : t[x] \notin {QUOTE, NUL, NEWLINE} /\ (w.marks = 0 => t[x] # SPACE)
      BY <2>b DEF WordFacts, Letters, PlainLetters
    <2>3. /\ q \in Nat
          /\ w.marks >= 1 => T[q + 1] = QUOTE /\ q + 1 < Len(T)
          /\ \A x \in 1 .. Len(t) : T[q + Marks(w, 1) + x] = t[x] /\ q + Marks(w, 1) + x < Len(T)
      BY <2>c DEF CharFacts, LettersFrom
    <2>4. CASE w.marks # 0
      <3>1. ch = QUOTE /\ q + 1 # Len(T) /\ Marks(w, 1) = 1
        BY <2>1, <2>3, <2>4 DEF ch, Marks
      <3>2. Becomes("VALUE", e, p, TheCommand(l), k, Args(L, k + 1), [Vals(L, k) EXCEPT ![k] = p],
                    FALSE, TRUE, next)
        BY <1>6, <1>7, <3>1 DEF ValueDoes
      <3>3. Is(cli', "VALUE", e, p + 0, TheCommand(l), k, Args(L, k + 1), Vals(L, k + 1), FALSE, TRUE, 1)
        BY <1>5, <1>7, <1>9, <3>2 DEF Becomes
      <3>4. 0 \in 0 .. Len(t) /\ q + 1 = S[2 * k + 1] + 1 + 1 + 0 /\ Begun(e, p, t, 0)
        BY <1>1, <2>1, <2>3 DEF Begun
      <3>5. InValue(cli', l, n, L, S, q + 1, k, e, 0, 1)
        BY <1>1, <1>8, <1>10, <2>4, <3>1, <3>3, <3>4 DEF InValue, p, i, w
      <3>6. On(cli', l, n, L, S, q + 1)
        BY <3>5 DEF On
      <3> QED
        BY <3>1, <3>2, <3>6 DEF Result, Becomes
    <2>5. CASE w.marks = 0
      <3>1. 1 \in 1 .. Len(t) /\ Marks(w, 1) = 0 /\ q + 0 + 1 = q + 1
        BY <2>1, <2>3, <2>5 DEF Marks
      <3>2. ch = t[1] /\ ch \notin {SPACE, QUOTE, NEWLINE} /\ q + 1 # Len(T)
        BY <2>1, <2>3, <2>5, <3>1 DEF ch
      <3>3. Becomes("VALUE", e, p + 1, TheCommand(l), k, Args(L, k + 1), [Vals(L, k) EXCEPT ![k] = p],
                    FALSE, TRUE, 0)
        BY <1>6, <3>2 DEF ValueDoes
      <3>4. Is(cli', "VALUE", e, p + 1, TheCommand(l), k, Args(L, k + 1), Vals(L, k + 1), FALSE, TRUE, 0)
        BY <1>9, <3>3 DEF Becomes
      <3>5. Begun(e, p, t, 1)
        <4>1. Begun(b, p, t, 0)
          BY DEF Begun
        <4>2. 0 + 1 = 1 /\ p + 0 = p /\ 0 \in Nat /\ p \in Nat /\ p + 0 < CliSize /\ Buffer(b)
          BY <1>1, <1>4, <1>5 DEF Good
        <4>3. Begun(Put(b, p + 0, ch), p, t, 0 + 1)
          BY <3>2, <4>1, <4>2, BegunPut
        <4> QED
          BY <4>2, <4>3
      <3>6. q + 1 = S[2 * k + 1] + 1 + 0 + 1 /\ 1 \in 0 .. Len(t)
        BY <1>1, <2>1, <2>3, <3>1
      <3>7. InValue(cli', l, n, L, S, q + 1, k, e, 1, 0)
        <4>1. Good(e, l, L, 2 * k + 1) /\ 1 # 0
          BY <1>8
        <4> HIDE DEF e, t
        <4> QED
          BY <1>1, <1>10, <3>1, <3>4, <3>5, <3>6, <4>1 DEF InValue, p, i, w, t
      <3>8. On(cli', l, n, L, S, q + 1)
        BY <3>7 DEF On
      <3> QED
        BY <3>2, <3>3, <3>8 DEF Result, Becomes
    <2> QED
      BY <2>1, <2>4, <2>5
  <1>11. CASE i \notin 1 .. n
    <2>1. n = 2 * k + 1 /\ l.trailing
      BY <1>1, <1>2, <1>3, <1>11 DEF Here
    <2>2. q + 1 = Len(T) /\ ch = NEWLINE
      <3>1. q = S[n] + 1
        BY <1>1, <2>1
      <3> QED
        BY <2>1, <3>1, AfterBlank
    <2> HIDE DEF ch, p
    <2>3. Completed("VALUE", Put(b, p, NUL), p + 1, TheCommand(l), k + 1, Args(L, k + 1), Vals(L, k),
                    FALSE, FALSE, 0)
      BY <1>6, <2>2 DEF ValueDoes
    <2>4. Fits(l)
      <3>1. L[n] + Blank(l) < CliSize
        BY <1>5, <2>1 DEF p, Blank
      <3> QED
        BY <1>2, <3>1, FitsIs
    <2>5. Good(Put(b, p, NUL), l, L, n)
      BY <1>8, <2>1
    <2>6. \A j \in 0 .. NumOfArgument - 1 : (j < k + 1 <=> 2 * j + 1 <= n) /\ (j < k <=> 2 * j + 2 <= n)
      BY <1>3, <2>1, CliAssumption
    <2>7. called' = LineMeaning(l)
      <3>1. k + 1 \in Nat
        BY <1>3
      <3> QED
        BY <1>2, <1>3, <2>1, <2>3, <2>4, <2>5, <2>6, <3>1, Complete
    <2> QED
      BY <2>2, <2>7 DEF Result
  <1> QED
    BY <1>10, <1>11

LEMMA InValueStep ==
  ASSUME NEW l, NEW n, NEW L, NEW S, NEW T, Of(l, n, L, S, T), NEW q, NEW k, NEW b, NEW j, NEW m,
         InValue(cli, l, n, L, S, q, k, b, j, m), called = << >>, ~Full(cli),
         ezCli_HandleStateValue(cli, T[q + 1])
  PROVE  Result(l, n, L, S, T, q)
  <1> DEFINE ch == T[q + 1]
             p == L[2 * k + 1] + 1
             i == 2 * k + 2
             w == l.words[i]
             t == w.text
             x == p + j
             next == (m + 1) % MarksRange
             e == Put(b, x, ch)
             z == S[2 * k + 1] + 1
  <1>1. /\ Is(cli, "VALUE", b, x, TheCommand(l), k, Args(L, k + 1), Vals(L, k + 1), FALSE, TRUE, m)
        /\ k \in 0 .. NumOfArgument - 1 /\ i \in 1 .. n
        /\ j \in 0 .. Len(t) /\ q = z + m + j
        /\ m = Marks(w, 1) \/ (m = 2 /\ w.marks = 2 /\ j = Len(t))
        /\ w.marks = 0 => j # 0
        /\ Good(b, l, L, 2 * k + 1) /\ Begun(b, p, t, j)
    BY DEF InValue
  <1>2. k \in Nat /\ i - 1 = 2 * k + 1 /\ i \in Nat /\ i % 2 # 1 /\ 2 * k + 1 \in 0 .. n /\ i \in 0 .. n /\ n \in Nat
    <2>1. k \in Nat
      BY <1>1, CliAssumption
    <2>2. n \in Nat
      BY DEF Of, Line
    <2> QED
      BY <1>1, <2>1, <2>2, Parity
  <1>3. w = l.words[i] /\ i \in 1 .. n /\ z = S[i - 1] + 1 /\ p = L[i - 1] + 1
    BY <1>1, <1>2
  <1>4. WordFacts(l, n, L, T, i, w) /\ Letters(w) /\ (w.marks = 0 => PlainLetters(w))
    <2> HIDE DEF i, w
    <2> QED
      BY <1>3, WordIs
  <1>5. CharFacts(S, T, i, w, z)
    <2> HIDE DEF i, w, z
    <2> QED
      BY <1>3, InWordChar
  <1>6. /\ Line(l, n) /\ Long(L, l, n) /\ l.words # << >> /\ Len(T) \in Nat
        /\ t \in Text({QUOTE}) /\ Len(t) \in Nat /\ w.marks \in {0, 1, 2}
        /\ w.marks = 1 => i = n
        /\ L[i] \in Nat /\ L[i] = p + Len(t) /\ p \in Nat /\ L[2 * k + 1] \in Nat /\ p > L[2 * k + 1]
    <2> HIDE DEF i, w, z
    <2>1. L[i - 1] = L[2 * k + 1] /\ L[i - 1] \in Nat /\ L[i] = (L[i - 1] + 1) + Len(w.text)
      BY <1>2, <1>4 DEF WordFacts
    <2> QED
      BY <1>4, <2>1 DEF WordFacts
  <1>7. /\ z \in Nat /\ S[i] = S[i - 1] + Wide(w) /\ S[i - 1] \in Nat
        /\ LettersFrom(T, w, z + Marks(w, 1))
        /\ w.marks = 2 => T[z + 2 + Len(t)] = QUOTE /\ z + 2 + Len(t) < Len(T)
    <2> HIDE DEF i, w, z
    <2> QED
      BY <1>5 DEF CharFacts
  <1>8. /\ w.marks = 0 => Marks(w, 1) = 0 /\ S[i] = z + Len(t) /\ m = 0
        /\ w.marks = 1 => Marks(w, 1) = 1 /\ S[i] = z + 1 + Len(t) /\ m = 1
        /\ w.marks = 2 => Marks(w, 1) = 1 /\ S[i] = z + 2 + Len(t) /\ m \in {1, 2}
        /\ m \in {0, 1, 2}
    <2> HIDE DEF i, w, z, t
    <2>1. /\ w.marks = 0 => Marks(w, 1) = 0 /\ Wide(w) = 1 + Len(t)
          /\ w.marks = 1 => Marks(w, 1) = 1 /\ Wide(w) = 2 + Len(t)
          /\ w.marks = 2 => Marks(w, 1) = 1 /\ Wide(w) = 3 + Len(t)
      BY <1>6, WideNat DEF t
    <2> DEFINE s == S[i - 1]
               y == Len(t)
    <2>2. s \in Nat /\ y \in Nat /\ z = s + 1 /\ S[i] = s + Wide(w)
      BY <1>3, <1>6, <1>7
    <2> HIDE DEF s, y
    <2>3. /\ w.marks = 0 => S[i] = z + y
          /\ w.marks = 1 => S[i] = z + 1 + y
          /\ w.marks = 2 => S[i] = z + 2 + y
      BY <2>1, <2>2 DEF y
    <2> QED
      BY <1>1, <1>6, <2>1, <2>3 DEF y
  <1>9. j \in Nat /\ x \in Nat /\ x > L[2 * k + 1] /\ x < CliSize /\ x \in 0 .. CliSize - 1 /\ Buffer(b) /\ q \in Nat
    <2>1. j \in Nat /\ p \in Nat /\ p > L[2 * k + 1] /\ L[2 * k + 1] \in Nat /\ Buffer(b) /\ cli.curr_index = x
      BY <1>1, <1>6 DEF Good, Is
    <2> HIDE DEF p, i, w, t, z
    <2>2. x \in Nat /\ x > L[2 * k + 1] /\ q \in Nat
      BY <1>1, <1>7, <1>8, <2>1
    <2> HIDE DEF x
    <2> QED
      BY <2>1, <2>2, CliAssumption DEF Full
  <1>a. ValueDoes("VALUE", b, x, TheCommand(l), k, Args(L, k + 1), Vals(L, k + 1), FALSE, TRUE, m, ch, next)
    <2> HIDE DEF x, next
    <2>1. next = (m + 1) % MarksRange
      BY DEF next
    <2> QED
      BY <1>1, <2>1, ValueIs
  <1>b. \A y : Good(Put(b, x, y), l, L, 2 * k + 1)
    <2> HIDE DEF x
    <2> QED
      BY <1>1, <1>2, <1>6, <1>9, GoodPut
  <1>c. SPACE \notin {QUOTE, NEWLINE} /\ QUOTE # NEWLINE
    BY DEF SPACE, QUOTE, NEWLINE
  <1>d. x = p + j /\ z = S[2 * k + 1] + 1
    OBVIOUS
  <1> HIDE DEF x, next, p, i, w, t, z, ch
  <1>10. CASE j < Len(t)
    <2>1. m = Marks(w, 1)
      BY <1>1, <1>6, <1>10
    <2>2. /\ j + 1 \in 1 .. Len(t) /\ j + 1 \in 0 .. Len(t) /\ j + 1 # 0 /\ q + 1 = (z + m) + (j + 1)
          /\ q + 1 = z + m + (j + 1) /\ x + 1 = p + (j + 1)
      <3> DEFINE y == Len(t)
      <3>1. /\ y \in Nat /\ j \in 0 .. y /\ j < y /\ z \in Nat /\ m \in {0, 1, 2} /\ p \in Nat
            /\ q = z + m + j /\ x = p + j
        BY <1>1, <1>6, <1>7, <1>8, <1>10, <1>d
      <3> HIDE DEF y
      <3>2. /\ j + 1 \in 1 .. y /\ j + 1 \in 0 .. y /\ j + 1 # 0 /\ q + 1 = (z + m) + (j + 1)
            /\ q + 1 = z + m + (j + 1) /\ x + 1 = p + (j + 1)
        BY <3>1
      <3> QED
        BY <3>2 DEF y
    <2>3. ch = t[j + 1] /\ q + 1 < Len(T)
      <3>1. T[(z + m) + (j + 1)] = w.text[j + 1] /\ (z + m) + (j + 1) < Len(T)
        BY <1>7, <2>1, <2>2 DEF LettersFrom, t
      <3> QED
        BY <2>2, <3>1 DEF ch, t
    <2>4. ch \notin {QUOTE, NEWLINE} /\ (ch = SPACE => m = 1)
      <3>1. t[j + 1] \notin {QUOTE, NEWLINE}
        BY <1>4, <2>2 DEF Letters, t
      <3>2. w.marks = 0 => t[j + 1] # SPACE
        BY <1>4, <2>2 DEF PlainLetters, t
      <3>3. w.marks # 0 => m = 1
        BY <1>6, <1>8, <2>1
      <3> QED
        BY <2>3, <3>1, <3>2, <3>3
    <2>5. Becomes("VALUE", e, x + 1, TheCommand(l), k, Args(L, k + 1), Vals(L, k + 1), FALSE, TRUE, m)
      BY <1>a, <2>4 DEF ValueDoes
    <2>6. Begun(e, p, t, j + 1)
      <3>1. Begun(Put(b, p + j, ch), p, t, j + 1)
        BY <1>1, <1>6, <1>9, <1>d, <2>3, BegunPut
      <3> QED
        BY <1>d, <3>1
    <2>7. InValue(cli', l, n, L, S, q + 1, k, e, j + 1, m)
      <3>1. Is(cli', "VALUE", e, p + (j + 1), TheCommand(l), k, Args(L, k + 1), Vals(L, k + 1), FALSE, TRUE, m)
        BY <2>2, <2>5 DEF Becomes
      <3>2. Good(e, l, L, 2 * k + 1)
        BY <1>b
      <3> HIDE DEF e
      <3> QED
        BY <1>1, <1>d, <2>1, <2>2, <2>6, <3>1, <3>2 DEF InValue, p, i, w, t
    <2>8. On(cli', l, n, L, S, q + 1)
      BY <2>7 DEF On
    <2>9. q + 1 # Len(T)
      BY <1>6, <1>9, <2>3
    <2> QED
      BY <2>5, <2>8, <2>9 DEF Result, Becomes
  <1>11. CASE j = Len(t) /\ w.marks = 2 /\ m = 1
    <2>1. q + 1 = z + 2 + Len(t) /\ next = 2
      <3>1. next = 2
        BY <1>11, CliAssumption DEF next
      <3> QED
        BY <1>1, <1>6, <1>7, <1>11, <3>1
    <2>2. ch = QUOTE /\ q + 1 # Len(T)
      BY <1>6, <1>7, <1>9, <1>11, <2>1 DEF ch
    <2>3. Becomes("VALUE", e, x, TheCommand(l), k, Args(L, k + 1), Vals(L, k + 1), FALSE, TRUE, next)
      BY <1>a, <2>1, <2>2 DEF ValueDoes
    <2>4. Begun(e, p, t, j)
      <3>1. Begun(Put(b, p + j, ch), p, t, j)
        BY <1>1, <1>6, <1>9, <1>d, BegunPut
      <3> QED
        BY <1>d, <3>1
    <2>5. InValue(cli', l, n, L, S, q + 1, k, e, j, 2)
      <3>1. Is(cli', "VALUE", e, p + j, TheCommand(l), k, Args(L, k + 1), Vals(L, k + 1), FALSE, TRUE, 2)
        BY <1>d, <2>1, <2>3 DEF Becomes
      <3>2. Good(e, l, L, 2 * k + 1) /\ q + 1 = z + 2 + j
        BY <1>b, <1>11, <2>1
      <3> HIDE DEF e
      <3> QED
        BY <1>1, <1>d, <1>11, <2>4, <3>1, <3>2 DEF InValue, p, i, w, t
    <2>6. On(cli', l, n, L, S, q + 1)
      BY <2>5 DEF On
    <2> QED
      BY <2>2, <2>3, <2>6 DEF Result, Becomes
  <1>12. CASE j = Len(t) /\ w.marks = 1
    <2>1. m = 1 /\ q = S[i] /\ i = n /\ n \in 0 .. n
      BY <1>1, <1>2, <1>6, <1>8, <1>12
    <2>2. ~IsCommandLine(l)
      <3>1. ~RightWord(l, i)
        BY <1>2, <1>12 DEF RightWord, IsValue, w
      <3> QED
        BY <1>3, <1>6, <3>1, WrongWord
    <2>3. /\ l.trailing => ch = SPACE /\ q + 1 < Len(T)
          /\ ~l.trailing => q + 1 = Len(T) /\ ch = NEWLINE
      BY <1>2, <2>1, AfterWord DEF ch
    <2>4. CASE l.trailing
      <3>1. Becomes("VALUE", e, x + 1, TheCommand(l), k, Args(L, k + 1), Vals(L, k + 1), FALSE, TRUE, m)
        BY <1>a, <2>1, <2>3, <2>4 DEF ValueDoes
      <3>2. (q + 1) + 1 = Len(T)
        BY <2>1, <2>4, AfterBlank
      <3>3. Lost(cli', l, T, q + 1)
        BY <2>1, <2>2, <3>1, <3>2 DEF Lost, Becomes, Is
      <3>4. q + 1 # Len(T)
        BY <1>6, <1>9, <2>3, <2>4
      <3> QED
        BY <3>1, <3>3, <3>4 DEF Result, Becomes
    <2>5. CASE ~l.trailing
      <3>1. Failed(x)
        BY <1>a, <2>1, <2>3, <2>5 DEF ValueDoes
      <3> QED
        BY <2>2, <3>1, FailedResult DEF Failed
    <2> QED
      BY <2>4, <2>5
  <1>13. CASE j = Len(t) /\ ((w.marks = 0 /\ m = 0) \/ (w.marks = 2 /\ m = 2))
    <2>1. q = S[i] /\ x = L[i] /\ m \in {0, 2}
      <3> DEFINE y == Len(t)
                 s == S[i]
                 o == L[i]
      <3>1. /\ y \in Nat /\ z \in Nat /\ p \in Nat /\ j = y /\ q = z + m + j /\ x = p + j /\ o = p + y
            /\ (m = 0 /\ s = z + y) \/ (m = 2 /\ s = z + 2 + y)
        BY <1>1, <1>6, <1>7, <1>8, <1>13, <1>d
      <3> HIDE DEF y, s, o
      <3>2. q = s /\ x = o /\ m \in {0, 2}
        BY <3>1
      <3> QED
        BY <3>2 DEF s, o
    <2>2. /\ i < n \/ l.trailing => ch = SPACE /\ q + 1 < Len(T)
          /\ ~(i < n \/ l.trailing) => i = n /\ q + 1 = Len(T) /\ ch = NEWLINE
      BY <1>2, <2>1, AfterWord DEF ch
    <2> DEFINE d == Put(b, x, NUL)
    <2>3. RightWord(l, i) => Good(d, l, L, i)
      <3>1. Good(b, l, L, i - 1) /\ Begun(b, L[i - 1] + 1, l.words[i].text, Len(l.words[i].text)) /\ L[i] < CliSize
        BY <1>1, <1>2, <1>3, <1>9, <1>13, <2>1 DEF t
      <3>2. RightWord(l, i) => Good(Put(b, L[i], NUL), l, L, i)
        BY <1>3, <1>6, <3>1, GoodNext
      <3> QED
        BY <2>1, <3>2
    <2>4. RightWord(l, i) <=> ((i < n \/ l.trailing) => AnotherArgument(k + 1))
      <3>1. n = Len(l.words)
        BY <1>6 DEF Line
      <3>2. i < 2 * NumOfArgument <=> k + 1 < NumOfArgument
        BY <1>2, CliAssumption DEF i
      <3>3. w.marks # 1
        BY <1>13
      <3> QED
        BY <1>2, <3>1, <3>2, <3>3 DEF RightWord, IsValue, Followed, AnotherArgument, w
    <2> HIDE DEF d
    <2>5. CASE i < n \/ l.trailing
      <3>1. ch = SPACE /\ q + 1 # Len(T)
        BY <1>6, <1>9, <2>2, <2>5
      <3>2. CASE AnotherArgument(k + 1)
        <4>1. Becomes("ARGUMENT", d, x + 1, TheCommand(l), k + 1, Args(L, k + 1), Vals(L, k + 1), FALSE, FALSE, 0)
          BY <1>a, <2>1, <3>1, <3>2 DEF ValueDoes, d
        <4>2. 2 * (k + 1) = i /\ k + 1 \in 0 .. NumOfArgument - 1 /\ Here(l, n, i + 1)
          <5>1. 2 * (k + 1) = i /\ k + 1 \in 0 .. NumOfArgument - 1
            BY <1>2, <3>2, CliAssumption DEF AnotherArgument, i
          <5>2. Here(l, n, i + 1)
            BY <1>2, <1>3, <2>5 DEF Here
          <5> QED
            BY <5>1, <5>2
        <4>3. BeforeName(cli', l, n, L, S, q + 1, k + 1, d, 0)
          <5>1. /\ Is(cli', "ARGUMENT", d, L[2 * (k + 1)] + 1, TheCommand(l), k + 1, Args(L, k + 1),
                      Vals(L, k + 1), FALSE, FALSE, 0)
                /\ q + 1 = S[2 * (k + 1)] + 1 /\ Good(d, l, L, 2 * (k + 1))
                /\ Here(l, n, 2 * (k + 1) + 1)
            BY <2>1, <2>3, <2>4, <3>2, <4>1, <4>2 DEF Becomes
          <5> QED
            BY <4>2, <5>1 DEF BeforeName
        <4>4. On(cli', l, n, L, S, q + 1)
          BY <4>3 DEF On
        <4> QED
          BY <3>1, <4>1, <4>4 DEF Result, Becomes
      <3>3. CASE ~AnotherArgument(k + 1)
        <4>1. Failed(x + 1)
          BY <1>a, <2>1, <3>1, <3>3 DEF ValueDoes
        <4>2. ~IsCommandLine(l)
          BY <1>3, <1>6, <2>4, <2>5, <3>3, WrongWord
        <4> QED
          BY <4>1, <4>2, FailedResult DEF Failed
      <3> QED
        BY <3>2, <3>3
    <2>6. CASE ~(i < n \/ l.trailing)
      <3>1. i = n /\ q + 1 = Len(T) /\ ch = NEWLINE /\ ~l.trailing
        BY <2>2, <2>6
      <3>2. Completed("VALUE", d, x + 1, TheCommand(l), k + 1, Args(L, k + 1), Vals(L, k + 1), FALSE, FALSE, 0)
        BY <1>a, <2>1, <3>1 DEF ValueDoes, d
      <3>3. Fits(l)
        <4>1. L[n] + Blank(l) < CliSize
          BY <1>6, <1>9, <2>1, <3>1 DEF Blank
        <4> QED
          BY <1>6, <4>1, FitsIs
      <3>4. Good(d, l, L, n)
        BY <2>3, <2>4, <2>6, <3>1
      <3>5. \A y \in 0 .. NumOfArgument - 1 : (y < k + 1 <=> 2 * y + 1 <= n) /\ (y < k + 1 <=> 2 * y + 2 <= n)
        <4>1. n = 2 * k + 2
          BY <3>1 DEF i
        <4> QED
          BY <1>2, <4>1, CliAssumption
      <3>6. called' = LineMeaning(l)
        <4>1. k + 1 \in Nat
          BY <1>2
        <4> QED
          BY <1>6, <3>2, <3>3, <3>4, <3>5, <4>1, Complete
      <3> QED
        BY <3>1, <3>6 DEF Result
    <2> QED
      BY <2>5, <2>6
  <1>14. j = Len(t) \/ j < Len(t)
    BY <1>1, <1>6
  <1> QED
    BY <1>6, <1>8, <1>10, <1>11, <1>12, <1>13, <1>14

-----------------------------------------------------------------------------
(* A full buffer, and a line given up.                                     *)

LEMMA Behind ==
  ASSUME NEW l, NEW n, NEW L, Line(l, n), Long(L, l, n), NEW i \in Nat \ {0}, Here(l, n, i)
  PROVE  L[i - 1] \in Nat /\ L[n] \in Nat /\ L[i - 1] + 1 <= L[n] + Blank(l)
  <1>1. n \in Nat /\ n \in 0 .. n
    BY DEF Line
  <1>2. L[n] \in Nat /\ \A j \in 0 .. n : L[j] \in Nat /\ L[j] <= L[n]
    BY <1>1 DEF Long
  <1>3. Blank(l) \in {0, 1}
    BY DEF Blank
  <1>4. CASE i \in 1 .. n
    <2>1. i - 1 \in 0 .. n /\ i \in 0 .. n
      BY <1>1, <1>4
    <2>2. L[i] = L[i - 1] + 1 + Len(l.words[i].text) /\ Len(l.words[i].text) \in Nat
      BY <1>4 DEF Long, Line
    <2> DEFINE y == Len(l.words[i].text)
    <2>3. L[i] = L[i - 1] + 1 + y /\ y \in Nat
      BY <2>2
    <2> HIDE DEF y
    <2> QED
      BY <1>2, <1>3, <2>1, <2>3
  <1>5. CASE i = n + 1 /\ l.trailing
    <2>1. i - 1 = n /\ Blank(l) = 1
      BY <1>1, <1>5 DEF Blank
    <2> QED
      BY <1>2, <2>1
  <1> QED
    BY <1>4, <1>5 DEF Here

LEMMA Within ==
  ASSUME NEW l, NEW n, NEW L, Line(l, n), Long(L, l, n), NEW i \in 1 .. n,
         NEW j \in 0 .. Len(l.words[i].text)
  PROVE  L[n] \in Nat /\ (L[i - 1] + 1) + j <= L[n] /\ (L[i - 1] + 1) + j \in Nat
  <1>1. n \in Nat /\ n \in 0 .. n /\ i - 1 \in 0 .. n /\ i \in 0 .. n
    BY DEF Line
  <1>2. L[n] \in Nat /\ L[i] \in Nat /\ L[i] <= L[n] /\ L[i - 1] \in Nat
    BY <1>1 DEF Long
  <1> DEFINE y == Len(l.words[i].text)
  <1>3. L[i] = L[i - 1] + 1 + y /\ y \in Nat /\ j \in 0 .. y
    <2>1. L[i] = L[i - 1] + 1 + y
      BY DEF Long
    <2>2. y \in Nat
      BY DEF Line
    <2> QED
      BY <2>1, <2>2
  <1> HIDE DEF y
  <1> QED
    BY <1>2, <1>3

LEMMA OnAt ==
  ASSUME NEW l, NEW n, NEW L, NEW S, NEW T, Of(l, n, L, S, T), NEW q, On(cli, l, n, L, S, q)
  PROVE  /\ L[n] \in Nat /\ cli.curr_index \in Nat /\ cli.curr_index <= L[n] + Blank(l)
         /\ cli.state = "COMMAND" \/ cli.curr_index # 0
  <1>1. /\ Line(l, n) /\ Long(L, l, n) /\ n \in Nat /\ n \in 0 .. n /\ 0 \in 0 .. n
        /\ Len(l.command) \in Nat
    <2>1. Line(l, n) /\ Long(L, l, n) /\ n \in Nat /\ Len(l.command) \in Nat
      BY DEF Of, Line
    <2> QED
      BY <2>1
  <1>2. L[n] \in Nat /\ L[0] = Len(l.command) /\ L[0] <= L[n]
    BY <1>1 DEF Long
  <1>3. Blank(l) \in {0, 1}
    BY DEF Blank
  <1>4. PICK b, k, j, m :
     \/ InCommand(cli, l, q, b, k, m)
     \/ BeforeName(cli, l, n, L, S, q, k, b, m)
     \/ InName(cli, l, n, L, S, q, k, b, j)
     \/ BeforeValue(cli, l, n, L, S, q, k, b)
     \/ InValue(cli, l, n, L, S, q, k, b, j, m)
    BY DEF On
  <1>5. CASE InCommand(cli, l, q, b, k, m)
    <2>1. cli.curr_index = q /\ q \in 0 .. Len(l.command) /\ cli.state = "COMMAND"
      BY <1>5 DEF InCommand, Is
    <2> QED
      BY <1>1, <1>2, <1>3, <2>1
  <1>6. CASE BeforeName(cli, l, n, L, S, q, k, b, m)
    <2>1. cli.curr_index = L[2 * k] + 1 /\ k \in 0 .. NumOfArgument - 1 /\ Here(l, n, 2 * k + 1)
      BY <1>6 DEF BeforeName, Is
    <2>2. 2 * k + 1 \in Nat \ {0} /\ (2 * k + 1) - 1 = 2 * k
      BY <2>1, CliAssumption
    <2>3. L[2 * k] \in Nat /\ L[2 * k] + 1 <= L[n] + Blank(l)
      BY <1>1, <2>1, <2>2, Behind
    <2> QED
      BY <1>2, <2>1, <2>3
  <1>7. CASE InName(cli, l, n, L, S, q, k, b, j)
    <2> DEFINE i == 2 * k + 1
    <2>1. /\ cli.curr_index = (L[2 * k] + 1) + j /\ k \in 0 .. NumOfArgument - 1 /\ i \in 1 .. n
          /\ j \in 1 .. Len(l.words[i].text)
      BY <1>7 DEF InName, Is
    <2>2. i - 1 = 2 * k
      BY <2>1, CliAssumption
    <2> HIDE DEF i
    <2>3. Len(l.words[i].text) \in Nat
      BY <1>1, <2>1 DEF Line
    <2>4. j \in 0 .. Len(l.words[i].text)
      BY <2>1, <2>3
    <2>5. (L[i - 1] + 1) + j <= L[n] /\ (L[i - 1] + 1) + j \in Nat
      BY <1>1, <2>1, <2>4, Within
    <2>6. i - 1 \in 0 .. n
      BY <1>1, <2>1
    <2>7. L[i - 1] \in Nat
      BY <1>1, <2>6 DEF Long
    <2>8. (L[i - 1] + 1) + j # 0 /\ cli.curr_index = (L[i - 1] + 1) + j
      BY <2>1, <2>2, <2>3, <2>7
    <2> QED
      BY <1>2, <1>3, <2>5, <2>8
  <1>8. CASE BeforeValue(cli, l, n, L, S, q, k, b)
    <2>1. cli.curr_index = L[2 * k + 1] + 1 /\ k \in 0 .. NumOfArgument - 1 /\ Here(l, n, 2 * k + 2)
      BY <1>8 DEF BeforeValue, Is
    <2>2. 2 * k + 2 \in Nat \ {0} /\ (2 * k + 2) - 1 = 2 * k + 1
      BY <2>1, CliAssumption
    <2>3. L[2 * k + 1] \in Nat /\ L[2 * k + 1] + 1 <= L[n] + Blank(l)
      BY <1>1, <2>1, <2>2, Behind
    <2> QED
      BY <1>2, <2>1, <2>3
  <1>9. CASE InValue(cli, l, n, L, S, q, k, b, j, m)
    <2> DEFINE i == 2 * k + 2
    <2>1. /\ cli.curr_index = (L[2 * k + 1] + 1) + j /\ k \in 0 .. NumOfArgument - 1 /\ i \in 1 .. n
          /\ j \in 0 .. Len(l.words[i].text)
      BY <1>9 DEF InValue, Is
    <2>2. i - 1 = 2 * k + 1
      BY <2>1, CliAssumption
    <2> HIDE DEF i
    <2>3. Len(l.words[i].text) \in Nat
      BY <1>1, <2>1 DEF Line
    <2>5. (L[i - 1] + 1) + j <= L[n] /\ (L[i - 1] + 1) + j \in Nat
      BY <1>1, <2>1, Within
    <2>6. i - 1 \in 0 .. n
      BY <1>1, <2>1
    <2>7. L[i - 1] \in Nat
      BY <1>1, <2>6 DEF Long
    <2>8. (L[i - 1] + 1) + j # 0 /\ cli.curr_index = (L[i - 1] + 1) + j
      BY <2>1, <2>2, <2>3, <2>7
    <2> QED
      BY <1>2, <1>3, <2>5, <2>8
  <1> QED
    BY <1>4, <1>5, <1>6, <1>7, <1>8, <1>9

(* A line that fills the buffer is no command line.                        *)
LEMMA FullIsLost ==
  ASSUME NEW l, NEW n, NEW L, NEW S, NEW T, Of(l, n, L, S, T), NEW q, On(cli, l, n, L, S, q), Full(cli)
  PROVE  ~IsCommandLine(l)
  <1>1. L[n] \in Nat /\ cli.curr_index \in Nat /\ cli.curr_index <= L[n] + Blank(l)
    BY OnAt
  <1>2. Blank(l) \in {0, 1}
    BY DEF Blank
  <1>3. ~(L[n] + Blank(l) < CliSize)
    BY <1>1, <1>2, CliAssumption DEF Full
  <1> QED
    BY <1>3, FitsIs DEF Of, IsCommandLine

(* The newline ends the text and is nowhere else in it.                    *)
LEMMA NewlineLast ==
  ASSUME NEW l, NEW n, NEW L, NEW S, NEW T, Of(l, n, L, S, T), NEW q \in 0 .. Len(T) - 1
  PROVE  T[q + 1] = NEWLINE <=> q + 1 = Len(T)
  <1>1. Len(T) \in Nat /\ T[Len(T)] = NEWLINE /\ \A k \in 1 .. Len(T) - 1 : T[k] # NEWLINE
    BY DEF Of, Laid
  <1>2. q + 1 = Len(T) \/ q + 1 \in 1 .. Len(T) - 1
    BY <1>1
  <1> QED
    BY <1>1, <1>2

LEMMA RefusedResult ==
  ASSUME NEW l, NEW n, NEW L, NEW S, NEW T, Of(l, n, L, S, T), NEW q \in 0 .. Len(T) - 1,
         ~IsCommandLine(l), called = << >>, Refuses(T[q + 1])
  PROVE  Result(l, n, L, S, T, q)
  <1>1. CASE q + 1 = Len(T)
    BY <1>1, NoCommandLine DEF Refuses, Result
  <1>2. CASE q + 1 # Len(T)
    <2>1. T[q + 1] # NEWLINE
      BY <1>2, NewlineLast
    <2> QED
      BY <1>2, <2>1 DEF Refuses, Result, Lost
  <1> QED
    BY <1>1, <1>2

LEMMA LostStep ==
  ASSUME NEW l, NEW n, NEW L, NEW S, NEW T, Of(l, n, L, S, T), NEW q \in 0 .. Len(T) - 1,
         Lost(cli, l, T, q), called = << >>, StartsFresh, ezCli_Run(T[q + 1])
  PROVE  Result(l, n, L, S, T, q)
  <1>1. ~IsCommandLine(l)
    BY DEF Lost
  <1>2. CASE cli.state = "ERROR" \/ Full(cli)
    <2>1. Refuses(T[q + 1])
      BY <1>2, RunIs
    <2> QED
      BY <1>1, <2>1, RefusedResult
  <1>3. CASE cli.state # "ERROR" /\ ~Full(cli)
    <2>1. /\ DOMAIN cli = Fields /\ cli.state = "VALUE" /\ cli.quotation_mark_count = 1
          /\ q + 1 = Len(T)
      BY <1>3 DEF Lost
    <2>2. T[q + 1] = NEWLINE
      BY <2>1, NewlineLast
    <2>3. cli.curr_index # 0
      <3>1. cli.curr_index = 0 => cli.state = "COMMAND"
        BY DEF StartsFresh, Fresh
      <3> QED
        BY <2>1, <3>1
    <2>4. ezCli_HandleStateValue(cli, NEWLINE)
      BY <1>3, <2>1, <2>2, <2>3, RunIs
    <2>5. NEWLINE # SPACE /\ NEWLINE # QUOTE
      BY DEF NEWLINE, SPACE, QUOTE
    <2>6. UNCHANGED called
      BY <2>1, <2>4, <2>5 DEF ezCli_HandleStateValue, Goes
    <2> QED
      BY <1>1, <2>1, <2>6, NoCommandLine DEF Result
  <1> QED
    BY <1>2, <1>3

LEMMA OnStep ==
  ASSUME NEW l, NEW n, NEW L, NEW S, NEW T, Of(l, n, L, S, T), NEW q \in 0 .. Len(T) - 1,
         On(cli, l, n, L, S, q), called = << >>, StartsFresh, ezCli_Run(T[q + 1])
  PROVE  Result(l, n, L, S, T, q)
  <1>1. CASE Full(cli)
    <2>1. Refuses(T[q + 1])
      BY <1>1, RunIs
    <2> QED
      BY <1>1, <2>1, FullIsLost, RefusedResult
  <1>2. CASE ~Full(cli)
    <2>1. /\ (cli.curr_index # 0 \/ T[q + 1] \notin {SPACE, NUL, NEWLINE}) =>
              /\ cli.state = "COMMAND" => ezCli_HandleStateCommand(cli, T[q + 1])
              /\ cli.state = "ARGUMENT" => ezCli_HandleStateArgument(cli, T[q + 1])
              /\ cli.state = "VALUE" => ezCli_HandleStateValue(cli, T[q + 1])
      BY <1>2, RunIs
    <2>2. cli.state = "COMMAND" \/ cli.curr_index # 0
      BY OnAt
    <2>3. PICK b, k, j, m :
       \/ InCommand(cli, l, q, b, k, m)
       \/ BeforeName(cli, l, n, L, S, q, k, b, m)
       \/ InName(cli, l, n, L, S, q, k, b, j)
       \/ BeforeValue(cli, l, n, L, S, q, k, b)
       \/ InValue(cli, l, n, L, S, q, k, b, j, m)
      BY DEF On
    <2>4. CASE InCommand(cli, l, q, b, k, m)
      <3>1. cli.state = "COMMAND" /\ cli.curr_index = q
        BY <2>4 DEF InCommand, Is
      <3>2. q = 0 => T[q + 1] \notin {SPACE, NUL, NEWLINE}
        <4>1. 0 \in 0 .. Len(l.command) - 1
          BY DEF Of, Line
        <4>2. T[0 + 1] \notin {SPACE, NUL, NEWLINE}
          BY <4>1, InCommandChar
        <4> QED
          BY <4>2
      <3>3. ezCli_HandleStateCommand(cli, T[q + 1])
        BY <2>1, <3>1, <3>2
      <3> QED
        BY <1>2, <2>4, <3>3, InCommandStep
    <2>5. CASE BeforeName(cli, l, n, L, S, q, k, b, m)
      <3>1. cli.state = "ARGUMENT"
        BY <2>5 DEF BeforeName, Is
      <3>2. ezCli_HandleStateArgument(cli, T[q + 1])
        BY <2>1, <2>2, <3>1
      <3> QED
        BY <1>2, <2>5, <3>2, BeforeNameStep
    <2>6. CASE InName(cli, l, n, L, S, q, k, b, j)
      <3>1. cli.state = "ARGUMENT"
        BY <2>6 DEF InName, Is
      <3>2. ezCli_HandleStateArgument(cli, T[q + 1])
        BY <2>1, <2>2, <3>1
      <3> QED
        BY <1>2, <2>6, <3>2, InNameStep
    <2>7. CASE BeforeValue(cli, l, n, L, S, q, k, b)
      <3>1. cli.state = "VALUE"
        BY <2>7 DEF BeforeValue, Is
      <3>2. ezCli_HandleStateValue(cli, T[q + 1])
        BY <2>1, <2>2, <3>1
      <3> QED
        BY <1>2, <2>7, <3>2, BeforeValueStep
    <2>8. CASE InValue(cli, l, n, L, S, q, k, b, j, m)
      <3>1. cli.state = "VALUE"
        BY <2>8 DEF InValue, Is
      <3>2. ezCli_HandleStateValue(cli, T[q + 1])
        BY <2>1, <2>2, <3>1
      <3> QED
        BY <1>2, <2>8, <3>2, InValueStep
    <2> QED
      BY <2>3, <2>4, <2>5, <2>6, <2>7, <2>8
  <1> QED
    BY <1>1, <1>2

-----------------------------------------------------------------------------
(* The line and what of it has not been polled.                            *)

Rest(T, q) == q \in 0 .. Len(T) - 1 /\ Len(coming) = Len(T) - q
              /\ \A k \in 1 .. Len(coming) : coming[k] = T[q + k]

(* What CliObeys asks of a line, which is said to be plain when it finds   *)
(* the parser at rest and has no pause.                                    *)
Plain == begun.state = "COMMAND" /\ ~gap /\ (begun.marks = 0 \/ typed.words = << >>)

Swallowed == begun.state = "ERROR" => cli.state = "ERROR"

Follows(l, n, L, S, T, q) ==
  /\ Of(l, n, L, S, T) /\ Rest(T, q)
  /\ Plain => On(cli, l, n, L, S, q) \/ Lost(cli, l, T, q)

Midway ==
  /\ typed \in Lines /\ called = << >> /\ Swallowed
  /\ coming \in Seq(Inline \cup {NEWLINE})
  /\ \E n, L, S, q : Follows(typed, n, L, S, LineText(typed), q)

AtRest ==
  /\ cli.state = "ERROR" \/ Fresh(cli)
  /\ typed # NoLine =>
       /\ Plain => called = LineMeaning(typed)
       /\ begun.state = "ERROR" => called = << >> /\ Fresh(cli)

CliTracks == StartsFresh /\ IF coming = << >> THEN AtRest ELSE Midway

LEMMA OutcomeStartsFresh ==
  ASSUME StartsFresh, NEW ch, ezCli_Run(ch)
  PROVE  StartsFresh'
  <1>1. CliIInv'
    BY ParserStep DEF StartsFresh
  <1>2. Outcome(ch)
    BY RunIs
  <1> QED
    BY <1>1, <1>2 DEF StartsFresh, Outcome

LEMMA InitCliTracks == ezCli_Init => CliTracks
  <1> SUFFICES ASSUME ezCli_Init PROVE CliTracks
    OBVIOUS
  <1>1. CliIInv
    BY InitCliIInv
  <1>2. Fresh(cli)
    <2> DEFINE c == [state |-> "COMMAND", buff |-> EmptyBuffer, curr_index |-> 0,
                     curr_cmd_index |-> 1, curr_arg_index |-> 0, arg_list |-> NoPointers,
                     value_list |-> NoPointers, is_arg_found |-> FALSE, is_value_found |-> FALSE,
                     quotation_mark_count |-> 0]
               d == ezCli_ResetStateMachine(c)
    <2>1. DOMAIN c = Fields /\ c.state = "COMMAND"
      BY DEF Fields
    <2>2. cli = d
      BY DEF ezCli_Init, CliStart
    <2> HIDE DEF c
    <2>3. d = [f \in Fields |-> d[f]] /\ d.state = "COMMAND"
      <3>1. DOMAIN d = Fields /\ d = [f \in DOMAIN c |-> d[f]]
        BY <2>1 DEF ezCli_ResetStateMachine
      <3>2. d.state = "COMMAND"
        BY <2>1 DEF ezCli_ResetStateMachine, Fields
      <3> QED
        BY <2>1, <3>1, <3>2
    <2> HIDE DEF d
    <2>4. [d EXCEPT !.state = "COMMAND"] = d
      <3>1. DOMAIN d = Fields /\ DOMAIN [d EXCEPT !.state = "COMMAND"] = Fields
        BY <2>3
      <3>2. \A f \in Fields : [d EXCEPT !.state = "COMMAND"][f] = d[f]
        BY <2>3
      <3>3. [d EXCEPT !.state = "COMMAND"] = [f \in Fields |-> [d EXCEPT !.state = "COMMAND"][f]]
        BY <3>1
      <3> QED
        BY <2>3, <3>2, <3>3
    <2>5. Fresh([d EXCEPT !.state = "COMMAND"])
      BY <2>1, ResetIsFresh DEF d
    <2> QED
      BY <2>2, <2>4, <2>5
  <1>3. coming = << >> /\ typed = NoLine
    BY DEF ezCli_Init
  <1> QED
    BY <1>1, <1>2, <1>3 DEF CliTracks, StartsFresh, AtRest

LEMMA TypingTracks ==
  ASSUME CliTracks, NEW l \in Lines, GetInputTaskFunction(l)
  PROVE  CliTracks'
  <1> DEFINE T == LineText(l)
             n == Len(l.words)
  <1>1. /\ coming = << >> /\ typed' = l /\ coming' = T /\ begun' = Standing(cli)
        /\ gap' = FALSE /\ called' = << >> /\ cli' = cli
    BY DEF GetInputTaskFunction
  <1>2. StartsFresh /\ StartsFresh' /\ (cli.state = "ERROR" \/ Fresh(cli))
    BY <1>1 DEF CliTracks, AtRest, StartsFresh, CliIInv
  <1>3. Line(l, n)
    BY LinesAre
  <1>4. PICK S : Laid(T, S, l, n)
    BY <1>3, Layout
  <1>5. PICK L : Long(L, l, n)
    BY <1>3, LengthsAre
  <1>6. Of(l, n, L, S, T)
    BY <1>3, <1>4, <1>5 DEF Of
  <1>7. T \in Seq(Inline \cup {NEWLINE}) /\ Len(T) \in Nat \ {0} /\ T # << >>
    <2>1. 0 \in 0 .. Len(l.command) - 1
      BY <1>3 DEF Line
    <2> HIDE DEF T, n
    <2>2. 0 + 1 < Len(T) /\ T \in Seq(Inline \cup {NEWLINE}) /\ Len(T) \in Nat
      BY <1>4, <1>6, <2>1, InCommandChar DEF Laid
    <2>3. Len(T) # 0
      BY <2>2
    <2> QED
      BY <2>2, <2>3, EmptySeq
  <1> HIDE DEF T
  <1>8. Rest(T, 0)'
    <2>1. 0 \in 0 .. Len(T) - 1 /\ Len(T) = Len(T) - 0 /\ \A k \in 1 .. Len(T) : T[k] = T[0 + k]
      BY <1>7
    <2> QED
      BY <1>1, <2>1 DEF Rest
  <1>9. ASSUME Plain' PROVE On(cli', l, n, L, S, 0)
    <2>1. begun'.state = cli.state /\ begun'.marks = cli.quotation_mark_count
      BY <1>1 DEF Standing
    <2>2. Fresh(cli) /\ (l.words # << >> => cli.quotation_mark_count = 0)
      BY <1>1, <1>2, <1>9, <2>1 DEF Plain
    <2>3. 0 \in 0 .. Len(l.command) /\ Begun(cli.buff, 0, l.command, 0)
      <3>1. Len(l.command) \in Nat
        BY <1>3 DEF Line
      <3> QED
        BY <3>1 DEF Begun
    <2>4. InCommand(cli', l, 0, cli.buff, cli.curr_cmd_index, cli.quotation_mark_count)
      BY <1>1, <2>2, <2>3 DEF InCommand, Fresh, Is, Buffer
    <2> QED
      BY <2>4 DEF On
  <1>a. Swallowed'
    BY <1>1 DEF Swallowed, Standing
  <1>b. Follows(l, n, L, S, T, 0)'
    BY <1>6, <1>8, <1>9 DEF Follows
  <1>c. Midway'
    <2> HIDE DEF n
    <2> QED
      BY <1>1, <1>7, <1>a, <1>b DEF Midway, T
  <1> QED
    BY <1>1, <1>2, <1>7, <1>c DEF CliTracks

LEMMA PollingTracks ==
  ASSUME CliTracks, CliTaskFunction
  PROVE  CliTracks'
  <1>1. /\ coming # << >> /\ ezCli_Run(Head(coming)) /\ coming' = Tail(coming)
        /\ typed' = typed /\ begun' = begun /\ gap' = gap
    BY DEF CliTaskFunction
  <1>2. StartsFresh /\ Midway
    BY <1>1 DEF CliTracks
  <1> DEFINE T == LineText(typed)
             A == Inline \cup {NEWLINE}
  <1>3. typed \in Lines /\ called = << >> /\ Swallowed /\ coming \in Seq(A)
    BY <1>2 DEF Midway
  <1>4. PICK n, L, S, q : Follows(typed, n, L, S, T, q)
    BY <1>2 DEF Midway
  <1> HIDE DEF T, A
  <1>5. /\ Of(typed, n, L, S, T) /\ Rest(T, q) /\ q \in 0 .. Len(T) - 1 /\ Len(T) \in Nat
        /\ Plain => On(cli, typed, n, L, S, q) \/ Lost(cli, typed, T, q)
    BY <1>4 DEF Follows, Rest, Of, Laid
  <1>6. /\ Head(coming) = coming[1] /\ Tail(coming) \in Seq(A) /\ Len(coming) \in Nat \ {0}
        /\ Len(Tail(coming)) = Len(coming) - 1
        /\ \A k \in 1 .. Len(Tail(coming)) : Tail(coming)[k] = coming[k + 1]
    BY <1>1, <1>3, HeadTailProperties, EmptySeq, LenProperties
  <1>7. Head(coming) = T[q + 1] /\ Len(Tail(coming)) = Len(T) - (q + 1)
    <2>1. Len(coming) = Len(T) - q /\ \A k \in 1 .. Len(coming) : coming[k] = T[q + k]
      BY <1>5 DEF Rest
    <2>2. 1 \in 1 .. Len(coming)
      BY <1>6
    <2> QED
      BY <1>5, <1>6, <2>1, <2>2
  <1>8. ezCli_Run(T[q + 1]) /\ StartsFresh'
    BY <1>1, <1>2, <1>7, OutcomeStartsFresh
  <1>9. Outcome(T[q + 1]) /\ (begun.state = "ERROR" => Refuses(T[q + 1]))
    BY <1>2, <1>3, <1>8, RunIs DEF Swallowed
  <1>10. Plain => Result(typed, n, L, S, T, q)
    BY <1>2, <1>3, <1>5, <1>8, OnStep, LostStep
  <1>11. Plain' <=> Plain
    BY <1>1 DEF Plain
  <1>12. T[q + 1] = NEWLINE <=> q + 1 = Len(T)
    BY <1>5, NewlineLast
  <1>13. CASE q + 1 = Len(T)
    <2>1. coming' = << >>
      BY <1>1, <1>5, <1>6, <1>7, <1>13, EmptySeq
    <2>2. cli'.state = "ERROR" \/ Fresh(cli')
      BY <1>9, <1>12, <1>13 DEF Outcome
    <2>3. Plain' => called' = LineMeaning(typed')
      BY <1>1, <1>10, <1>11, <1>13 DEF Result
    <2>4. begun'.state = "ERROR" => called' = << >> /\ Fresh(cli')
      BY <1>1, <1>3, <1>9, <1>12, <1>13 DEF Refuses
    <2>5. AtRest'
      BY <2>2, <2>3, <2>4 DEF AtRest
    <2> QED
      BY <1>8, <2>1, <2>5 DEF CliTracks
  <1>14. CASE q + 1 # Len(T)
    <2>1. coming' # << >> /\ coming' \in Seq(A) /\ T[q + 1] # NEWLINE
      <3>1. Len(coming') # 0
        <4> DEFINE y == Len(T)
        <4>1. y \in Nat /\ q \in 0 .. y - 1 /\ q + 1 # y
          BY <1>5, <1>14
        <4>2. Len(coming') = y - (q + 1)
          BY <1>1, <1>7
        <4> HIDE DEF y
        <4>3. y - (q + 1) # 0
          BY <4>1
        <4> QED
          BY <4>2, <4>3
      <3> QED
        BY <1>1, <1>6, <1>12, <1>14, <3>1, EmptySeq
    <2>2. called' = << >>
      BY <1>3, <1>9, <2>1 DEF Outcome
    <2>3. Swallowed'
      BY <1>1, <1>9, <2>1 DEF Swallowed, Refuses
    <2>4. Rest(T, q + 1)'
      <3>1. q + 1 \in 0 .. Len(T) - 1
        BY <1>5, <1>14
      <3>2. ASSUME NEW k \in 1 .. Len(coming') PROVE coming'[k] = T[(q + 1) + k]
        <4>1. k \in 1 .. Len(Tail(coming)) /\ k + 1 \in 1 .. Len(coming) /\ q + (k + 1) = (q + 1) + k
          BY <1>1, <1>5, <1>6
        <4>2. coming'[k] = coming[k + 1] /\ coming[k + 1] = T[q + (k + 1)]
          BY <1>1, <1>5, <1>6, <4>1 DEF Rest
        <4> QED
          BY <4>1, <4>2
      <3>3. Len(coming') = Len(T) - (q + 1)
        BY <1>1, <1>7
      <3>4. T' = T
        BY <1>1 DEF T
      <3> QED
        BY <3>1, <3>2, <3>3, <3>4 DEF Rest
    <2>5. Plain' => On(cli', typed, n, L, S, q + 1) \/ Lost(cli', typed, T, q + 1)
      BY <1>10, <1>11, <1>14 DEF Result
    <2>6. Follows(typed, n, L, S, T, q + 1)'
      BY <1>1, <1>5, <2>4, <2>5 DEF Follows, T
    <2>7. Midway'
      BY <1>1, <1>3, <2>1, <2>2, <2>3, <2>6 DEF Midway, T, A
    <2> QED
      BY <1>8, <2>1, <2>7 DEF CliTracks
  <1> QED
    BY <1>13, <1>14

LEMMA PauseTracks ==
  ASSUME CliTracks, GetCharCallbackEmpty
  PROVE  CliTracks'
  <1>1. /\ ezCli_Run(NUL) /\ (cli.curr_index # 0 => gap') /\ typed' = typed /\ coming' = coming
        /\ begun' = begun /\ gap' = (gap \/ cli.curr_index # 0)
    BY DEF GetCharCallbackEmpty
  <1>2. StartsFresh /\ StartsFresh'
    BY <1>1, OutcomeStartsFresh DEF CliTracks
  <1>3. NUL # NEWLINE /\ NUL \in {SPACE, NUL, NEWLINE}
    BY DEF NUL, NEWLINE
  <1>4. /\ called' = called /\ (cli.state = "ERROR" => cli'.state = "ERROR")
        /\ cli.curr_index = 0 => cli' = cli
    BY <1>1, <1>2, <1>3, RunIs DEF Outcome, Refuses
  <1>5. CASE cli.curr_index = 0
    <2>1. gap' = gap \/ (gap' <=> gap)
      BY <1>1, <1>5
    <2>2. (Plain' <=> Plain) /\ (Swallowed' <=> Swallowed)
      BY <1>1, <1>4, <1>5, <2>1 DEF Plain, Swallowed
    <2>3. AtRest => AtRest'
      BY <1>1, <1>4, <1>5, <2>2 DEF AtRest
    <2>4. Midway => Midway'
      <3> SUFFICES ASSUME Midway PROVE Midway'
        OBVIOUS
      <3>1. PICK n, L, S, q : Follows(typed, n, L, S, LineText(typed), q)
        BY DEF Midway
      <3>2. Follows(typed, n, L, S, LineText(typed), q)'
        BY <1>1, <1>4, <1>5, <2>2, <3>1 DEF Follows, Rest
      <3> QED
        BY <1>1, <1>4, <2>2, <3>2 DEF Midway
    <2> QED
      BY <1>1, <1>2, <2>3, <2>4 DEF CliTracks
  <1>6. CASE cli.curr_index # 0
    <2>1. ~Plain'
      BY <1>1, <1>6 DEF Plain
    <2>2. Swallowed => Swallowed'
      BY <1>1, <1>4 DEF Swallowed
    <2>3. AtRest => AtRest'
      <3>1. ~Fresh(cli)
        BY <1>6 DEF Fresh
      <3> QED
        BY <1>1, <1>4, <2>1, <3>1 DEF AtRest
    <2>4. Midway => Midway'
      <3> SUFFICES ASSUME Midway PROVE Midway'
        OBVIOUS
      <3>1. PICK n, L, S, q : Follows(typed, n, L, S, LineText(typed), q)
        BY DEF Midway
      <3>2. Follows(typed, n, L, S, LineText(typed), q)'
        BY <1>1, <2>1, <3>1 DEF Follows, Rest
      <3> QED
        BY <1>1, <1>4, <2>2, <3>2 DEF Midway
    <2> QED
      BY <1>1, <1>2, <2>3, <2>4 DEF CliTracks
  <1> QED
    BY <1>5, <1>6

LEMMA NextCliTracks == CliTracks /\ [CliNext]_cliVars => CliTracks'
  <1> SUFFICES ASSUME CliTracks, [CliNext]_cliVars PROVE CliTracks'
    OBVIOUS
  <1>1. CASE UNCHANGED cliVars
    <2>1. /\ cli' = cli /\ typed' = typed /\ coming' = coming /\ begun' = begun /\ gap' = gap
          /\ called' = called
      BY <1>1 DEF cliVars
    <2>2. (Plain' <=> Plain) /\ (Swallowed' <=> Swallowed) /\ (StartsFresh' <=> StartsFresh)
      BY <2>1 DEF Plain, Swallowed, StartsFresh, CliIInv
    <2>3. AtRest => AtRest'
      BY <2>1, <2>2 DEF AtRest
    <2>4. Midway => Midway'
      <3> SUFFICES ASSUME Midway PROVE Midway'
        OBVIOUS
      <3>1. PICK n, L, S, q : Follows(typed, n, L, S, LineText(typed), q)
        BY DEF Midway
      <3>2. Follows(typed, n, L, S, LineText(typed), q)'
        BY <2>1, <2>2, <3>1 DEF Follows, Rest
      <3> QED
        BY <2>1, <2>2, <3>2 DEF Midway
    <2> QED
      BY <2>1, <2>2, <2>3, <2>4 DEF CliTracks
  <1> QED
    BY <1>1, TypingTracks, PollingTracks, PauseTracks DEF CliNext

(* Whatever is typed: a line that finds the parser at rest, has no pause   *)
(* and meets no stale count of marks calls what its words ask for, with    *)
(* these arguments and values, or nothing; a line that finds the parser in *)
(* its error state is swallowed and ends that state.                       *)
THEOREM CliAlwaysObeys == CliSpec => []CliObeys
  <1>1. CliTracks => CliObeys
    BY DEF CliTracks, AtRest, Plain, Fresh, CliObeys
  <1> QED
    BY <1>1, InitCliTracks, NextCliTracks, PTL DEF CliSpec

-----------------------------------------------------------------------------
(* The types of the command line: what is written lands inside the lists   *)
(* of pointers, and every pointer into the buffer.                         *)

Places == {CliNULL} \cup 0 .. CliSize - 1

\* A parser whose fields have their types, behind a arguments.
Kept(c, a) ==
  /\ DOMAIN c = Fields /\ DOMAIN c.buff = 0 .. CliSize - 1
  /\ c.curr_cmd_index \in 1 .. Len(CliCommands)
  /\ c.curr_arg_index = a /\ a \in 0 .. NumOfArgument
  /\ c.arg_list \in [0 .. NumOfArgument - 1 -> Places]
  /\ c.value_list \in [0 .. NumOfArgument - 1 -> Places]
  /\ c.quotation_mark_count \in 0 .. MarksRange - 1

ShownTo(c, st) == c.state = st

\* Only a parser in its error state may be behind the last argument.
CliTyped(c) ==
  \E a, st : /\ Kept(c, a) /\ ShownTo(c, st) /\ st \in {"COMMAND", "ARGUMENT", "VALUE", "ERROR"}
             /\ st # "ERROR" => a < NumOfArgument

LEMMA NoPointersAre == NoPointers \in [0 .. NumOfArgument - 1 -> Places]
  BY DEF NoPointers, Places

LEMMA StoredKept ==
  ASSUME NEW c, NEW a, Kept(c, a), NEW ch
  PROVE  /\ Kept(Stored(c, ch), a) /\ Kept(Advanced(c, ch), a)
         /\ Stored(c, ch).state = c.state /\ Advanced(c, ch).state = c.state
  BY DEF Kept, Stored, Advanced, Fields

LEMMA PrintedKept ==
  ASSUME NEW c, NEW a, Kept(c, a)
  PROVE  Kept(ezCli_Printf(c), a)
  BY DEF Kept, ezCli_Printf, Fields

LEMMA ResetKept ==
  ASSUME NEW c, NEW a, Kept(c, a), Len(CliCommands) # 0
  PROVE  Kept(ezCli_ResetStateMachine(c), 0)
  <1>1. DOMAIN EmptyBuffer = 0 .. CliSize - 1 /\ 0 \in 0 .. NumOfArgument /\ 1 \in 1 .. Len(CliCommands)
    BY CliAssumption DEF EmptyBuffer
  <1> QED
    BY <1>1, NoPointersAre DEF Kept, ezCli_ResetStateMachine, Fields

LEMMA StateKept ==
  ASSUME NEW c, NEW a, Kept(c, a), NEW st
  PROVE  Kept([c EXCEPT !.state = st], a) /\ [c EXCEPT !.state = st].state = st
  BY DEF Kept, Fields

LEMMA CliTypedAt ==
  ASSUME NEW c, NEW a, Kept(c, a), c.state = "ERROR" \/ a < NumOfArgument,
         c.state \in {"COMMAND", "ARGUMENT", "VALUE", "ERROR"}
  PROVE  CliTyped(c)
  BY DEF CliTyped, ShownTo

LEMMA ProcessKept ==
  ASSUME NEW c, NEW a, Kept(c, a), Len(CliCommands) # 0, ezCli_ProcessCommand(c)
  PROVE  CliTyped(cli')
  <1>1. Kept(ezCli_ResetStateMachine(c), 0)
    BY ResetKept
  <1>2. Kept(cli', 0) /\ cli'.state = "COMMAND"
    BY <1>1, StateKept DEF ezCli_ProcessCommand
  <1>3. 0 < NumOfArgument
    BY CliAssumption
  <1> QED
    BY <1>2, <1>3, CliTypedAt

LEMMA FirstFound ==
  ASSUME NEW name, ezCli_IsCommandExisting(name) # {}
  PROVE  FirstOf(ezCli_IsCommandExisting(name)) \in 1 .. Len(CliCommands)
  <1> DEFINE found == ezCli_IsCommandExisting(name)
  <1>1. found \in SUBSET Nat /\ found \in SUBSET (1 .. Len(CliCommands))
    BY DEF ezCli_IsCommandExisting
  <1> HIDE DEF found
  <1>2. \E i \in found : \A j \in found : i <= j
    BY <1>1, Smallest DEF found
  <1>3. FirstOf(found) \in found
    BY <1>2 DEF FirstOf
  <1> QED
    BY <1>1, <1>3 DEF found

LEMMA CommandKept ==
  ASSUME NEW self, NEW a, Kept(self, a), a < NumOfArgument, Len(CliCommands) # 0,
         self.state = "COMMAND", NEW ch, ezCli_HandleStateCommand(self, ch)
  PROVE  CliTyped(cli')
  <1> DEFINE c == Terminated(self)
             found == ezCli_IsCommandExisting(StringAt(c.buff, 0))
             known == [c EXCEPT !.curr_cmd_index = IF found = {} THEN @ ELSE FirstOf(found)]
  <1>2. Kept(c, a)
    BY StoredKept DEF Terminated
  <1>3. found # {} => FirstOf(found) \in 1 .. Len(CliCommands)
    BY FirstFound
  <1> HIDE DEF c, found
  <1>4. Kept(known, a)
    BY <1>2, <1>3 DEF Kept, Fields
  <1> HIDE DEF known
  <1>6. /\ ch = SPACE => cli' = IF found # {} THEN [known EXCEPT !.state = "ARGUMENT", !.arg_list = NoPointers]
                                ELSE [known EXCEPT !.state = "ERROR"]
        /\ ch = NEWLINE => \/ ezCli_ProcessCommand(known)
                           \/ cli' = [ezCli_PrintMenu(known) EXCEPT !.state = "ERROR"]
        /\ ch \notin {SPACE, NEWLINE} => cli' = Advanced(self, ch)
    BY DEF ezCli_HandleStateCommand, Goes, known, c, found, SPACE, NEWLINE
  <1>7. CASE ch = SPACE
    <2>1. CASE found # {}
      <3>1. Kept(cli', a) /\ cli'.state = "ARGUMENT"
        BY <1>4, <1>6, <1>7, <2>1, NoPointersAre DEF Kept, Fields
      <3> QED
        BY <3>1, CliTypedAt
    <2>2. CASE found = {}
      BY <1>4, <1>6, <1>7, <2>2, StateKept, CliTypedAt
    <2> QED
      BY <2>1, <2>2
  <1>8. CASE ch = NEWLINE
    <2>1. CASE ezCli_ProcessCommand(known)
      BY <1>4, <2>1, ProcessKept
    <2>2. CASE cli' = [ezCli_PrintMenu(known) EXCEPT !.state = "ERROR"]
      <3>1. Kept(ezCli_PrintMenu(known), a)
        BY <1>4, PrintedKept DEF ezCli_PrintMenu, ezCli_PrintCommandHelper
      <3> QED
        BY <2>2, <3>1, StateKept, CliTypedAt
    <2> QED
      BY <1>6, <1>8, <2>1, <2>2
  <1>9. CASE ch \notin {SPACE, NEWLINE}
    <2>1. Kept(cli', a) /\ cli'.state = "COMMAND"
      BY <1>6, <1>9, StoredKept
    <2> QED
      BY <2>1, CliTypedAt
  <1> QED
    BY <1>7, <1>8, <1>9

LEMMA ArgumentKept ==
  ASSUME NEW self, NEW a, Kept(self, a), a < NumOfArgument, Len(CliCommands) # 0,
         self.curr_index \in 0 .. CliSize - 1, self.state = "ARGUMENT",
         NEW ch, ezCli_HandleStateArgument(self, ch)
  PROVE  CliTyped(cli')
  <1> DEFINE c == Terminated(self)
             p == self.curr_index
             d == Advanced(self, ch)
  <1>1. Kept(c, a) /\ Kept(d, a) /\ d.state = "ARGUMENT"
    BY StoredKept DEF Terminated
  <1>2. a = self.curr_arg_index /\ a \in 0 .. NumOfArgument - 1 /\ p \in Places
    BY CliAssumption DEF Kept, Places
  <1> HIDE DEF c, p, d
  <1>3. \/ cli' = Stored(self, ch)
        \/ cli' = [c EXCEPT !.is_arg_found = FALSE, !.state = "VALUE"]
        \/ cli' = [ezCli_PrintCommandHelper(c) EXCEPT !.state = "ERROR"]
        \/ ezCli_ProcessCommand(c)
        \/ cli' = d
        \/ cli' = [d EXCEPT !.is_arg_found = TRUE, !.arg_list[a] = p]
        \/ cli' = [d EXCEPT !.state = "ERROR"]
    BY <1>2 DEF ezCli_HandleStateArgument, Goes, c, p, d
  <1>4. CASE cli' = Stored(self, ch) \/ cli' = d
    BY <1>1, <1>4, StoredKept, CliTypedAt
  <1>5. CASE cli' = [c EXCEPT !.is_arg_found = FALSE, !.state = "VALUE"]
    <2>1. Kept(cli', a) /\ cli'.state = "VALUE"
      BY <1>1, <1>5 DEF Kept, Fields
    <2> QED
      BY <2>1, CliTypedAt
  <1>6. CASE cli' = [ezCli_PrintCommandHelper(c) EXCEPT !.state = "ERROR"]
    <2>1. Kept(ezCli_PrintCommandHelper(c), a)
      BY <1>1, PrintedKept DEF ezCli_PrintCommandHelper
    <2> QED
      BY <1>6, <2>1, StateKept, CliTypedAt
  <1>7. CASE ezCli_ProcessCommand(c)
    BY <1>1, <1>7, ProcessKept
  <1>8. CASE cli' = [d EXCEPT !.is_arg_found = TRUE, !.arg_list[a] = p]
    <2>1. Kept(cli', a) /\ cli'.state = "ARGUMENT"
      BY <1>1, <1>2, <1>8 DEF Kept, Fields
    <2> QED
      BY <2>1, CliTypedAt
  <1>9. CASE cli' = [d EXCEPT !.state = "ERROR"]
    BY <1>1, <1>9, StateKept, CliTypedAt
  <1> QED
    BY <1>3, <1>4, <1>5, <1>6, <1>7, <1>8, <1>9

LEMMA MarksCount ==
  ASSUME NEW m \in 0 .. MarksRange - 1
  PROVE  (m + 1) % MarksRange \in 0 .. MarksRange - 1 /\ 0 \in 0 .. MarksRange - 1
  BY CliAssumption

LEMMA ValueKept ==
  ASSUME NEW self, NEW a, Kept(self, a), a < NumOfArgument, Len(CliCommands) # 0,
         self.curr_index \in 0 .. CliSize - 1, self.state = "VALUE",
         NEW ch, ezCli_HandleStateValue(self, ch)
  PROVE  CliTyped(cli')
  <1> DEFINE p == self.curr_index
             x == Stored(self, ch)
             d == Advanced(self, ch)
             t == Terminated(self)
             complete == [t EXCEPT !.quotation_mark_count = 0, !.is_value_found = FALSE,
                                   !.curr_arg_index = @ + 1]
             start(c) == [c EXCEPT !.is_value_found = TRUE, !.value_list[a] = p]
             quoted == [x EXCEPT !.quotation_mark_count = (@ + 1) % MarksRange]
  <1>1. /\ Kept(x, a) /\ x.state = "VALUE" /\ Kept(d, a) /\ d.state = "VALUE"
        /\ Kept(t, a) /\ t.state = "VALUE"
    BY StoredKept DEF Terminated
  <1>2. a = self.curr_arg_index /\ a \in 0 .. NumOfArgument - 1 /\ p \in Places
        /\ a + 1 \in 0 .. NumOfArgument
    BY CliAssumption DEF Kept, Places
  <1> HIDE DEF p, x, d, t
  <1>3. Kept(quoted, a) /\ quoted.state = "VALUE"
    BY <1>1, MarksCount DEF Kept, Fields
  <1>4. Kept(complete, a + 1) /\ complete.state = "VALUE"
    BY <1>1, <1>2, MarksCount DEF Kept, Fields
  <1>5. ASSUME NEW c, Kept(c, a), c.state = "VALUE"
        PROVE  Kept(start(c), a) /\ start(c).state = "VALUE"
    BY <1>2, <1>5 DEF Kept, Fields
  <1>6. complete.curr_arg_index = a + 1
    BY <1>4 DEF Kept
  <1>7. \/ cli' = [complete EXCEPT !.state = "ARGUMENT"] /\ AnotherArgument(a + 1)
        \/ cli' = [ezCli_PrintCommandHelper(complete) EXCEPT !.state = "ERROR"]
        \/ cli' = d
        \/ cli' = x
        \/ cli' = start(quoted)
        \/ cli' = quoted
        \/ cli' = [quoted EXCEPT !.state = "ERROR"]
        \/ ezCli_ProcessCommand(complete)
        \/ cli' = [x EXCEPT !.state = "ERROR"]
        \/ cli' = start(d)
    BY <1>2, <1>6 DEF ezCli_HandleStateValue, Goes, p, x, d, t
  <1> HIDE DEF complete, quoted, start
  <1>8. CASE cli' = d \/ cli' = x \/ cli' = quoted
    BY <1>1, <1>3, <1>8, CliTypedAt
  <1>9. CASE cli' = start(quoted) \/ cli' = start(d)
    BY <1>1, <1>3, <1>5, <1>9, CliTypedAt
  <1>10. CASE cli' = [quoted EXCEPT !.state = "ERROR"] \/ cli' = [x EXCEPT !.state = "ERROR"]
    BY <1>1, <1>3, <1>10, StateKept, CliTypedAt
  <1>11. CASE ezCli_ProcessCommand(complete)
    BY <1>4, <1>11, ProcessKept
  <1>12. CASE cli' = [ezCli_PrintCommandHelper(complete) EXCEPT !.state = "ERROR"]
    <2>1. Kept(ezCli_PrintCommandHelper(complete), a + 1)
      BY <1>4, PrintedKept DEF ezCli_PrintCommandHelper
    <2> QED
      BY <1>12, <2>1, StateKept, CliTypedAt
  <1>13. CASE cli' = [complete EXCEPT !.state = "ARGUMENT"] /\ AnotherArgument(a + 1)
    <2>1. Kept(cli', a + 1) /\ cli'.state = "ARGUMENT" /\ a + 1 < NumOfArgument
      BY <1>4, <1>13, StateKept DEF AnotherArgument
    <2> QED
      BY <2>1, CliTypedAt
  <1> QED
    BY <1>7, <1>8, <1>9, <1>10, <1>11, <1>12, <1>13

LEMMA RunKept ==
  ASSUME CliIInv, CliTyped(cli), Len(CliCommands) # 0, NEW ch, ezCli_Run(ch)
  PROVE  CliTyped(cli')
  <1> DEFINE self == IF Full(cli) THEN [cli EXCEPT !.state = "ERROR"] ELSE cli
  <1>1. PICK a : /\ Kept(cli, a) /\ (cli.state = "ERROR" \/ a < NumOfArgument)
                 /\ cli.state \in {"COMMAND", "ARGUMENT", "VALUE", "ERROR"}
    BY DEF CliTyped, ShownTo
  <1>2. cli.curr_index \in 0 .. CliSize
    BY DEF CliIInv, Recovers, ParserAt
  <1>3. /\ Kept(self, a) /\ self.curr_index = cli.curr_index
        /\ self.state = "ERROR" \/ (self = cli /\ ~Full(cli) /\ a < NumOfArgument)
        /\ self.state \in {"COMMAND", "ARGUMENT", "VALUE", "ERROR"}
    BY <1>1 DEF Kept, Fields
  <1>4. /\ self.state # "ERROR" => self.curr_index \in 0 .. CliSize - 1
        /\ self.state = "ERROR" \/ a < NumOfArgument
    <2> HIDE DEF self
    <2> QED
      BY <1>2, <1>3, CliAssumption DEF Full
  <1>5. \/ Goes(self)
        \/ self.state = "COMMAND" /\ ezCli_HandleStateCommand(self, ch)
        \/ self.state = "ARGUMENT" /\ ezCli_HandleStateArgument(self, ch)
        \/ self.state = "VALUE" /\ ezCli_HandleStateValue(self, ch)
        \/ self.state = "ERROR" /\ ezCli_HandleStateError(self, ch)
    BY DEF ezCli_Run
  <1> HIDE DEF self
  <1>6. CASE Goes(self)
    BY <1>3, <1>4, <1>6, CliTypedAt DEF Goes
  <1>7. CASE self.state = "COMMAND" /\ ezCli_HandleStateCommand(self, ch)
    BY <1>3, <1>4, <1>7, CommandKept
  <1>8. CASE self.state = "ARGUMENT" /\ ezCli_HandleStateArgument(self, ch)
    BY <1>3, <1>4, <1>8, ArgumentKept
  <1>9. CASE self.state = "VALUE" /\ ezCli_HandleStateValue(self, ch)
    BY <1>3, <1>4, <1>9, ValueKept
  <1>10. CASE self.state = "ERROR" /\ ezCli_HandleStateError(self, ch)
    <2>1. CASE ch = NEWLINE
      <3>1. Kept(cli', 0) /\ cli'.state = "COMMAND"
        BY <1>3, <1>10, <2>1, ResetKept, StateKept DEF ezCli_HandleStateError, Goes
      <3>2. 0 < NumOfArgument
        BY CliAssumption
      <3> QED
        BY <3>1, <3>2, CliTypedAt
    <2>2. CASE ch # NEWLINE
      <3>1. Kept(cli', a) /\ cli'.state = "ERROR"
        BY <1>3, <1>10, <2>2, StoredKept DEF ezCli_HandleStateError, Goes
      <3> QED
        BY <3>1, CliTypedAt
    <2> QED
      BY <2>1, <2>2
  <1> QED
    BY <1>5, <1>6, <1>7, <1>8, <1>9, <1>10

CliTIInv == CliIInv /\ CliTyped(cli) /\ typed \in Lines \cup {NoLine} /\ gap \in BOOLEAN

LEMMA InitCliTIInv ==
  ASSUME Len(CliCommands) # 0, ezCli_Init
  PROVE  CliTIInv
  <1> DEFINE c == [state |-> "COMMAND", buff |-> EmptyBuffer, curr_index |-> 0,
                   curr_cmd_index |-> 1, curr_arg_index |-> 0, arg_list |-> NoPointers,
                   value_list |-> NoPointers, is_arg_found |-> FALSE, is_value_found |-> FALSE,
                   quotation_mark_count |-> 0]
  <1>1. /\ DOMAIN EmptyBuffer = 0 .. CliSize - 1 /\ 0 \in 0 .. NumOfArgument /\ 1 \in 1 .. Len(CliCommands)
        /\ 0 \in 0 .. MarksRange - 1 /\ 0 < NumOfArgument
    BY CliAssumption DEF EmptyBuffer
  <1>2. Kept(c, 0) /\ c.state = "COMMAND"
    BY <1>1, NoPointersAre DEF Kept, Fields
  <1>3. cli = ezCli_ResetStateMachine(c)
    BY DEF ezCli_Init, CliStart
  <1> HIDE DEF c
  <1>4. Kept(cli, 0) /\ cli.state = "COMMAND"
    <2>1. Kept(cli, 0)
      BY <1>2, <1>3, ResetKept
    <2>2. cli.state = "COMMAND"
      BY <1>2, <1>3 DEF ezCli_ResetStateMachine, Kept, Fields
    <2> QED
      BY <2>1, <2>2
  <1>5. CliTyped(cli)
    BY <1>1, <1>4, CliTypedAt
  <1> QED
    BY <1>5, InitCliIInv DEF CliTIInv, ezCli_Init

LEMMA NextCliTIInv ==
  ASSUME Len(CliCommands) # 0, CliTIInv, [CliNext]_cliVars
  PROVE  CliTIInv'
  <1>1. CliIInv'
    BY NextCliIInv DEF CliTIInv
  <1>2. ASSUME NEW l \in Lines, GetInputTaskFunction(l) PROVE CliTIInv'
    BY <1>1, <1>2 DEF GetInputTaskFunction, CliTIInv
  <1>3. CASE CliTaskFunction
    BY <1>1, <1>3, RunKept DEF CliTaskFunction, CliTIInv
  <1>4. CASE GetCharCallbackEmpty
    BY <1>1, <1>4, RunKept DEF GetCharCallbackEmpty, CliTIInv
  <1>5. CASE UNCHANGED cliVars
    BY <1>1, <1>5 DEF cliVars, CliTIInv
  <1> QED
    BY <1>2, <1>3, <1>4, <1>5 DEF CliNext

(* For a table with a command, whatever is typed: an argument's pointer is *)
(* written inside its list and points into the buffer, and the count of    *)
(* quotation marks, which nothing but a value resets, stays a byte.        *)
THEOREM CliTypeCorrect == Len(CliCommands) # 0 /\ CliSpec => []CliTypeOK
  <1> SUFFICES ASSUME Len(CliCommands) # 0 PROVE CliSpec => []CliTypeOK
    OBVIOUS
  <1>1. ezCli_Init => CliTIInv
    BY InitCliTIInv
  <1>2. CliTIInv /\ [CliNext]_cliVars => CliTIInv'
    BY NextCliTIInv
  <1>3. CliTIInv => CliTypeOK
    <2> SUFFICES ASSUME CliTIInv PROVE CliTypeOK
      OBVIOUS
    <2>1. PICK a : Kept(cli, a) /\ cli.state \in {"COMMAND", "ARGUMENT", "VALUE", "ERROR"}
      BY DEF CliTIInv, CliTyped, ShownTo
    <2> QED
      BY <2>1 DEF CliTIInv, CliTypeOK, Kept, Places
  <1> QED
    BY <1>1, <1>2, <1>3, PTL DEF CliSpec

-----------------------------------------------------------------------------
(* The state machines.                                                     *)

AllStates == UNION {SmStates[m] : m \in Machines}

(* The domains that SmTypeOK takes for granted.                            *)
SmDomains ==
  /\ curr_state \in [Machines -> AllStates]
  /\ next_state \in [Machines -> AllStates \cup {NoState}]
  /\ sm_events \in [Machines -> Seq(SmEvents)]
  /\ sent \in [Machines -> Seq(SmEvents)] /\ handled \in [Machines -> Seq(SmEvents)]
  /\ inside \in [Machines -> SUBSET AllStates]
  /\ stage \in [machine : Machines, at : {"idle", "event", "act", "exit", "enter"}]

(* An exit is on the way to a state.                                       *)
ExitsToState == \A m \in Machines : At(m, "exit") => next_state[m] # NoState

(* Between the exit of one state and the end of the enter function of the  *)
(* next a machine is inside of none; otherwise it is where SmSettles says, *)
(* also in the middle of a Run.                                            *)
Settled(m) == inside[m] = IF m \in unentered THEN {} ELSE {curr_state[m]}

InsideAsStaged ==
  \A m \in Machines :
    IF At(m, "enter") THEN inside[m] = {} /\ m \notin unentered ELSE Settled(m)

EventsInOrder == \A m \in Machines : handled[m] \o sm_events[m] = sent[m]

SmIInv == SmDomains /\ SmTypeOK /\ ExitsToState /\ InsideAsStaged /\ EventsInOrder

-----------------------------------------------------------------------------
(* Events move from the queue to the handler, and none is passed over.     *)
LEMMA HandledNext ==
  ASSUME NEW S, NEW h \in Seq(S), NEW q \in Seq(S), q # << >>
  PROVE  Append(h, Head(q)) \o Tail(q) = h \o q
  <1>1. /\ Head(q) \in S /\ Tail(q) \in Seq(S) /\ Len(Tail(q)) = Len(q) - 1
        /\ \A i \in 1 .. Len(q) - 1 : Tail(q)[i] = q[i + 1]
    BY HeadTailProperties
  <1>2. /\ Append(h, Head(q)) \in Seq(S) /\ Len(Append(h, Head(q))) = Len(h) + 1
        /\ \A i \in 1 .. Len(h) : Append(h, Head(q))[i] = h[i]
        /\ Append(h, Head(q))[Len(h) + 1] = q[1]
    BY <1>1, AppendProperties
  <1> DEFINE a == Append(h, Head(q))   t == Tail(q)
  <1> HIDE DEF a, t
  <1>3. a \o t \in Seq(S) /\ Len(a \o t) = Len(a) + Len(t)
    BY <1>1, <1>2, ConcatProperties DEF a, t
  <1>4. h \o q \in Seq(S) /\ Len(h \o q) = Len(h) + Len(q)
    BY ConcatProperties
  <1>5. ASSUME NEW i \in 1 .. Len(h) + Len(q)
        PROVE  (a \o t)[i] = (h \o q)[i]
    <2>1. (h \o q)[i] = IF i <= Len(h) THEN h[i] ELSE q[i - Len(h)]
      BY ConcatProperties
    <2>2. (a \o t)[i] = IF i <= Len(h) + 1 THEN a[i] ELSE t[i - Len(h) - 1]
      BY <1>1, <1>2, ConcatProperties DEF a, t
    <2> QED
      BY <1>1, <1>2, <2>1, <2>2 DEF a, t
  <1> QED
    BY <1>1, <1>2, <1>3, <1>4, <1>5, SeqEqual DEF a, t

LEMMA SentLast ==
  ASSUME NEW S, NEW h \in Seq(S), NEW q \in Seq(S), NEW e \in S
  PROVE  h \o Append(q, e) = Append(h \o q, e)
  OBVIOUS

LEMMA MachineStates ==
  ASSUME NEW m \in Machines
  PROVE  /\ SmStates[m] \subseteq AllStates
         /\ Reported(m) \subseteq AllStates \cup {NoState}
  BY DEF AllStates, Reported

-----------------------------------------------------------------------------
LEMMA InitSmIInv == ezSM_Init => SmIInv
  <1> SUFFICES ASSUME ezSM_Init PROVE SmIInv
    OBVIOUS
  <1> PICK init_state \in [Machines -> UNION {SmStates[m] : m \in Machines} \cup {NoState}],
           reported \in [Machines -> UNION {SmStates[m] : m \in Machines} \cup {NoState}] :
        /\ \A m \in Machines : init_state[m] \in SmStates[m] /\ reported[m] \in Reported(m)
        /\ LET stays(m) == reported[m] \in {NoState, init_state[m]} IN
           /\ curr_state = [m \in Machines |-> IF stays(m) THEN init_state[m] ELSE reported[m]]
           /\ inside = [m \in Machines |-> IF stays(m) THEN {init_state[m]} ELSE {}]
           /\ unentered = {m \in Machines : ~stays(m)}
    BY DEF ezSM_Init
  <1>1. \A m \in Machines : curr_state[m] \in SmStates[m] /\ inside[m] \subseteq SmStates[m]
    BY DEF Reported
  <1>2. stage = [machine |-> "main", at |-> "idle"]
    BY DEF ezSM_Init, smIdle
  <1>3. SmDomains
    BY <1>1, <1>2, MachineStates, EmptySeq DEF SmDomains, ezSM_Init, Machines
  <1>4. SmTypeOK
    BY <1>1, <1>2, SmAssumption, EmptySeq DEF SmTypeOK, ezSM_Init, Machines, Reported
  <1>5. InsideAsStaged
    BY <1>2 DEF InsideAsStaged, Settled, At
  <1>6. EventsInOrder /\ ExitsToState
    BY <1>2, EmptySeq, ConcatEmptySeq DEF EventsInOrder, ExitsToState, ezSM_Init, At
  <1> QED
    BY <1>3, <1>4, <1>5, <1>6 DEF SmIInv

-----------------------------------------------------------------------------
(* ezSM_Run, callback by callback. *)

LEMMA SmRunStep ==
  ASSUME SmIInv, ezSM_Run
  PROVE  SmIInv'
  <1> USE DEF SmIInv
  <1>1. /\ UNCHANGED <<curr_state, sm_events, sent, handled, inside, unentered>>
        /\ stage = [machine |-> "main", at |-> "idle"]
        /\ stage' = [machine |-> "main", at |-> "event"]
        /\ next_state' = [next_state EXCEPT !["main"] = NoState]
    BY DEF ezSM_Run, smIdle, smQueues, smVisits, GoTo
  <1>2. SmDomains'
    BY <1>1 DEF SmDomains, Machines
  <1>3. SmTypeOK'
    BY <1>1 DEF SmTypeOK, SmDomains, Machines, Reported
  <1>4. ExitsToState' /\ InsideAsStaged' /\ EventsInOrder'
    BY <1>1 DEF ExitsToState, InsideAsStaged, EventsInOrder, Settled, At
  <1> QED
    BY <1>2, <1>3, <1>4

LEMMA HandleEventStep ==
  ASSUME SmIInv, NEW m \in Machines, SmHandleEvent(m)
  PROVE  SmIInv'
  <1> USE DEF SmIInv
  <1>1. UNCHANGED <<curr_state, sent, inside, unentered>> /\ At(m, "event") /\ GoTo(m, "act")
    BY DEF SmHandleEvent, smVisits
  <1>2. ExitsToState' /\ InsideAsStaged'
    BY <1>1 DEF ExitsToState, InsideAsStaged, Settled, At, GoTo
  <1>3. CASE ~SmHandlesEvent(m)
    <2>1. UNCHANGED <<next_state, sm_events, handled>>
      BY <1>3 DEF SmHandleEvent
    <2> QED
      BY <1>1, <1>2, <2>1 DEF SmDomains, SmTypeOK, EventsInOrder, GoTo
  <1>4. CASE SmHandlesEvent(m)
    <2> DEFINE a == Append(handled[m], Head(sm_events[m]))
               t == Tail(sm_events[m])
    <2>1. PICK s \in Reported(m) :
            /\ sm_events' = [sm_events EXCEPT ![m] = t]
            /\ handled' = [handled EXCEPT ![m] = a]
            /\ next_state' = [next_state EXCEPT ![m] = s]
      BY <1>4 DEF SmHandleEvent
    <2>2. /\ handled[m] \in Seq(SmEvents) /\ sm_events[m] \in Seq(SmEvents)
          /\ sm_events[m] # << >>
      BY <1>4 DEF SmHandlesEvent, SmDomains
    <2>3. Head(sm_events[m]) \in SmEvents /\ t \in Seq(SmEvents) /\ Len(t) = Len(sm_events[m]) - 1
      BY <2>2, HeadTailProperties
    <2>4. a \in Seq(SmEvents)
      BY <2>2, <2>3, AppendProperties
    <2>5. a \o t = handled[m] \o sm_events[m]
      BY <2>2, HandledNext, Zenon
    <2>6. Len(t) <= SmCapacity
      BY <2>2, <2>3, SmAssumption, LenProperties DEF SmTypeOK
    <2>7. s \in AllStates \cup {NoState}
      BY <2>1, MachineStates
    <2> HIDE DEF a, t
    <2>8. SmDomains'
      BY <1>1, <2>1, <2>3, <2>4, <2>7 DEF SmDomains, GoTo
    <2>9. SmTypeOK'
      BY <1>1, <2>1, <2>3, <2>6 DEF SmDomains, SmTypeOK, GoTo
    <2>10. EventsInOrder'
      BY <1>1, <2>1, <2>5 DEF SmDomains, EventsInOrder
    <2> QED
      BY <1>2, <2>8, <2>9, <2>10
  <1> QED
    BY <1>3, <1>4

LEMMA ActStep ==
  ASSUME SmIInv, NEW m \in Machines, SmAct(m)
  PROVE  SmIInv'
  <1> USE DEF SmIInv
  <1>1. /\ UNCHANGED <<curr_state, sm_events, sent, handled, inside, unentered>>
        /\ stage.machine = m /\ stage.at = "act"
    BY DEF SmAct, smQueues, smVisits, At
  <1>2. \/ GoTo("sub", "event") /\ next_state' = [next_state EXCEPT !["sub"] = NoState]
        \/ \E s \in Reported(m) :
             /\ next_state' = [next_state EXCEPT ![m] = s]
             /\ \/ s = NoState /\ stage' = smIdle
                \/ s # NoState /\ GoTo(m, "exit")
    <2>1. CASE next_state[m] # NoState
      <3>1. GoTo(m, "exit") /\ next_state' = next_state
        BY <2>1 DEF SmAct
      <3>2. next_state[m] \in Reported(m) /\ next_state = [next_state EXCEPT ![m] = next_state[m]]
        BY DEF SmTypeOK, SmDomains
      <3> QED
        BY <2>1, <3>1, <3>2
    <2>2. CASE next_state[m] = NoState
      BY <2>2 DEF SmAct, Reported
    <2> QED
      BY <2>1, <2>2
  <1>3. SmDomains'
    BY <1>1, <1>2, MachineStates DEF SmDomains, GoTo, smIdle, Machines
  <1>4. SmTypeOK'
    BY <1>1, <1>2 DEF SmTypeOK, SmDomains, GoTo, smIdle, Machines, Reported
  <1>5. ExitsToState' /\ InsideAsStaged' /\ EventsInOrder'
    BY <1>1, <1>2
    DEF ExitsToState, InsideAsStaged, EventsInOrder, Settled, At, GoTo, smIdle, SmDomains
  <1> QED
    BY <1>3, <1>4, <1>5

LEMMA ExitStep ==
  ASSUME SmIInv, NEW m \in Machines, SmExit(m)
  PROVE  SmIInv'
  <1> USE DEF SmIInv
  <1>1. PICK s \in SmStates[m] :
          /\ curr_state' = [curr_state EXCEPT ![m] = s]
          /\ Entering(m, s, inside[m] \ {curr_state[m]})
    <2>1. next_state[m] # NoState /\ next_state[m] \in SmStates[m]
      BY DEF SmExit, ExitsToState, SmTypeOK, Reported
    <2> QED
      BY <2>1 DEF SmExit, Reported
  <1>2. UNCHANGED <<next_state, sm_events, sent, handled>> /\ At(m, "exit")
    BY DEF SmExit, smQueues
  <1>3. inside[m] \ {curr_state[m]} = {}
    BY <1>2 DEF InsideAsStaged, Settled, At
  <1>4. /\ unentered' = unentered \ {m}
        /\ \/ stage' = [machine |-> m, at |-> "enter"] /\ inside' = [inside EXCEPT ![m] = {}]
           \/ stage' = [machine |-> "main", at |-> "idle"] /\ inside' = [inside EXCEPT ![m] = {s}]
    BY <1>1, <1>3 DEF Entering, GoTo, smIdle
  <1>5. SmDomains'
    BY <1>1, <1>2, <1>4, MachineStates DEF SmDomains, Machines
  <1>6. SmTypeOK'
    BY <1>1, <1>2, <1>4 DEF SmTypeOK, SmDomains, Machines
  <1>7. ExitsToState'
    BY <1>4 DEF ExitsToState, At
  <1>8. EventsInOrder'
    BY <1>2 DEF EventsInOrder
  <1>9. ASSUME NEW k \in Machines
        PROVE  (IF At(k, "enter") THEN inside[k] = {} /\ k \notin unentered ELSE Settled(k))'
    <2>1. CASE k = m
      <3>1. curr_state'[m] = s /\ m \notin unentered'
        BY <1>1, <1>4 DEF SmDomains
      <3>2. \/ At(m, "enter")' /\ inside'[m] = {}
            \/ ~At(m, "enter")' /\ inside'[m] = {s}
        BY <1>4 DEF At, SmDomains
      <3> QED
        BY <2>1, <3>1, <3>2 DEF Settled
    <2>2. CASE k # m
      <3>1. ~At(k, "enter") /\ ~At(k, "enter")'
        BY <1>2, <1>4, <2>2 DEF At
      <3>2. /\ inside'[k] = inside[k] /\ curr_state'[k] = curr_state[k]
            /\ k \in unentered' <=> k \in unentered
        BY <1>1, <1>2, <1>4, <2>2 DEF SmDomains
      <3> QED
        BY <3>1, <3>2 DEF InsideAsStaged, Settled
    <2> QED
      BY <2>1, <2>2
  <1> QED
    BY <1>5, <1>6, <1>7, <1>8, <1>9 DEF InsideAsStaged

LEMMA EnterStep ==
  ASSUME SmIInv, NEW m \in Machines, SmEnter(m)
  PROVE  SmIInv'
  <1> USE DEF SmIInv
  <1>1. PICK r \in Reported(m) : SmEnterReports(m, r)
    BY DEF SmEnter
  <1>2. UNCHANGED <<next_state, sm_events, sent, handled, unentered>> /\ At(m, "enter")
    BY DEF SmEnter, smQueues
  <1>3. inside[m] = {} /\ m \notin unentered
    BY <1>2 DEF InsideAsStaged
  <1>4. \/ /\ inside' = [inside EXCEPT ![m] = {curr_state[m]}] /\ curr_state' = curr_state
           /\ stage' = [machine |-> "main", at |-> "idle"]
        \/ /\ r \in SmStates[m] /\ curr_state' = [curr_state EXCEPT ![m] = r]
           /\ UNCHANGED <<stage, inside>>
    <2>1. inside[m] \cup {curr_state[m]} = {curr_state[m]}
      BY <1>3
    <2> QED
      BY <1>1, <2>1 DEF SmEnterReports, Reported, smIdle
  <1>5. SmDomains'
    BY <1>2, <1>4, MachineStates DEF SmDomains, Machines
  <1>6. SmTypeOK'
    BY <1>2, <1>4 DEF SmTypeOK, SmDomains, Machines
  <1>7. ExitsToState'
    BY <1>2, <1>4 DEF ExitsToState, At
  <1>8. EventsInOrder'
    BY <1>2 DEF EventsInOrder
  <1>9. ASSUME NEW k \in Machines
        PROVE  (IF At(k, "enter") THEN inside[k] = {} /\ k \notin unentered ELSE Settled(k))'
    <2>1. CASE k = m
      <3>1. CASE stage' = stage
        BY <1>2, <1>3, <1>4, <2>1, <3>1 DEF At
      <3>2. CASE stage' # stage
        <4>1. /\ inside'[m] = {curr_state[m]} /\ curr_state' = curr_state
              /\ stage' = [machine |-> "main", at |-> "idle"]
          BY <1>4, <3>2 DEF SmDomains
        <4>2. ~At(m, "enter")'
          BY <4>1 DEF At
        <4> QED
          BY <1>2, <1>3, <2>1, <4>1, <4>2 DEF Settled
      <3> QED
        BY <3>1, <3>2
    <2>2. CASE k # m
      <3>1. ~At(k, "enter") /\ ~At(k, "enter")'
        BY <1>2, <1>4, <2>2 DEF At
      <3>2. /\ inside'[k] = inside[k] /\ curr_state'[k] = curr_state[k]
            /\ k \in unentered' <=> k \in unentered
        BY <1>2, <1>4, <2>2 DEF SmDomains
      <3> QED
        BY <3>1, <3>2 DEF InsideAsStaged, Settled
    <2> QED
      BY <2>1, <2>2
  <1> QED
    BY <1>5, <1>6, <1>7, <1>8, <1>9 DEF InsideAsStaged

-----------------------------------------------------------------------------
(* The calls of the application and of interrupts. *)

LEMMA SetEventStep ==
  ASSUME SmIInv, NEW m \in Machines, NEW e \in SmEvents, ezSM_SetEvent(m, e)
  PROVE  SmIInv'
  <1> USE DEF SmIInv
  <1>1. /\ Append(sm_events[m], e) \in Seq(SmEvents) /\ Append(sent[m], e) \in Seq(SmEvents)
        /\ Len(Append(sm_events[m], e)) = Len(sm_events[m]) + 1
    BY AppendProperties DEF SmDomains
  <1>2. SmDomains'
    BY <1>1 DEF ezSM_SetEvent, SmDomains, smVisits
  <1>3. SmTypeOK'
    BY <1>1, SmAssumption, LenProperties DEF ezSM_SetEvent, SmDomains, SmTypeOK, smVisits
  <1>4. ExitsToState' /\ InsideAsStaged'
    BY DEF ezSM_SetEvent, ExitsToState, InsideAsStaged, Settled, At, smVisits
  <1>5. EventsInOrder'
    <2>1. /\ handled[m] \in Seq(SmEvents) /\ sm_events[m] \in Seq(SmEvents)
          /\ handled[m] \o sm_events[m] = sent[m]
      BY DEF EventsInOrder, SmDomains
    <2>2. ASSUME NEW h \in Seq(SmEvents), NEW q \in Seq(SmEvents)
          PROVE  h \o Append(q, e) = Append(h \o q, e)
      BY SentLast
    <2> DEFINE q == Append(sm_events[m], e)
               u == Append(sent[m], e)
    <2>3. /\ sm_events' = [sm_events EXCEPT ![m] = q] /\ sent' = [sent EXCEPT ![m] = u]
          /\ handled' = handled
      BY DEF ezSM_SetEvent
    <2>4. handled[m] \o q = u
      BY <2>1, <2>2
    <2> HIDE DEF q, u
    <2> QED
      BY <2>1, <2>2, <2>3, <2>4 DEF EventsInOrder, SmDomains
  <1> QED
    BY <1>2, <1>3, <1>4, <1>5

LEMMA ClearStep ==
  ASSUME SmIInv, NEW m \in Machines, ezSM_ClearAllEvents(m)
  PROVE  SmIInv'
  <1> USE DEF SmIInv
  <1>1. << >> \in Seq(SmEvents) /\ Len(<< >>) = 0 /\ << >> \o << >> = << >>
    BY EmptySeq, ConcatEmptySeq
  <1>2. SmDomains' /\ EventsInOrder'
    BY <1>1 DEF ezSM_ClearAllEvents, SmDomains, EventsInOrder, smVisits
  <1>3. SmTypeOK'
    BY <1>1, SmAssumption DEF ezSM_ClearAllEvents, SmDomains, SmTypeOK, smVisits
  <1>4. ExitsToState' /\ InsideAsStaged'
    BY DEF ezSM_ClearAllEvents, ExitsToState, InsideAsStaged, Settled, At, smVisits
  <1> QED
    BY <1>2, <1>3, <1>4

LEMMA SetStateStep ==
  ASSUME SmIInv, NEW m \in Machines, NEW s \in SmStates[m], ezSM_SetState(m, s)
  PROVE  SmIInv'
  <1> USE DEF SmIInv
  <1>1. stage = smIdle /\ UNCHANGED <<stage, next_state, sm_events, sent, handled>>
    BY DEF ezSM_SetState, smQueues
  <1>2. inside[m] \ {curr_state[m]} = {}
    BY <1>1 DEF InsideAsStaged, Settled, At, smIdle
  <1>3. /\ inside' = [inside EXCEPT ![m] = {s}] /\ curr_state' = [curr_state EXCEPT ![m] = s]
        /\ unentered' = unentered \ {m}
    BY <1>2 DEF ezSM_SetState
  <1>4. SmDomains'
    BY <1>1, <1>3, MachineStates DEF SmDomains
  <1>5. SmTypeOK'
    BY <1>1, <1>3 DEF SmTypeOK, SmDomains
  <1>6. ExitsToState' /\ InsideAsStaged' /\ EventsInOrder'
    BY <1>1, <1>3
    DEF ExitsToState, InsideAsStaged, EventsInOrder, Settled, At, smIdle, SmDomains
  <1> QED
    BY <1>4, <1>5, <1>6

LEMMA NextSmIInv == SmIInv /\ [SmNext]_smVars => SmIInv'
  <1> SUFFICES ASSUME SmIInv, [SmNext]_smVars PROVE SmIInv'
    OBVIOUS
  <1>1. CASE UNCHANGED smVars
    BY <1>1 DEF smVars, SmIInv, SmDomains, SmTypeOK, ExitsToState, InsideAsStaged, EventsInOrder,
                Settled, At
  <1> QED
    BY <1>1, SmRunStep, HandleEventStep, ActStep, ExitStep, EnterStep, SetEventStep, ClearStep,
       SetStateStep DEF SmNext

(* The inductive invariant.                                                *)
THEOREM SmInvariance == SmSpec => []SmIInv
  <1> QED
    BY InitSmIInv, NextSmIInv, PTL DEF SmSpec

(* Every state, event and pointer of both machines has its type, and the   *)
(* events fit the buffer.                                                  *)
THEOREM SmTypeCorrect == SmSpec => []SmTypeOK
  <1>1. SmIInv => SmTypeOK
    BY DEF SmIInv
  <1> QED
    BY <1>1, SmInvariance, PTL

(* Whatever enter, exit, action and event functions report, and whenever   *)
(* events are set, a machine is inside of its current state alone when Run *)
(* has returned, and handles each event once and in order.                 *)
THEOREM AlwaysSettles == SmSpec => []SmSettles
  <1>1. SmIInv => SmSettles
    <2> SUFFICES ASSUME SmIInv, NEW m \in Machines
                 PROVE  /\ stage = smIdle =>
                             inside[m] = IF m \in unentered THEN {} ELSE {curr_state[m]}
                        /\ handled[m] \o sm_events[m] = sent[m]
      BY DEF SmSettles, ezSM_GetCurrState
    <2>1. stage = smIdle => ~At(m, "enter")
      BY DEF At, smIdle
    <2> QED
      BY <2>1 DEF SmIInv, InsideAsStaged, EventsInOrder, Settled
  <1> QED
    BY <1>1, SmInvariance, PTL

-----------------------------------------------------------------------------
(* The data model.                                                         *)

(* A table, and what the assertions of AllocateDataPoints leave of it.     *)
Table(t, n) ==
  /\ n \in Nat \ {0} /\ n = Len(t) /\ DOMAIN t = 1 .. n
  /\ \A i \in 1 .. n : t[i].index \in Nat /\ t[i].index # DATA_POINT_INVALID /\ t[i].size \in Nat

LEMMA Invalid == DATA_POINT_INVALID \in Int
  BY DmAssumption DEF DATA_POINT_INVALID

LEMMA PointTable ==
  ASSUME NEW t \in PointTables
  PROVE  Table(t, Len(t))
  <1>1. t # << >> /\ t \in Seq([index : 0 .. DATA_POINT_INVALID - 1, size : Nat])
    BY DmAssumption
  <1>2. Len(t) \in Nat \ {0} /\ DOMAIN t = 1 .. Len(t)
    BY <1>1, LenProperties, EmptySeq
  <1>3. ASSUME NEW i \in 1 .. Len(t)
        PROVE  t[i].index \in Nat /\ t[i].index # DATA_POINT_INVALID /\ t[i].size \in Nat
    <2>1. t[i] \in [index : 0 .. DATA_POINT_INVALID - 1, size : Nat]
      BY <1>1, ElementOfSeq
    <2>2. t[i].index \in 0 .. DATA_POINT_INVALID - 1 /\ t[i].size \in Nat
      BY <2>1
    <2> QED
      BY <2>2, Invalid
  <1> QED
    BY <1>2, <1>3 DEF Table

(* The offsets: each point starts where the one before it ends.            *)

IsOffsets(at, t, m) == at = [i \in 1 .. m |-> IF i = 1 THEN 0 ELSE at[i - 1] + t[i - 1].size]

LEMMA OffsetsExist ==
  ASSUME NEW t, NEW m \in Nat
  PROVE  \E at : IsOffsets(at, t, m)
  <1> DEFINE T == {k \in Nat : ~ \E at : IsOffsets(at, t, k)}
  <1>1. SUFFICES ASSUME T # {} PROVE FALSE
    OBVIOUS
  <1>2. PICK k \in T : \A y \in T : k <= y
    BY <1>1, Smallest
  <1>3. k \in Nat /\ ~ \E at : IsOffsets(at, t, k)
    OBVIOUS
  <1>4. CASE k = 0
    <2> DEFINE at == [i \in 1 .. 0 |-> 0]
    <2>1. IsOffsets(at, t, 0)
      BY DEF IsOffsets
    <2> QED
      BY <1>3, <1>4, <2>1
  <1>5. CASE k # 0
    <2>1. k - 1 \in Nat /\ k - 1 \notin T
      BY <1>2, <1>3, <1>5
    <2>2. PICK f : IsOffsets(f, t, k - 1)
      BY <2>1
    <2> DEFINE last == IF k = 1 THEN 0 ELSE f[k - 1] + t[k - 1].size
               at == [i \in 1 .. k |-> IF i = k THEN last ELSE f[i]]
    <2>3. ASSUME NEW i \in 1 .. k
          PROVE  at[i] = IF i = 1 THEN 0 ELSE at[i - 1] + t[i - 1].size
      <3>1. CASE i = k
        <4>1. i # 1 => i - 1 \in 1 .. k /\ i - 1 # k
          BY <1>3, <3>1
        <4> QED
          BY <3>1, <4>1
      <3>2. CASE i # k
        <4>1. i \in 1 .. k - 1 /\ (i # 1 => i - 1 \in 1 .. k - 1 /\ i - 1 \in 1 .. k /\ i - 1 # k)
          BY <1>3, <3>2
        <4>2. f[i] = IF i = 1 THEN 0 ELSE f[i - 1] + t[i - 1].size
          BY <2>2, <4>1 DEF IsOffsets
        <4> QED
          BY <3>2, <4>1, <4>2
      <3> QED
        BY <3>1, <3>2
    <2>4. at = [i \in 1 .. k |-> at[i]]
      OBVIOUS
    <2> HIDE DEF at
    <2>5. at = [i \in 1 .. k |-> IF i = 1 THEN 0 ELSE at[i - 1] + t[i - 1].size]
      BY <2>3, <2>4
    <2> QED
      BY <1>3, <2>5 DEF IsOffsets
  <1> QED
    BY <1>4, <1>5

LEMMA OffsetsAre ==
  ASSUME NEW t, NEW n, Table(t, n)
  PROVE  IsOffsets(DmOffsets(t), t, n)
  <1>1. \E at : IsOffsets(at, t, Len(t))
    BY OffsetsExist DEF Table
  <1>2. DmOffsets(t) = CHOOSE at : IsOffsets(at, t, Len(t))
    BY DEF DmOffsets, IsOffsets
  <1>3. IsOffsets(DmOffsets(t), t, Len(t))
    BY <1>1, <1>2
  <1> QED
    BY <1>3 DEF Table

LEMMA OffsetsNat ==
  ASSUME NEW t, NEW n, Table(t, n), NEW at, IsOffsets(at, t, n)
  PROVE  \A i \in 1 .. n : at[i] \in Nat
  <1>0. n \in Nat
    BY DEF Table
  <1> DEFINE T == {i \in 1 .. n : at[i] \notin Nat}
  <1>1. SUFFICES ASSUME T # {} PROVE FALSE
    OBVIOUS
  <1>2. T \in SUBSET Nat
    BY <1>0
  <1>3. PICK i \in T : \A y \in T : i <= y
    BY <1>1, <1>2, Smallest
  <1>4. i \in 1 .. n /\ at[i] \notin Nat
    OBVIOUS
  <1>5. at[i] = IF i = 1 THEN 0 ELSE at[i - 1] + t[i - 1].size
    BY <1>4 DEF IsOffsets
  <1>6. CASE i = 1
    BY <1>4, <1>5, <1>6
  <1>7. CASE i # 1
    <2>1. i - 1 \in 1 .. n /\ i - 1 \notin T
      BY <1>0, <1>3, <1>4, <1>7
    <2>2. at[i - 1] \in Nat /\ t[i - 1].size \in Nat
      BY <2>1 DEF Table
    <2> QED
      BY <1>4, <1>5, <1>7, <2>2
  <1> QED
    BY <1>6, <1>7

(* So the bytes of an earlier point lie before those of a later one.       *)
LEMMA OffsetsGrow ==
  ASSUME NEW t, NEW n, Table(t, n), NEW at, IsOffsets(at, t, n), NEW i \in 1 .. n
  PROVE  \A j \in 1 .. n : i < j => at[i] + t[i].size <= at[j]
  <1>0. n \in Nat /\ \A k \in 1 .. n : at[k] \in Nat /\ t[k].size \in Nat
    BY OffsetsNat DEF Table
  <1> DEFINE T == {j \in 1 .. n : i < j /\ ~ (at[i] + t[i].size <= at[j])}
  <1>1. SUFFICES ASSUME T # {} PROVE FALSE
    OBVIOUS
  <1>2. T \in SUBSET Nat
    BY <1>0
  <1>3. PICK j \in T : \A y \in T : j <= y
    BY <1>1, <1>2, Smallest
  <1>4. j \in 1 .. n /\ i < j /\ ~ (at[i] + t[i].size <= at[j])
    OBVIOUS
  <1>5. j # 1 /\ j - 1 \in 1 .. n /\ j - 1 \notin T /\ i \in Nat
    BY <1>0, <1>3, <1>4
  <1>6. at[j] = at[j - 1] + t[j - 1].size
    BY <1>4, <1>5 DEF IsOffsets
  <1>7. CASE j - 1 = i
    BY <1>0, <1>4, <1>6, <1>7
  <1>8. CASE j - 1 # i
    <2>1. i < j - 1
      BY <1>0, <1>4, <1>8
    <2>2. at[i] + t[i].size <= at[j - 1]
      BY <1>5, <2>1
    <2> QED
      BY <1>0, <1>4, <1>5, <1>6, <2>2
  <1> QED
    BY <1>7, <1>8

-----------------------------------------------------------------------------
(* The binary search, on a table whose indices increase.                   *)

Sorted(t, n) == \A i, j \in 1 .. n : i < j => t[i].index < t[j].index

LEMMA AcceptedIsSorted ==
  ASSUME NEW t, NEW n, Table(t, n), ezDataModel_AllocateDataPoints(t)
  PROVE  Sorted(t, n)
  <1>0. n \in Nat /\ n = Len(t) /\ \A k \in 1 .. n : t[k].index \in Nat
    BY DEF Table
  <1> SUFFICES ASSUME NEW i \in 1 .. n
               PROVE  \A j \in 1 .. n : i < j => t[i].index < t[j].index
    BY DEF Sorted
  <1> DEFINE T == {j \in 1 .. n : i < j /\ ~ (t[i].index < t[j].index)}
  <1>1. SUFFICES ASSUME T # {} PROVE FALSE
    OBVIOUS
  <1>2. T \in SUBSET Nat
    BY <1>0
  <1>3. PICK j \in T : \A y \in T : j <= y
    BY <1>1, <1>2, Smallest
  <1>4. j \in 1 .. n /\ i < j /\ ~ (t[i].index < t[j].index)
    OBVIOUS
  <1>5. j > 1 /\ j - 1 \in 1 .. n /\ j - 1 \notin T
    BY <1>0, <1>3, <1>4
  <1>6. t[j - 1].index < t[j].index
    BY <1>0, <1>4, <1>5 DEF ezDataModel_AllocateDataPoints
  <1>7. CASE j - 1 = i
    BY <1>4, <1>6, <1>7
  <1>8. CASE j - 1 # i
    <2>1. i < j - 1
      BY <1>0, <1>4, <1>8
    <2>2. t[i].index < t[j - 1].index
      BY <1>5, <2>1
    <2> QED
      BY <1>0, <1>4, <1>5, <1>6, <2>2
  <1> QED
    BY <1>7, <1>8

Mid(h) == h[1] + (h[2] - h[1]) \div 2

Hit(t, index, h) == h[1] < h[2] /\ t[Mid(h) + 1].index = index

Narrowed(t, index, h) ==
  IF h[1] >= h[2] \/ Hit(t, index, h) THEN h ELSE Halved(t, index, h[1], h[2])

IsSearch(after, t, index, m) ==
  after = [k \in 0 .. m |->
             IF k = 0 THEN <<0, Len(t)>> ELSE Narrowed(t, index, after[k - 1])]

LEMMA SearchExists ==
  ASSUME NEW t, NEW index, NEW m \in Nat
  PROVE  \E at : IsSearch(at, t, index, m)
  <1> DEFINE T == {k \in Nat : ~ \E at : IsSearch(at, t, index, k)}
  <1>1. SUFFICES ASSUME T # {} PROVE FALSE
    OBVIOUS
  <1>2. PICK k \in T : \A y \in T : k <= y
    BY <1>1, Smallest
  <1>3. k \in Nat /\ ~ \E at : IsSearch(at, t, index, k)
    OBVIOUS
  <1>4. CASE k = 0
    <2> DEFINE at == [i \in 0 .. 0 |-> <<0, Len(t)>>]
    <2>1. IsSearch(at, t, index, 0)
      BY DEF IsSearch
    <2> QED
      BY <1>3, <1>4, <2>1
  <1>5. CASE k # 0
    <2>1. k - 1 \in Nat /\ k - 1 \notin T
      BY <1>2, <1>3, <1>5
    <2>2. PICK f : IsSearch(f, t, index, k - 1)
      BY <2>1
    <2> DEFINE last == Narrowed(t, index, f[k - 1])
               at == [i \in 0 .. k |-> IF i = k THEN last ELSE f[i]]
    <2> HIDE DEF last
    <2>3. ASSUME NEW i \in 0 .. k
          PROVE  at[i] = IF i = 0 THEN <<0, Len(t)>> ELSE Narrowed(t, index, at[i - 1])
      <3>1. CASE i = k
        <4>1. i # 0 /\ i - 1 \in 0 .. k /\ i - 1 # k
          BY <1>3, <1>5, <3>1
        <4>2. at[i] = last /\ at[i - 1] = f[k - 1]
          BY <3>1, <4>1
        <4> QED
          BY <4>1, <4>2 DEF last
      <3>2. CASE i # k
        <4>1. i \in 0 .. k - 1 /\ (i # 0 => i - 1 \in 0 .. k - 1 /\ i - 1 \in 0 .. k /\ i - 1 # k)
          BY <1>3, <3>2
        <4>2. f[i] = IF i = 0 THEN <<0, Len(t)>> ELSE Narrowed(t, index, f[i - 1])
          BY <2>2, <4>1 DEF IsSearch
        <4> QED
          BY <3>2, <4>1, <4>2
      <3> QED
        BY <3>1, <3>2
    <2>4. at = [i \in 0 .. k |-> at[i]]
      OBVIOUS
    <2> HIDE DEF at
    <2>5. at = [i \in 0 .. k |-> IF i = 0 THEN <<0, Len(t)>> ELSE Narrowed(t, index, at[i - 1])]
      BY <2>3, <2>4
    <2> QED
      BY <1>3, <2>5 DEF IsSearch
  <1> QED
    BY <1>4, <1>5

(* What the search gives, from the interval after as many rounds as the    *)
(* table has points.                                                       *)
FoundIn(t, index, h) == IF Hit(t, index, h) THEN Mid(h) + 1 ELSE 0

LEMMA SearchIs ==
  ASSUME NEW t, NEW n, Table(t, n), NEW index
  PROVE  \E after : /\ IsSearch(after, t, index, n)
                    /\ ezDataModel_FindDataPointByIndex(t, index) = FoundIn(t, index, after[n])
  <1> DEFINE after == CHOOSE at : IsSearch(at, t, index, Len(t))
  <1>1. \E at : IsSearch(at, t, index, Len(t))
    BY SearchExists DEF Table
  <1>2. IsSearch(after, t, index, Len(t))
    BY <1>1
  <1>3. ezDataModel_FindDataPointByIndex(t, index) = FoundIn(t, index, after[Len(t)])
    BY DEF ezDataModel_FindDataPointByIndex, FoundIn, IsSearch, Narrowed, Hit, Mid
  <1> HIDE DEF after
  <1> QED
    BY <1>2, <1>3 DEF Table

(* After k rounds: a point with this index, if there is one, is in the     *)
(* interval, which has become smaller by k unless the point is found.      *)
Searching(t, n, index, h, k) ==
  /\ h[1] \in Nat /\ h[2] \in Nat /\ h[1] <= h[2] /\ h[2] <= n
  /\ \A i \in 1 .. n : t[i].index = index => h[1] + 1 <= i /\ i <= h[2]
  /\ Hit(t, index, h) \/ h[1] >= h[2] \/ h[2] - h[1] <= n - k

LEMMA MidBetween ==
  ASSUME NEW l \in Nat, NEW r \in Nat, l < r
  PROVE  /\ l + (r - l) \div 2 \in Nat
         /\ l <= l + (r - l) \div 2 /\ l + (r - l) \div 2 < r
  <1>1. \A d \in Nat \ {0} : d \div 2 \in Nat /\ d \div 2 < d
    OBVIOUS
  <1>2. r - l \in Nat \ {0}
    OBVIOUS
  <1>3. (r - l) \div 2 \in Nat /\ (r - l) \div 2 < r - l
    BY <1>1, <1>2
  <1> QED
    BY <1>3

LEMMA SearchStep ==
  ASSUME NEW t, NEW n, Table(t, n), Sorted(t, n), NEW index \in Int, NEW h, NEW k \in Nat,
         Searching(t, n, index, h, k)
  PROVE  Searching(t, n, index, Narrowed(t, index, h), k + 1)
  <1>0. n \in Nat /\ \A i \in 1 .. n : t[i].index \in Nat
    BY DEF Table
  <1>1. CASE h[1] >= h[2] \/ Hit(t, index, h)
    <2>1. Narrowed(t, index, h) = h
      BY <1>1 DEF Narrowed
    <2> QED
      BY <1>1, <2>1 DEF Searching
  <1>2. CASE ~ (h[1] >= h[2]) /\ ~ Hit(t, index, h)
    <2> DEFINE l == h[1]
               r == h[2]
               mid == l + (r - l) \div 2
               g == Narrowed(t, index, h)
    <2>1. /\ l \in Nat /\ r \in Nat /\ l < r /\ r <= n /\ r - l <= n - k
          /\ \A i \in 1 .. n : t[i].index = index => l + 1 <= i /\ i <= r
      BY <1>2 DEF Searching
    <2>2. mid \in Nat /\ l <= mid /\ mid < r
      BY <2>1, MidBetween
    <2>3. t[mid + 1].index # index
      BY <1>2, <2>1 DEF Hit, Mid
    <2>4. g = IF index < t[mid + 1].index THEN <<l, mid>> ELSE <<mid + 1, r>>
      BY <1>2 DEF Narrowed, Halved
    <2> HIDE DEF mid, l, r, g
    <2>5. mid + 1 \in 1 .. n /\ t[mid + 1].index \in Nat
      BY <1>0, <2>1, <2>2
    <2>6. CASE index < t[mid + 1].index
      <3>1. g[1] = l /\ g[2] = mid
        BY <2>4, <2>6
      <3>2. ASSUME NEW i \in 1 .. n, t[i].index = index
            PROVE  l + 1 <= i /\ i <= mid
        <4>1. ~ (mid + 1 < i) /\ i # mid + 1
          BY <1>0, <2>5, <2>6, <3>2 DEF Sorted
        <4> QED
          BY <1>0, <2>1, <2>2, <3>2, <4>1
      <3>3. mid - l <= n - (k + 1) /\ mid <= n
        BY <1>0, <2>1, <2>2
      <3>4. Searching(t, n, index, g, k + 1)
        BY <2>1, <2>2, <3>1, <3>2, <3>3 DEF Searching
      <3> QED
        BY <3>4 DEF g
    <2>7. CASE ~ (index < t[mid + 1].index)
      <3>1. g[1] = mid + 1 /\ g[2] = r
        BY <2>4, <2>7
      <3>2. ASSUME NEW i \in 1 .. n, t[i].index = index
            PROVE  (mid + 1) + 1 <= i /\ i <= r
        <4>1. ~ (i < mid + 1) /\ i # mid + 1
          BY <1>0, <2>3, <2>5, <2>7, <3>2 DEF Sorted
        <4> QED
          BY <1>0, <2>1, <2>2, <3>2, <4>1
      <3>3. r - (mid + 1) <= n - (k + 1) /\ mid + 1 \in Nat /\ mid + 1 <= r
        BY <1>0, <2>1, <2>2
      <3>4. Searching(t, n, index, g, k + 1)
        BY <2>1, <2>2, <3>1, <3>2, <3>3 DEF Searching
      <3> QED
        BY <3>4 DEF g
    <2> QED
      BY <2>6, <2>7
  <1> QED
    BY <1>1, <1>2

LEMMA SearchInvariant ==
  ASSUME NEW t, NEW n, Table(t, n), Sorted(t, n), NEW index \in Int, NEW after,
         IsSearch(after, t, index, n)
  PROVE  \A k \in 0 .. n : Searching(t, n, index, after[k], k)
  <1>0. n \in Nat /\ n = Len(t) /\ \A k \in 1 .. n : t[k].index \in Nat
    BY DEF Table
  <1> DEFINE T == {k \in 0 .. n : ~ Searching(t, n, index, after[k], k)}
  <1>1. SUFFICES ASSUME T # {} PROVE FALSE
    OBVIOUS
  <1>2. T \in SUBSET Nat
    BY <1>0
  <1>3. PICK k \in T : \A y \in T : k <= y
    BY <1>1, <1>2, Smallest
  <1>4. k \in 0 .. n /\ ~ Searching(t, n, index, after[k], k)
    OBVIOUS
  <1>5. CASE k = 0
    <2>1. after[k] = <<0, n>>
      BY <1>0, <1>4, <1>5 DEF IsSearch
    <2>2. after[k][1] = 0 /\ after[k][2] = n
      BY <2>1
    <2>3. Searching(t, n, index, after[k], k)
      BY <1>0, <1>5, <2>2 DEF Searching
    <2> QED
      BY <1>4, <2>3
  <1>6. CASE k # 0
    <2>1. k - 1 \in 0 .. n /\ k - 1 \in Nat /\ (k - 1) + 1 = k
      BY <1>0, <1>4, <1>6
    <2>2. k - 1 \notin T
      BY <1>0, <1>3, <1>4, <2>1
    <2>3. Searching(t, n, index, after[k - 1], k - 1)
      BY <2>1, <2>2
    <2>4. after[k] = Narrowed(t, index, after[k - 1])
      BY <1>4, <1>6 DEF IsSearch
    <2>5. Searching(t, n, index, Narrowed(t, index, after[k - 1]), (k - 1) + 1)
      BY <2>1, <2>3, SearchStep
    <2> QED
      BY <1>4, <2>1, <2>4, <2>5
  <1> QED
    BY <1>5, <1>6

(* FindDataPointByIndex: the position of the one point with this index, or *)
(* 0 if there is none.                                                     *)
LEMMA SearchFinds ==
  ASSUME NEW t, NEW n, Table(t, n), Sorted(t, n), NEW index \in Int,
         NEW p, p = ezDataModel_FindDataPointByIndex(t, index)
  PROVE  \/ p \in 1 .. n /\ t[p].index = index
         \/ p = 0 /\ \A i \in 1 .. n : t[i].index # index
  <1>1. PICK after : IsSearch(after, t, index, n) /\ p = FoundIn(t, index, after[n])
    BY SearchIs
  <1>2. n \in Nat /\ n \in 0 .. n
    BY DEF Table
  <1> DEFINE h == after[n]
  <1>3. Searching(t, n, index, h, n)
    BY <1>1, <1>2, SearchInvariant
  <1>4. p = FoundIn(t, index, h)
    BY <1>1
  <1> HIDE DEF h
  <1>5. CASE Hit(t, index, h)
    <2>1. h[1] \in Nat /\ h[2] \in Nat /\ h[1] < h[2] /\ h[2] <= n
      BY <1>3, <1>5 DEF Searching, Hit
    <2>2. Mid(h) \in Nat /\ Mid(h) < h[2]
      BY <2>1, MidBetween DEF Mid
    <2>3. Mid(h) + 1 \in 1 .. n
      BY <1>2, <2>1, <2>2
    <2> QED
      BY <1>4, <1>5, <2>3 DEF FoundIn, Hit
  <1>6. CASE ~ Hit(t, index, h)
    <2>1. h[1] >= h[2]
      BY <1>2, <1>3, <1>6 DEF Searching
    <2>2. \A i \in 1 .. n : t[i].index # index
      BY <1>2, <1>3, <2>1 DEF Searching
    <2> QED
      BY <1>4, <1>6, <2>2 DEF FoundIn
  <1> QED
    BY <1>5, <1>6

-----------------------------------------------------------------------------
(* The inductive invariant: the table has passed the assertions, and the   *)
(* reader has the value of every point that is not dirty or that it has    *)
(* just read, unless it was set again before its mark was cleared.         *)

TableOK ==
  /\ data_points \in PointTables
  /\ ezDataModel_AllocateDataPoints(data_points)
  /\ offsets = DmOffsets(data_points)

BuffersOK ==
  /\ data_model_buff \in [0 .. ModelBuffSize - 1 -> PointBytes]
  /\ dm_copy \in [0 .. ModelBuffSize - 1 -> PointBytes]

MarksOK ==
  /\ dirty \subseteq Points /\ overwritten \subseteq Points
  /\ dm_reader \in [index : PointIndices \cup {DATA_POINT_INVALID}, read : BOOLEAN]

ReaderHas(p) == dm_reader = [index |-> data_points[p].index, read |-> TRUE]

ReaderUpToDate ==
  \A p \in Points :
    p \notin overwritten /\ (p \notin dirty \/ ReaderHas(p)) =>
      \A b \in BytesOf(p) : dm_copy[b] = data_model_buff[b]

DmIInv == TableOK /\ BuffersOK /\ MarksOK /\ ReaderUpToDate

LEMMA InsideBuffer ==
  ASSUME NEW o \in Nat, NEW z \in Nat, NEW m \in Nat, z > 0, o + z <= m
  PROVE  o \in 0 .. m - 1 /\ o <= m - 1 /\ o .. o + z - 1 \subseteq 0 .. m - 1
  OBVIOUS

LEMMA BehindEachOther ==
  ASSUME NEW o \in Nat, NEW z \in Nat, NEW p \in Nat, NEW y \in Nat, o + z <= p \/ p + y <= o
  PROVE  (o .. o + z - 1) \cap (p .. p + y - 1) = {}
  OBVIOUS

(* The points lie in the buffer one behind the other.                      *)
LEMMA PointsApart ==
  ASSUME TableOK
  PROVE  /\ Table(data_points, Len(data_points)) /\ Sorted(data_points, Len(data_points))
         /\ \A p \in Points : /\ offsets[p] \in Nat /\ BytesOf(p) \subseteq 0 .. ModelBuffSize - 1
                              /\ offsets[p] <= ModelBuffSize - 1
         /\ \A p, q \in Points : p # q => BytesOf(p) \cap BytesOf(q) = {}
         /\ offsets \in [Points -> 0 .. ModelBuffSize - 1]
  <1> DEFINE t == data_points
             n == Len(data_points)
  <1>1. Table(t, n) /\ Sorted(t, n)
    BY PointTable, AcceptedIsSorted DEF TableOK
  <1>2. IsOffsets(offsets, t, n)
    BY <1>1, OffsetsAre DEF TableOK
  <1>3. \A p \in 1 .. n : offsets[p] \in Nat /\ t[p].size \in Nat
    BY <1>1, <1>2, OffsetsNat DEF Table
  <1>4. \A p \in 1 .. n : t[p].size > 0 /\ offsets[p] + t[p].size <= ModelBuffSize
    BY DEF TableOK, ezDataModel_AllocateDataPoints
  <1>5. \A p, q \in 1 .. n : p < q => offsets[p] + t[p].size <= offsets[q]
    BY <1>1, <1>2, OffsetsGrow
  <1>6. n \in Nat /\ ModelBuffSize \in Nat \ {0} /\ DOMAIN offsets = 1 .. n
    BY <1>1, <1>2, DmAssumption DEF Table, IsOffsets
  <1>7. offsets = [p \in 1 .. n |-> offsets[p]]
    BY <1>2 DEF IsOffsets
  <1> HIDE DEF t, n
  <1>8. ASSUME NEW p \in 1 .. n
        PROVE  /\ offsets[p] \in 0 .. ModelBuffSize - 1 /\ offsets[p] <= ModelBuffSize - 1
               /\ offsets[p] .. offsets[p] + t[p].size - 1 \subseteq 0 .. ModelBuffSize - 1
    <2>1. /\ offsets[p] \in Nat /\ t[p].size \in Nat /\ t[p].size > 0
          /\ offsets[p] + t[p].size <= ModelBuffSize /\ ModelBuffSize \in Nat
      BY <1>3, <1>4, <1>6
    <2> QED
      BY <2>1, InsideBuffer
  <1>9. ASSUME NEW p \in 1 .. n, NEW q \in 1 .. n, p # q
        PROVE  (offsets[p] .. offsets[p] + t[p].size - 1)
                 \cap (offsets[q] .. offsets[q] + t[q].size - 1) = {}
    <2>1. p < q \/ q < p
      BY <1>6, <1>9
    <2>2. \/ offsets[p] + t[p].size <= offsets[q]
          \/ offsets[q] + t[q].size <= offsets[p]
      BY <1>5, <2>1
    <2>3. /\ offsets[p] \in Nat /\ t[p].size \in Nat /\ offsets[q] \in Nat /\ t[q].size \in Nat
      BY <1>3
    <2> QED
      BY <2>2, <2>3, BehindEachOther
  <1>10. offsets \in [1 .. n -> 0 .. ModelBuffSize - 1]
    BY <1>7, <1>8
  <1> QED
    BY <1>1, <1>3, <1>8, <1>9, <1>10 DEF Points, BytesOf, t, n

(* The search on the model's own table.                                    *)
LEMMA PointFound ==
  ASSUME TableOK, NEW index \in Int,
         NEW p, p = ezDataModel_FindDataPointByIndex(data_points, index)
  PROVE  \/ p \in Points /\ data_points[p].index = index
         \/ p = 0 /\ \A i \in Points : data_points[i].index # index
  BY PointsApart, SearchFinds DEF Points

LEMMA IndicesDiffer ==
  ASSUME TableOK
  PROVE  /\ \A p, q \in Points : data_points[p].index = data_points[q].index => p = q
         /\ \A p \in Points : /\ data_points[p].index \in Nat
                              /\ data_points[p].index # DATA_POINT_INVALID
         /\ Points \subseteq Nat /\ 0 \notin Points
  <1>1. Table(data_points, Len(data_points)) /\ Sorted(data_points, Len(data_points))
    BY PointsApart
  <1>2. Len(data_points) \in Nat
    BY <1>1 DEF Table
  <1>3. \A p \in Points : /\ data_points[p].index \in Nat
                          /\ data_points[p].index # DATA_POINT_INVALID
    BY <1>1 DEF Table, Points
  <1>4. ASSUME NEW p \in Points, NEW q \in Points, data_points[p].index = data_points[q].index
        PROVE  p = q
    <2>1. ~ (p < q) /\ ~ (q < p)
      BY <1>1, <1>3, <1>4 DEF Sorted, Points
    <2> QED
      BY <1>2, <2>1 DEF Points
  <1> QED
    BY <1>2, <1>3, <1>4 DEF Points

LEMMA InitDmIInv == ezDataModel_Initialize => DmIInv
  <1> SUFFICES ASSUME ezDataModel_Initialize PROVE DmIInv
    OBVIOUS
  <1>1. TableOK
    BY DEF ezDataModel_Initialize, TableOK
  <1>2. BuffersOK
    BY DmAssumption DEF ezDataModel_Initialize, BuffersOK
  <1>3. MarksOK
    BY DEF ezDataModel_Initialize, MarksOK
  <1>4. ReaderUpToDate
    BY DEF ezDataModel_Initialize, ReaderUpToDate
  <1> QED
    BY <1>1, <1>2, <1>3, <1>4 DEF DmIInv

(* The table and what is derived from it never change.                     *)
LEMMA TableStays ==
  ASSUME TableOK, UNCHANGED dmTable
  PROVE  /\ TableOK' /\ Points' = Points /\ PointIndices' = PointIndices
         /\ \A p : BytesOf(p)' = BytesOf(p)
  BY DEF TableOK, dmTable, Points, PointIndices, BytesOf

LEMMA SetStep ==
  ASSUME DmIInv, NEW q \in Points, NEW data \in [0 .. data_points[q].size - 1 -> PointBytes],
         ezDataModel_SetDataPoint(data_points[q].index, data)
  PROVE  DmIInv'
  <1> DEFINE index == data_points[q].index
             p == ezDataModel_FindDataPointByIndex(data_points, index)
  <1>1. TableOK /\ BuffersOK /\ MarksOK /\ ReaderUpToDate /\ UNCHANGED <<dmTable, dm_reader, dm_copy>>
    BY DEF DmIInv, ezDataModel_SetDataPoint
  <1>2. /\ data_model_buff' = [b \in DOMAIN data_model_buff |->
                                 IF b \in BytesOf(p) THEN data[b - offsets[p]]
                                 ELSE data_model_buff[b]]
        /\ dirty' = dirty \cup {p}
        /\ overwritten' = IF dm_reader = [index |-> index, read |-> TRUE]
                          THEN overwritten \cup {p} ELSE overwritten
    BY DEF ezDataModel_SetDataPoint
  <1>3. index \in Int /\ q \in Points
    BY <1>1, IndicesDiffer
  <1> HIDE DEF p
  <1>4. p = q
    <2>1. p \in Points /\ data_points[p].index = data_points[q].index
      BY <1>1, <1>3, PointFound DEF p
    <2> QED
      BY <1>1, <2>1, IndicesDiffer
  <1>5. /\ offsets[q] \in Nat /\ BytesOf(q) \subseteq 0 .. ModelBuffSize - 1
        /\ \A r \in Points : r # q => BytesOf(r) \cap BytesOf(q) = {}
        /\ \A r \in Points : BytesOf(r) \subseteq 0 .. ModelBuffSize - 1
        /\ data_points[q].size \in Nat
    <2>1. data_points[q].size \in Nat
      BY <1>1, PointsApart DEF Table, Points
    <2> QED
      BY <1>1, <2>1, PointsApart
  <1>6. TableOK' /\ Points' = Points /\ PointIndices' = PointIndices
        /\ \A r : BytesOf(r)' = BytesOf(r)
    BY <1>1, TableStays
  <1>7. \A b \in BytesOf(q) : data[b - offsets[q]] \in PointBytes
    <2>1. \A b \in BytesOf(q) : b - offsets[q] \in 0 .. data_points[q].size - 1
      BY <1>5 DEF BytesOf
    <2> QED
      BY <2>1
  <1>8. DOMAIN data_model_buff = 0 .. ModelBuffSize - 1
        /\ \A b \in 0 .. ModelBuffSize - 1 : data_model_buff[b] \in PointBytes
    BY <1>1 DEF BuffersOK
  <1>9. BuffersOK'
    <2>1. data_model_buff' \in [0 .. ModelBuffSize - 1 -> PointBytes]
      BY <1>2, <1>4, <1>7, <1>8
    <2> QED
      BY <1>1, <2>1 DEF BuffersOK
  <1>10. MarksOK'
    BY <1>1, <1>2, <1>4, <1>6 DEF MarksOK
  <1>11. ASSUME NEW r \in Points, r # q, NEW b \in BytesOf(r)
         PROVE  data_model_buff'[b] = data_model_buff[b]
    <2>1. b \in DOMAIN data_model_buff /\ b \notin BytesOf(q)
      BY <1>5, <1>8, <1>11
    <2> QED
      BY <1>2, <1>4, <2>1
  <1>12. ReaderUpToDate'
    <2> SUFFICES ASSUME NEW r \in Points, r \notin overwritten',
                        r \notin dirty' \/ ReaderHas(r)', NEW b \in BytesOf(r)
                 PROVE  dm_copy'[b] = data_model_buff'[b]
      BY <1>6 DEF ReaderUpToDate
    <2>1. ReaderHas(r)' <=> ReaderHas(r)
      BY <1>1 DEF ReaderHas, dmTable
    <2>2. r # q
      BY <1>2, <1>4, <2>1 DEF ReaderHas
    <2>3. r \notin overwritten /\ (r \notin dirty \/ ReaderHas(r))
      BY <1>2, <1>4, <2>1, <2>2
    <2>4. dm_copy[b] = data_model_buff[b]
      BY <1>1, <2>3 DEF ReaderUpToDate
    <2> QED
      BY <1>1, <1>11, <2>2, <2>4
  <1> QED
    BY <1>6, <1>9, <1>10, <1>12 DEF DmIInv

LEMMA FindDirtyStep ==
  ASSUME DmIInv, ReaderFindsDirty
  PROVE  DmIInv'
  <1>1. /\ TableOK /\ BuffersOK /\ MarksOK /\ ReaderUpToDate /\ dirty # {}
        /\ UNCHANGED <<dmTable, data_model_buff, dirty, dm_copy, overwritten>>
        /\ dm_reader' = [index |-> ezDataModel_GetFirstDirty, read |-> FALSE]
    BY DEF DmIInv, ReaderFindsDirty
  <1>2. TableOK' /\ Points' = Points /\ PointIndices' = PointIndices
        /\ \A r : BytesOf(r)' = BytesOf(r)
    BY <1>1, TableStays
  <1>3. ezDataModel_GetFirstDirty \in PointIndices
    <2>1. dirty \in SUBSET Nat /\ dirty \subseteq Points
      BY <1>1, IndicesDiffer DEF MarksOK
    <2>2. \E p \in dirty : \A r \in dirty : p <= r
      BY <1>1, <2>1, Smallest
    <2> QED
      BY <1>1, <2>1, <2>2 DEF ezDataModel_GetFirstDirty, PointIndices
  <1>4. MarksOK'
    BY <1>1, <1>2, <1>3 DEF MarksOK
  <1>5. \A p : ~ ReaderHas(p)'
    BY <1>1 DEF ReaderHas
  <1>6. ReaderUpToDate'
    BY <1>1, <1>2, <1>5 DEF ReaderUpToDate
  <1> QED
    BY <1>1, <1>2, <1>4, <1>6 DEF DmIInv, BuffersOK

LEMMA GetStep ==
  ASSUME DmIInv, ezDataModel_GetDataPoint
  PROVE  DmIInv'
  <1> DEFINE p == ezDataModel_FindDataPointByIndex(data_points, dm_reader.index)
  <1>1. /\ TableOK /\ BuffersOK /\ MarksOK /\ ReaderUpToDate
        /\ dm_reader.index # DATA_POINT_INVALID
        /\ UNCHANGED <<dmTable, data_model_buff, dirty>>
        /\ dm_reader' = [dm_reader EXCEPT !.read = TRUE]
    BY DEF DmIInv, ezDataModel_GetDataPoint
  <1>2. /\ dm_copy' = [b \in DOMAIN dm_copy |->
                         IF p # 0 /\ b \in BytesOf(p) THEN data_model_buff[b] ELSE dm_copy[b]]
        /\ overwritten' = overwritten \ {p}
    BY DEF ezDataModel_GetDataPoint
  <1>3. dm_reader.index \in PointIndices
    BY <1>1 DEF MarksOK
  <1>4. dm_reader.index \in Int
    BY <1>1, <1>3, IndicesDiffer DEF PointIndices
  <1> HIDE DEF p
  <1>5. p \in Points /\ data_points[p].index = dm_reader.index /\ p # 0
    BY <1>1, <1>3, <1>4, PointFound, IndicesDiffer DEF p, PointIndices
  <1>6. TableOK' /\ Points' = Points /\ PointIndices' = PointIndices
        /\ \A r : BytesOf(r)' = BytesOf(r)
    BY <1>1, TableStays
  <1>7. \A r \in Points : BytesOf(r) \subseteq 0 .. ModelBuffSize - 1
    BY <1>1, PointsApart
  <1>8. /\ DOMAIN dm_copy = 0 .. ModelBuffSize - 1
        /\ \A b \in 0 .. ModelBuffSize - 1 : dm_copy[b] \in PointBytes /\ data_model_buff[b] \in PointBytes
    BY <1>1 DEF BuffersOK
  <1>9. BuffersOK'
    <2>1. dm_copy' \in [0 .. ModelBuffSize - 1 -> PointBytes]
      BY <1>2, <1>8
    <2> QED
      BY <1>1, <2>1 DEF BuffersOK
  <1>10. MarksOK'
    <2>1. dm_reader' \in [index : PointIndices \cup {DATA_POINT_INVALID}, read : BOOLEAN]
      BY <1>1 DEF MarksOK
    <2> QED
      BY <1>1, <1>2, <1>6, <2>1 DEF MarksOK
  <1>11. dm_reader' = [index |-> dm_reader.index, read |-> TRUE]
    BY <1>1 DEF MarksOK
  <1>12. ReaderUpToDate'
    <2> SUFFICES ASSUME NEW r \in Points, r \notin overwritten',
                        r \notin dirty' \/ ReaderHas(r)', NEW b \in BytesOf(r)
                 PROVE  dm_copy'[b] = data_model_buff'[b]
      BY <1>6 DEF ReaderUpToDate
    <2>0. b \in DOMAIN dm_copy
      BY <1>7, <1>8
    <2>1. CASE r = p
      BY <1>1, <1>2, <1>5, <2>0, <2>1
    <2>2. CASE r # p
      <3>1. ~ ReaderHas(r)'
        <4>1. data_points[r].index # dm_reader.index
          BY <1>1, <1>5, <2>2, IndicesDiffer
        <4> QED
          BY <1>1, <1>11, <4>1 DEF ReaderHas, dmTable
      <3>2. r \notin overwritten /\ r \notin dirty
        BY <1>1, <1>2, <2>2, <3>1
      <3>3. dm_copy[b] = data_model_buff[b]
        BY <1>1, <3>2 DEF ReaderUpToDate
      <3> QED
        BY <1>1, <1>2, <2>0, <3>3
    <2> QED
      BY <2>1, <2>2
  <1> QED
    BY <1>6, <1>9, <1>10, <1>12 DEF DmIInv

LEMMA ClearDirtyStep ==
  ASSUME DmIInv, ezDataModel_ClearDirtyFlags
  PROVE  DmIInv'
  <1> DEFINE p == ezDataModel_FindDataPointByIndex(data_points, dm_reader.index)
  <1>1. /\ TableOK /\ BuffersOK /\ MarksOK /\ ReaderUpToDate /\ dm_reader.read
        /\ UNCHANGED <<dmTable, data_model_buff, dm_copy, overwritten>>
        /\ dm_reader' = [index |-> DATA_POINT_INVALID, read |-> FALSE]
    BY DEF DmIInv, ezDataModel_ClearDirtyFlags
  <1>2. dirty' = dirty \ {p}
    BY DEF ezDataModel_ClearDirtyFlags
  <1>3. dm_reader.index \in Int
    BY <1>1, IndicesDiffer, Invalid DEF PointIndices, MarksOK
  <1>4. dm_reader = [index |-> dm_reader.index, read |-> TRUE]
    BY <1>1 DEF MarksOK
  <1> HIDE DEF p
  <1>5. \/ p \in Points /\ data_points[p].index = dm_reader.index
        \/ p = 0 /\ 0 \notin Points
    BY <1>1, <1>3, PointFound, IndicesDiffer DEF p
  <1>6. TableOK' /\ Points' = Points /\ PointIndices' = PointIndices
        /\ \A r : BytesOf(r)' = BytesOf(r)
    BY <1>1, TableStays
  <1>7. MarksOK'
    BY <1>1, <1>2, <1>6 DEF MarksOK
  <1>8. ReaderUpToDate'
    <2> SUFFICES ASSUME NEW r \in Points, r \notin overwritten',
                        r \notin dirty' \/ ReaderHas(r)', NEW b \in BytesOf(r)
                 PROVE  dm_copy'[b] = data_model_buff'[b]
      BY <1>6 DEF ReaderUpToDate
    <2>1. ~ ReaderHas(r)'
      BY <1>1 DEF ReaderHas
    <2>2. r \notin dirty \/ r = p
      BY <1>2, <2>1
    <2>3. r = p => ReaderHas(r)
      BY <1>4, <1>5 DEF ReaderHas
    <2>4. dm_copy[b] = data_model_buff[b]
      BY <1>1, <2>2, <2>3 DEF ReaderUpToDate
    <2> QED
      BY <1>1, <2>4
  <1> QED
    BY <1>1, <1>6, <1>7, <1>8 DEF DmIInv, BuffersOK

LEMMA ClearAllStep ==
  ASSUME DmIInv, ezDataModel_ClearAllDirtyFlags
  PROVE  DmIInv'
  <1>1. /\ TableOK /\ BuffersOK /\ MarksOK /\ ReaderUpToDate
        /\ UNCHANGED <<dmTable, data_model_buff, dm_reader, dm_copy>>
        /\ dirty' = {} /\ overwritten' = overwritten \cup dirty
    BY DEF DmIInv, ezDataModel_ClearAllDirtyFlags
  <1>2. TableOK' /\ Points' = Points /\ PointIndices' = PointIndices
        /\ \A r : BytesOf(r)' = BytesOf(r)
    BY <1>1, TableStays
  <1>3. MarksOK'
    BY <1>1, <1>2 DEF MarksOK
  <1>4. ReaderUpToDate'
    BY <1>1, <1>2 DEF ReaderUpToDate
  <1> QED
    BY <1>1, <1>2, <1>3, <1>4 DEF DmIInv, BuffersOK

LEMMA NextDmIInv == DmIInv /\ [DmNext]_dmVars => DmIInv'
  <1> SUFFICES ASSUME DmIInv, [DmNext]_dmVars PROVE DmIInv'
    OBVIOUS
  <1>1. CASE UNCHANGED dmVars
    BY <1>1 DEF dmVars, dmTable, DmIInv, TableOK, BuffersOK, MarksOK, ReaderUpToDate, ReaderHas,
                Points, PointIndices, BytesOf
  <1> QED
    BY <1>1, SetStep, FindDirtyStep, GetStep, ClearDirtyStep, ClearAllStep DEF DmNext

LEMMA DmInvariance == DmSpec => []DmIInv
  BY InitDmIInv, NextDmIInv, PTL DEF DmSpec

(* The data model keeps its types, for every table an application may      *)
(* define and every size of the buffer.                                    *)
THEOREM DmTypeCorrect == DmSpec => []DmTypeOK
<1>1. DmIInv => DmTypeOK
  BY PointsApart DEF DmIInv, DmTypeOK, TableOK, BuffersOK, MarksOK
<1> QED
  BY <1>1, DmInvariance, PTL

(* The binary search finds the point of every index that is in the table,  *)
(* wherever it stands, and none for any other index.                       *)
THEOREM DmAlwaysFinds == DmSpec => []DmFindsEvery
<1>1. ASSUME TableOK, NEW index \in 0 .. DATA_POINT_INVALID
      PROVE  LET p == ezDataModel_FindDataPointByIndex(data_points, index) IN
             IF index \in PointIndices THEN p \in Points /\ data_points[p].index = index
             ELSE p = 0
  <2> DEFINE p == ezDataModel_FindDataPointByIndex(data_points, index)
  <2>1. \/ p \in Points /\ data_points[p].index = index
        \/ p = 0 /\ \A i \in Points : data_points[i].index # index
    BY <1>1, Invalid, PointFound
  <2> HIDE DEF p
  <2>2. IF index \in PointIndices THEN p \in Points /\ data_points[p].index = index ELSE p = 0
    BY <2>1 DEF PointIndices
  <2> QED
    BY <2>2 DEF p
<1>2. DmIInv => DmFindsEvery
  BY <1>1 DEF DmIInv, DmFindsEvery
<1> QED
  BY <1>2, DmInvariance, PTL

(* A reader that follows the marks has every value that is not marked,     *)
(* unless it was set between being read and being cleared: for any sizes   *)
(* and places of the points in the buffer.                                 *)
THEOREM DmCleanIsAlwaysSeen == DmSpec => []DmCleanMeansSeen
<1>1. DmIInv => DmCleanMeansSeen
  BY DEF DmIInv, ReaderUpToDate, DmCleanMeansSeen
<1> QED
  BY <1>1, DmInvariance, PTL

-----------------------------------------------------------------------------
(* The event bus.  Its list of listeners is LinkedList with one head.      *)

Lk == INSTANCE LinkedListProofs WITH
        Heads <- {Bus}, Items <- Listeners, next <- bus_next, prev <- bus_prev

BusNode == {Bus} \cup Listeners

LEMMA ListsHold == Lk!HeadsAreNoItems /\ Lk!NodesAreFinite
  BY ListAssumption DEF Lk!HeadsAreNoItems, Lk!NodesAreFinite, Lk!IsFiniteSet, IsFiniteSet

(* The node in place i of the ring of the listeners s.                     *)
Spot(s, i) == IF i \in 1 .. Len(s) THEN s[i] ELSE Bus

Once(s) == \A i, j \in 1 .. Len(s) : s[i] = s[j] => i = j

Ring(nx, s) ==
  /\ s \in Seq(Listeners) /\ Len(s) \in Nat /\ \A i \in 1 .. Len(s) : s[i] \in Listeners
  /\ \A i \in 0 .. Len(s) : nx[Spot(s, i)] = Spot(s, i + 1)
  /\ Once(s)

Among(s, l) == \E i \in 1 .. Len(s) : s[i] = l

Alone(s) == [b \in {Bus} |-> s]

LEMMA RingIsRings ==
  ASSUME NEW nx, NEW s, Ring(nx, s)
  PROVE  Lk!Rings(nx, Alone(s)) /\ Alone(s)[Bus] = s
  <1>1. Alone(s)[Bus] = s /\ Alone(s) \in [{Bus} -> Seq(Listeners)]
    BY DEF Ring, Alone
  <1>2. Lk!Rounds(nx, Bus, s)
    BY DEF Ring, Lk!Rounds, Lk!Place, Spot
  <1>3. Lk!Apart(Alone(s))
    BY <1>1 DEF Ring, Once, Lk!Apart
  <1> QED
    BY <1>1, <1>2, <1>3 DEF Lk!Rings

LEMMA RingsIsRing ==
  ASSUME NEW nx, NEW L, Lk!Rings(nx, L), NEW s, s = L[Bus]
  PROVE  Ring(nx, s)
  <1>1. s \in Seq(Listeners)
    BY DEF Lk!Rings
  <1>2. Len(s) \in Nat /\ \A i \in 1 .. Len(s) : s[i] \in Listeners
    BY <1>1, LenProperties, ElementOfSeq
  <1>3. \A i \in 0 .. Len(s) : nx[Spot(s, i)] = Spot(s, i + 1)
    BY DEF Lk!Rings, Lk!Rounds, Lk!Place, Spot
  <1>4. Once(s)
    BY DEF Lk!Rings, Lk!Apart, Once
  <1> QED
    BY <1>1, <1>2, <1>3, <1>4 DEF Ring

(* The traversal of the bus visits the listeners of its ring.              *)
LEMMA RingVisited ==
  ASSUME NEW s
  PROVE  /\ Ring(bus_next, s) => List!ForEach(Bus) = s
         /\ Ring(bus_next', s) => List!ForEach(Bus)' = s
  <1>1. \A nx : Ring(nx, s) => Lk!Visited(Lk!Steps(nx, Bus), Bus) = s
    <2> SUFFICES ASSUME NEW nx, Ring(nx, s) PROVE Lk!Visited(Lk!Steps(nx, Bus), Bus) = s
      OBVIOUS
    <2>1. Lk!Rings(nx, Alone(s)) /\ Alone(s)[Bus] = s
      BY RingIsRings
    <2>2. Alone(s) = [h \in {Bus} |-> Lk!Visited(Lk!Steps(nx, h), h)]
      BY <2>1, ListsHold, Lk!ShownForEach
    <2> QED
      BY <2>1, <2>2
  <1>2. /\ List!ForEach(Bus) = Lk!ForEach(Bus)
        /\ List!ForEach(Bus)' = Lk!ForEach(Bus)'
    <2>0. List!Cardinality(List!Node) = Lk!Cardinality(Lk!Node)
      BY DEF List!Node, Lk!Node, List!Cardinality, Lk!Cardinality
    <2>1. List!ForEach(Bus) = Lk!ForEach(Bus)
      BY <2>0 DEF List!ForEach, Lk!ForEach, List!Detached, Lk!Detached
    <2>2. List!ForEach(Bus)' = Lk!ForEach(Bus)'
      BY <2>0 DEF List!ForEach, Lk!ForEach, List!Detached, Lk!Detached
    <2> QED
      BY <2>1, <2>2
  <1>3. /\ Lk!ForEach(Bus) = Lk!Visited(Lk!Steps(bus_next, Bus), Bus)
        /\ Lk!ForEach(Bus)' = Lk!Visited(Lk!Steps(bus_next', Bus), Bus)
    BY ListsHold, Lk!ForEachVisits
  <1> QED
    BY <1>1, <1>2, <1>3

LEMMA ListeningIsAmong ==
  ASSUME NEW s, NEW l \in Listeners
  PROVE  /\ Ring(bus_next, s) => (IsListening(l) <=> Among(s, l))
         /\ Ring(bus_next', s) => (IsListening(l)' <=> Among(s, l))
  <1>1. Bus # l
    BY ListAssumption
  <1>2. ASSUME NEW nx, Ring(nx, s)
        PROVE  DOMAIN s = 1 .. Len(s)
    BY <1>2, LenProperties DEF Ring
  <1> QED
    BY <1>1, <1>2, RingVisited DEF IsListening, List!IsNodeInList, Among

(* Listening and leaving, as AppendNode and UNLINK_NODE do it.             *)

Longer(s, i, n, t) ==
  /\ Len(t) = Len(s) + 1 /\ t[i + 1] = n
  /\ \A j \in 1 .. i : t[j] = s[j]
  /\ \A j \in i + 1 .. Len(s) : t[j + 1] = s[j]

Shorter(s, i, t) ==
  /\ Len(t) = Len(s) - 1
  /\ \A j \in 1 .. i - 1 : t[j] = s[j]
  /\ \A j \in i .. Len(s) - 1 : t[j] = s[j + 1]

LEMMA RingLinked ==
  ASSUME NEW nx \in [BusNode -> BusNode], NEW s, Ring(nx, s), NEW i \in 0 .. Len(s),
         NEW n \in Listeners, ~ Among(s, n), NEW m, m = Spot(s, i),
         NEW ny, ny = [nx EXCEPT ![n] = nx[m], ![m] = n]
  PROVE  \E t : Ring(ny, t) /\ Longer(s, i, n, t)
  <1>1. Lk!Rings(nx, Alone(s)) /\ Alone(s)[Bus] = s
    BY RingIsRings
  <1>2. nx \in [Lk!Node -> Lk!Node]
    BY DEF BusNode, Lk!Node
  <1>3. Lk!Absent(Alone(s), n)
    BY <1>1 DEF Lk!Absent, Among
  <1>4. m = Lk!Place(Bus, s, i)
    BY DEF Spot, Lk!Place
  <1>5. Lk!Linking(nx, ny, n, m)
    BY DEF Lk!Linking
  <1>6. PICK t : Lk!Inserted(s, i, n, t)
    BY DEF Lk!Inserted
  <1>7. PICK M : Lk!Updated(Alone(s), Bus, t, M)
    BY DEF Lk!Updated
  <1>8. Lk!Rings(ny, M)
    BY <1>1, <1>2, <1>3, <1>4, <1>5, <1>6, <1>7, ListsHold, Lk!LinkInserts
  <1>9. M[Bus] = t
    BY <1>7 DEF Lk!Updated, Alone
  <1>10. Lk!Extends(s, i, n, t)
    BY <1>6, ListsHold, Lk!InsertedElements DEF Ring
  <1> QED
    BY <1>8, <1>9, <1>10, RingsIsRing DEF Lk!Extends, Longer

LEMMA RingUnlinked ==
  ASSUME NEW nx \in [BusNode -> BusNode], NEW s, Ring(nx, s), NEW i \in 1 .. Len(s),
         NEW n, n = s[i], NEW m, m = Spot(s, i - 1),
         NEW ny, ny = [nx EXCEPT ![m] = nx[n], ![n] = n]
  PROVE  \E t : Ring(ny, t) /\ Shorter(s, i, t)
  <1>1. Lk!Rings(nx, Alone(s)) /\ Alone(s)[Bus] = s
    BY RingIsRings
  <1>2. nx \in [Lk!Node -> Lk!Node]
    BY DEF BusNode, Lk!Node
  <1>4. m = Lk!Place(Bus, s, i - 1)
    BY DEF Spot, Lk!Place
  <1>5. Lk!Unlinking(nx, ny, n, m)
    BY DEF Lk!Unlinking
  <1>6. PICK t : Lk!Removed(s, i, t)
    BY DEF Lk!Removed
  <1>7. PICK M : Lk!Updated(Alone(s), Bus, t, M)
    BY DEF Lk!Updated
  <1>8. Lk!Rings(ny, M)
    BY <1>1, <1>2, <1>4, <1>5, <1>6, <1>7, ListsHold, Lk!UnlinkRemoves
  <1>9. M[Bus] = t
    BY <1>7 DEF Lk!Updated, Alone
  <1>10. Lk!Shortens(s, i, t)
    BY <1>6, ListsHold, Lk!RemainingElements DEF Ring
  <1> QED
    BY <1>8, <1>9, <1>10, RingsIsRing DEF Lk!Shortens, Shorter

(* The pointers back go round the same ring.                               *)
Back(pv, s) == \A i \in 0 .. Len(s) : pv[Spot(s, i + 1)] = Spot(s, i)

LEMMA PlacesDiffer ==
  ASSUME NEW nx, NEW s, Ring(nx, s), NEW i \in 1 .. Len(s) + 1, NEW j \in 1 .. Len(s) + 1, i # j
  PROVE  Spot(s, i) # Spot(s, j)
  <1>1. Bus \notin Listeners
    BY ListAssumption
  <1> QED
    BY <1>1 DEF Ring, Once, Spot

LEMMA PlaceOnRing ==
  ASSUME NEW nx, NEW s, Ring(nx, s), NEW i
  PROVE  Spot(s, i) \in BusNode
  BY DEF Ring, Spot, BusNode

LEMMA BackLinked ==
  ASSUME NEW nx, NEW s, Ring(nx, s), NEW pv \in [BusNode -> BusNode], Back(pv, s),
         NEW i \in 0 .. Len(s), NEW n \in Listeners, ~ Among(s, n), NEW t, Longer(s, i, n, t),
         NEW m, m = Spot(s, i + 1),
         NEW pw, pw = [pv EXCEPT ![n] = Spot(s, i), ![m] = n]
  PROVE  Back(pw, t)
  <1>0. Len(s) \in Nat /\ Len(t) = Len(s) + 1
    BY DEF Ring, Longer
  <1>1. /\ \A k \in 0 .. i : Spot(t, k) = Spot(s, k)
        /\ Spot(t, i + 1) = n
        /\ \A k \in i + 2 .. Len(s) + 2 : Spot(t, k) = Spot(s, k - 1)
    <2>1. \A k \in i + 2 .. Len(s) + 1 : t[k] = s[k - 1]
      <3> SUFFICES ASSUME NEW k \in i + 2 .. Len(s) + 1 PROVE t[k] = s[k - 1]
        OBVIOUS
      <3>1. k - 1 \in i + 1 .. Len(s) /\ (k - 1) + 1 = k
        BY <1>0
      <3> QED
        BY <3>1 DEF Longer
    <2> QED
      BY <2>1, <1>0 DEF Spot, Longer
  <1>2. n # m /\ \A k \in 1 .. Len(s) + 1 : Spot(s, k) # n
    BY ListAssumption, <1>0 DEF Spot, Among
  <1>3. /\ pw[n] = Spot(s, i) /\ pw[m] = n
        /\ \A x \in BusNode : x # n /\ x # m => pw[x] = pv[x]
    BY <1>2, PlaceOnRing DEF BusNode
  <1>4. \A k \in 1 .. Len(s) + 1 : k # i + 1 => pw[Spot(s, k)] = Spot(s, k - 1)
    <2> SUFFICES ASSUME NEW k \in 1 .. Len(s) + 1, k # i + 1 PROVE pw[Spot(s, k)] = Spot(s, k - 1)
      OBVIOUS
    <2>1. Spot(s, k) # m /\ Spot(s, k) # n /\ Spot(s, k) \in BusNode
      BY <1>0, <1>2, PlacesDiffer, PlaceOnRing
    <2>2. pv[Spot(s, (k - 1) + 1)] = Spot(s, k - 1)
      BY <1>0 DEF Back
    <2> QED
      BY <2>1, <2>2, <1>3, <1>0
  <1>5. ASSUME NEW k \in 0 .. Len(t)
        PROVE  pw[Spot(t, k + 1)] = Spot(t, k)
    <2>1. CASE k < i
      <3>1. k \in 0 .. i /\ k + 1 \in 0 .. i /\ (k + 1) - 1 = k
            /\ k + 1 \in 1 .. Len(s) + 1 /\ k + 1 # i + 1
        BY <2>1, <1>0
      <3> QED
        BY <3>1, <1>1, <1>4
    <2>2. CASE k = i
      BY <2>2, <1>0, <1>1, <1>3
    <2>3. CASE k = i + 1
      <3>1. k + 1 \in i + 2 .. Len(s) + 2 /\ (k + 1) - 1 = i + 1
        BY <2>3, <1>0
      <3> QED
        BY <3>1, <2>3, <1>1, <1>3
    <2>4. CASE k > i + 1
      <3>1. k + 1 \in i + 2 .. Len(s) + 2 /\ (k + 1) - 1 = k /\ k \in i + 2 .. Len(s) + 2
            /\ k \in 1 .. Len(s) + 1 /\ k # i + 1
        BY <2>4, <1>0
      <3> QED
        BY <3>1, <1>1, <1>4
    <2> QED
      BY <1>0, <2>1, <2>2, <2>3, <2>4
  <1> QED
    BY <1>5 DEF Back

LEMMA BackUnlinked ==
  ASSUME NEW nx, NEW s, Ring(nx, s), NEW pv \in [BusNode -> BusNode], Back(pv, s),
         NEW i \in 1 .. Len(s), NEW n, n = s[i], NEW t, Shorter(s, i, t),
         NEW m, m = Spot(s, i + 1), NEW p, p = Spot(s, i - 1),
         NEW pw, pw = [pv EXCEPT ![m] = p, ![n] = n]
  PROVE  Back(pw, t)
  <1>0. Len(s) \in Nat /\ Len(t) = Len(s) - 1 /\ n = Spot(s, i)
    BY DEF Ring, Shorter, Spot
  <1>1. /\ \A k \in 0 .. i - 1 : Spot(t, k) = Spot(s, k)
        /\ \A k \in i .. Len(s) : Spot(t, k) = Spot(s, k + 1)
    BY <1>0 DEF Spot, Shorter
  <1>2. n # m /\ \A k \in 1 .. Len(s) + 1 : k # i => Spot(s, k) # n
    BY <1>0, PlacesDiffer
  <1>3. /\ pw[m] = p
        /\ \A x \in BusNode : x # n /\ x # m => pw[x] = pv[x]
    BY <1>2, PlaceOnRing
  <1>4. \A k \in 1 .. Len(s) + 1 : k # i /\ k # i + 1 => pw[Spot(s, k)] = Spot(s, k - 1)
    <2> SUFFICES ASSUME NEW k \in 1 .. Len(s) + 1, k # i, k # i + 1 PROVE pw[Spot(s, k)] = Spot(s, k - 1)
      OBVIOUS
    <2>1. Spot(s, k) # m /\ Spot(s, k) # n /\ Spot(s, k) \in BusNode
      BY <1>0, <1>2, PlacesDiffer, PlaceOnRing
    <2>2. pv[Spot(s, (k - 1) + 1)] = Spot(s, k - 1)
      BY <1>0 DEF Back
    <2> QED
      BY <2>1, <2>2, <1>3, <1>0
  <1>5. ASSUME NEW k \in 0 .. Len(t)
        PROVE  pw[Spot(t, k + 1)] = Spot(t, k)
    <2>1. CASE k < i - 1
      <3>1. k \in 0 .. i - 1 /\ k + 1 \in 0 .. i - 1 /\ (k + 1) - 1 = k
            /\ k + 1 \in 1 .. Len(s) + 1 /\ k + 1 # i /\ k + 1 # i + 1
        BY <2>1, <1>0
      <3> QED
        BY <3>1, <1>1, <1>4
    <2>2. CASE k = i - 1
      <3>1. k + 1 \in i .. Len(s) /\ (k + 1) + 1 = i + 1 /\ k \in 0 .. i - 1
        BY <2>2, <1>0
      <3> QED
        BY <3>1, <2>2, <1>1, <1>3
    <2>3. CASE k > i - 1
      <3>1. k + 1 \in i .. Len(s) /\ k \in i .. Len(s) /\ ((k + 1) + 1) - 1 = k + 1
            /\ (k + 1) + 1 \in 1 .. Len(s) + 1 /\ (k + 1) + 1 # i /\ (k + 1) + 1 # i + 1
        BY <2>3, <1>0
      <3> QED
        BY <3>1, <1>1, <1>4
    <2> QED
      BY <1>0, <2>1, <2>2, <2>3
  <1> QED
    BY <1>5 DEF Back

LinksTyped == bus_next \in [BusNode -> BusNode] /\ bus_prev \in [BusNode -> BusNode]

LEMMA ListenKeeps ==
  ASSUME LinksTyped, NEW s, Ring(bus_next, s), Back(bus_prev, s),
         NEW l \in Listeners, ~ Among(s, l), List!Link(l, bus_next[Bus])
  PROVE  \E t : /\ Ring(bus_next', t) /\ Back(bus_prev', t)
                /\ \E i \in 0 .. Len(s) : Longer(s, i, l, t)
  <1>1. PICK i \in 0 .. Len(s) : bus_next[Bus] = Spot(s, i)
    <2>1. Len(s) \in Nat /\ Spot(s, 0) = Bus /\ bus_next[Spot(s, 0)] = Spot(s, 0 + 1)
      BY DEF Ring, Spot
    <2>2. CASE Len(s) = 0
      BY <2>1, <2>2 DEF Spot
    <2>3. CASE Len(s) > 0
      BY <2>1, <2>3
    <2> QED
      BY <2>1, <2>2, <2>3
  <1> DEFINE m == Spot(s, i)
  <1>2. bus_next[m] = Spot(s, i + 1)
    BY DEF Ring
  <1>3. /\ bus_next' = [bus_next EXCEPT ![l] = bus_next[m], ![m] = l]
        /\ bus_prev' = [bus_prev EXCEPT ![l] = m, ![bus_next[m]] = l]
    BY <1>1 DEF List!Link
  <1> HIDE DEF m
  <1>4. PICK t : Ring(bus_next', t) /\ Longer(s, i, l, t)
    BY <1>3, RingLinked DEF m, LinksTyped
  <1>5. Back(bus_prev', t)
    BY <1>2, <1>3, <1>4, BackLinked DEF m, LinksTyped
  <1> QED
    BY <1>4, <1>5

LEMMA UnlistenKeeps ==
  ASSUME LinksTyped, NEW s, Ring(bus_next, s), Back(bus_prev, s),
         NEW l \in Listeners, Among(s, l), UnlinkNode(l)
  PROVE  \E t : /\ Ring(bus_next', t) /\ Back(bus_prev', t)
                /\ \E i \in 1 .. Len(s) : s[i] = l /\ Shorter(s, i, t)
  <1>1. PICK i \in 1 .. Len(s) : s[i] = l
    BY DEF Among
  <1> DEFINE p == Spot(s, i - 1)
             m == Spot(s, i + 1)
  <1>2. bus_next[l] = m /\ bus_prev[l] = p
    <2>1. Len(s) \in Nat /\ l = Spot(s, i) /\ i \in 0 .. Len(s)
          /\ i - 1 \in 0 .. Len(s) /\ (i - 1) + 1 = i
      BY <1>1 DEF Ring, Spot
    <2> QED
      BY <2>1 DEF Ring, Back
  <1>3. /\ bus_next' = [bus_next EXCEPT ![p] = bus_next[l], ![l] = l]
        /\ bus_prev' = [bus_prev EXCEPT ![m] = p, ![l] = l]
    BY <1>2 DEF UnlinkNode, List!Unlink
  <1> HIDE DEF p, m
  <1>4. PICK t : Ring(bus_next', t) /\ Shorter(s, i, t)
    BY <1>1, <1>3, RingUnlinked DEF p, LinksTyped
  <1>5. Back(bus_prev', t)
    BY <1>1, <1>3, <1>4, BackUnlinked DEF m, p, LinksTyped
  <1> QED
    BY <1>1, <1>4, <1>5

(* Who is on the ring, and who after whom.                                 *)
Before(s, x, y) == \E i, j \in 1 .. Len(s) : s[i] = x /\ s[j] = y /\ i < j

LEMMA LongerAmong ==
  ASSUME NEW s, Len(s) \in Nat, NEW n, NEW i \in 0 .. Len(s), NEW t, Longer(s, i, n, t), NEW x
  PROVE  Among(t, x) <=> Among(s, x) \/ x = n
  <1>1. ASSUME NEW j \in 1 .. Len(t), t[j] = x, x # n PROVE Among(s, x)
    <2>1. CASE j <= i
      BY <1>1, <2>1 DEF Longer, Among
    <2>2. CASE j > i
      <3>1. j # i + 1 /\ j - 1 \in i + 1 .. Len(s) /\ (j - 1) + 1 = j
        BY <1>1, <2>2 DEF Longer
      <3>2. j - 1 \in 1 .. Len(s) /\ s[j - 1] = x
        BY <1>1, <3>1 DEF Longer
      <3> QED
        BY <3>2 DEF Among
    <2> QED
      BY <2>1, <2>2 DEF Longer
  <1>2. ASSUME NEW j \in 1 .. Len(s), s[j] = x PROVE Among(t, x)
    <2>1. j \in 1 .. i \/ j \in i + 1 .. Len(s)
      OBVIOUS
    <2>2. j \in 1 .. Len(t) /\ j + 1 \in 1 .. Len(t)
      BY DEF Longer
    <2> QED
      BY <1>2, <2>1, <2>2 DEF Longer, Among
  <1>3. Among(t, n)
    <2>1. i + 1 \in 1 .. Len(t)
      BY DEF Longer
    <2> QED
      BY <2>1 DEF Longer, Among
  <1> QED
    BY <1>1, <1>2, <1>3 DEF Among

LEMMA ShorterMoves ==
  ASSUME NEW s, Len(s) \in Nat, NEW i \in 1 .. Len(s), NEW t, Shorter(s, i, t)
  PROVE  \A j \in 1 .. Len(s) :
           j # i => LET k == IF j < i THEN j ELSE j - 1 IN k \in 1 .. Len(t) /\ t[k] = s[j]
  <1> SUFFICES ASSUME NEW j \in 1 .. Len(s), j # i
               PROVE  LET k == IF j < i THEN j ELSE j - 1 IN k \in 1 .. Len(t) /\ t[k] = s[j]
    OBVIOUS
  <1>1. CASE j < i
    <2>1. j \in 1 .. i - 1 /\ j \in 1 .. Len(t)
      BY <1>1 DEF Shorter
    <2> QED
      BY <1>1, <2>1 DEF Shorter
  <1>2. CASE j > i
    <2>1. j - 1 \in i .. Len(s) - 1 /\ j - 1 \in 1 .. Len(t) /\ (j - 1) + 1 = j /\ ~ (j < i)
      BY <1>2 DEF Shorter
    <2> QED
      BY <2>1 DEF Shorter
  <1> QED
    BY <1>1, <1>2

LEMMA ShorterCameFrom ==
  ASSUME NEW s, Len(s) \in Nat, NEW i \in 1 .. Len(s), NEW t, Shorter(s, i, t)
  PROVE  \A k \in 1 .. Len(t) :
           LET j == IF k < i THEN k ELSE k + 1 IN j \in 1 .. Len(s) /\ j # i /\ t[k] = s[j]
  <1> SUFFICES ASSUME NEW k \in 1 .. Len(t)
               PROVE  LET j == IF k < i THEN k ELSE k + 1
                      IN  j \in 1 .. Len(s) /\ j # i /\ t[k] = s[j]
    OBVIOUS
  <1>1. CASE k < i
    <2>1. k \in 1 .. i - 1 /\ k \in 1 .. Len(s) /\ k # i
      BY <1>1 DEF Shorter
    <2> QED
      BY <1>1, <2>1 DEF Shorter
  <1>2. CASE ~ (k < i)
    <2>1. k \in i .. Len(s) - 1 /\ k + 1 \in 1 .. Len(s) /\ k + 1 # i
      BY <1>2 DEF Shorter
    <2> QED
      BY <1>2, <2>1 DEF Shorter
  <1> QED
    BY <1>1, <1>2

LEMMA ShorterAmong ==
  ASSUME NEW s, Len(s) \in Nat, Once(s), NEW i \in 1 .. Len(s), NEW t, Shorter(s, i, t), NEW x
  PROVE  Among(t, x) <=> Among(s, x) /\ x # s[i]
  <1>1. ASSUME Among(t, x) PROVE Among(s, x) /\ x # s[i]
    BY <1>1, ShorterCameFrom DEF Among, Once
  <1>2. ASSUME Among(s, x), x # s[i] PROVE Among(t, x)
    BY <1>2, ShorterMoves DEF Among
  <1> QED
    BY <1>1, <1>2

LEMMA ShorterBefore ==
  ASSUME NEW s, Len(s) \in Nat, Once(s), NEW i \in 1 .. Len(s), NEW t, Shorter(s, i, t),
         NEW x, NEW y, x # s[i]
  PROVE  Before(t, x, y) <=> Before(s, x, y) /\ y # s[i]
  <1>1. ASSUME Before(t, x, y) PROVE Before(s, x, y) /\ y # s[i]
    <2>1. PICK k, l \in 1 .. Len(t) : t[k] = x /\ t[l] = y /\ k < l
      BY <1>1 DEF Before
    <2> DEFINE a == IF k < i THEN k ELSE k + 1
               b == IF l < i THEN l ELSE l + 1
    <2>2. a \in 1 .. Len(s) /\ s[a] = x /\ b \in 1 .. Len(s) /\ b # i /\ s[b] = y
      BY <2>1, ShorterCameFrom
    <2>3. a < b
      BY <2>1 DEF Shorter
    <2> HIDE DEF a, b
    <2> QED
      BY <2>2, <2>3 DEF Before, Once
  <1>2. ASSUME Before(s, x, y), y # s[i] PROVE Before(t, x, y)
    <2>1. PICK k, l \in 1 .. Len(s) : s[k] = x /\ s[l] = y /\ k < l
      BY <1>2 DEF Before
    <2> DEFINE a == IF k < i THEN k ELSE k - 1
               b == IF l < i THEN l ELSE l - 1
    <2>2. a \in 1 .. Len(t) /\ t[a] = x /\ b \in 1 .. Len(t) /\ t[b] = y /\ k # i /\ l # i
      BY <1>2, <2>1, ShorterMoves
    <2>3. a < b
      BY <2>1, <2>2
    <2> HIDE DEF a, b
    <2> QED
      BY <2>2, <2>3 DEF Before
  <1> QED
    BY <1>1, <1>2

(* The queue q carries the events w, behind d elements that are the data   *)
(* of the event being announced.                                           *)
Carries(q, d, w) ==
  /\ d \in {0, 1} /\ w \in Seq(Events) /\ q \in Seq({"code", "data"} \X Events)
  /\ Len(w) \in Nat /\ Len(q) = 2 * Len(w) + d
  /\ \A i \in 1 .. Len(w) : /\ w[i] \in Events
                           /\ q[2 * i - 1 + d] = <<"code", w[i]>>
                           /\ q[2 * i + d] = <<"data", w[i]>>

WaitingOf(q) ==
  LET code(i) == 2 * i - 1 + (Len(q) % 2)
      pair(e, i) == q[code(i)] = <<"code", e>> /\ q[code(i) + 1] = <<"data", e>>
  IN [i \in 1 .. Len(q) \div 2 |->
        IF \E e \in Events : pair(e, i) THEN q[code(i)][2] ELSE NoEvent]

LEMMA CarriedWait ==
  ASSUME NEW q, NEW d, NEW w, Carries(q, d, w)
  PROVE  WaitingOf(q) = w
  <1>1. Len(q) % 2 = d /\ Len(q) \div 2 = Len(w)
    <2>1. \A n \in Nat : /\ (2 * n + 0) % 2 = 0 /\ (2 * n + 0) \div 2 = n
                         /\ (2 * n + 1) % 2 = 1 /\ (2 * n + 1) \div 2 = n
      OBVIOUS
    <2>2. Len(w) \in Nat /\ (d = 0 \/ d = 1) /\ Len(q) = 2 * Len(w) + d
      BY DEF Carries
    <2> QED
      BY <2>1, <2>2
  <1> DEFINE code(i) == 2 * i - 1 + (Len(q) % 2)
             pair(e, i) == q[code(i)] = <<"code", e>> /\ q[code(i) + 1] = <<"data", e>>
             v == [i \in 1 .. Len(w) |->
                     IF \E e \in Events : pair(e, i) THEN q[code(i)][2] ELSE NoEvent]
  <1>2. ASSUME NEW i \in 1 .. Len(w) PROVE v[i] = w[i]
    <2>1. code(i) = 2 * i - 1 + d /\ code(i) + 1 = 2 * i + d
      <3>1. code(i) = 2 * i - 1 + d
        BY <1>1
      <3>2. d \in {0, 1} /\ Len(w) \in Nat
        BY DEF Carries
      <3> HIDE DEF code
      <3> QED
        BY <3>1, <3>2
    <2> HIDE DEF code
    <2>2. /\ w[i] \in Events
          /\ q[code(i)] = <<"code", w[i]>>
          /\ q[code(i) + 1] = <<"data", w[i]>>
      BY <2>1 DEF Carries
    <2>3. pair(w[i], i) /\ q[code(i)][2] = w[i]
      BY <2>2
    <2> QED
      BY <2>2, <2>3
  <1>3. w = [i \in 1 .. Len(w) |-> w[i]]
    BY LenProperties DEF Carries
  <1>4. v = w
    BY <1>2, <1>3
  <1>5. WaitingOf(q) = v
    BY <1>1 DEF WaitingOf
  <1> QED
    BY <1>4, <1>5

LEMMA CarriesNone == Carries(<< >>, 0, << >>)
  <1>1. Len(<< >>) = 0 /\ << >> \in Seq(Events) /\ << >> \in Seq({"code", "data"} \X Events)
    BY EmptySeq
  <1> QED
    BY <1>1 DEF Carries

LEMMA CarriesSent ==
  ASSUME NEW q, NEW d, NEW w, Carries(q, d, w), NEW e \in Events,
         NEW r, r = q \o <<<<"code", e>>, <<"data", e>>>>
  PROVE  Carries(r, d, Append(w, e))
  <1> DEFINE E == {"code", "data"} \X Events
             x == <<<<"code", e>>, <<"data", e>>>>
             v == Append(w, e)
  <1>1. x \in Seq(E) /\ Len(x) = 2 /\ x[1] = <<"code", e>> /\ x[2] = <<"data", e>>
    OBVIOUS
  <1> HIDE DEF x, E
  <1>2. q \in Seq(E) /\ Len(q) \in Nat
    BY LenProperties DEF Carries, E
  <1>3. /\ r \in Seq(E) /\ Len(r) = Len(q) + 2
        /\ \A k \in 1 .. Len(q) : r[k] = q[k]
        /\ r[Len(q) + 1] = <<"code", e>> /\ r[Len(q) + 2] = <<"data", e>>
    <2>1. r = q \o x
      BY DEF x
    <2>2. r \in Seq(E) /\ Len(r) = Len(q) + Len(x)
      <3>1. q \o x \in Seq(E) /\ Len(q \o x) = Len(q) + Len(x)
        BY <1>1, <1>2, ConcatProperties
      <3> QED
        BY <2>1, <3>1
    <2>3. \A k \in 1 .. Len(q) + Len(x) : r[k] = IF k <= Len(q) THEN q[k] ELSE x[k - Len(q)]
      <3>1. \A k \in 1 .. Len(q) + Len(x) :
              (q \o x)[k] = IF k <= Len(q) THEN q[k] ELSE x[k - Len(q)]
        BY <1>1, <1>2, ConcatProperties, Zenon
      <3> QED
        BY <2>1, <3>1, Zenon
    <2>4. /\ Len(q) + 1 \in 1 .. Len(q) + Len(x) /\ (Len(q) + 1) - Len(q) = 1 /\ ~ (Len(q) + 1 <= Len(q))
          /\ Len(q) + 2 \in 1 .. Len(q) + Len(x) /\ (Len(q) + 2) - Len(q) = 2 /\ ~ (Len(q) + 2 <= Len(q))
      BY <1>1, <1>2
    <2>5. r[Len(q) + 1] = <<"code", e>> /\ r[Len(q) + 2] = <<"data", e>>
      BY <1>1, <2>3, <2>4
    <2>6. \A k \in 1 .. Len(q) : k \in 1 .. Len(q) + Len(x) /\ k <= Len(q)
      BY <1>1, <1>2
    <2>7. \A k \in 1 .. Len(q) : r[k] = q[k]
      BY <2>3, <2>6
    <2> QED
      BY <1>1, <2>2, <2>5, <2>7
  <1>4. /\ v \in Seq(Events) /\ Len(v) = Len(w) + 1
        /\ \A k \in 1 .. Len(w) : v[k] = w[k]
        /\ v[Len(w) + 1] = e
    BY AppendProperties DEF Carries
  <1> HIDE DEF v
  <1>5. ASSUME NEW i \in 1 .. Len(v)
        PROVE  /\ v[i] \in Events
               /\ r[2 * i - 1 + d] = <<"code", v[i]>>
               /\ r[2 * i + d] = <<"data", v[i]>>
    <2>1. CASE i = Len(w) + 1
      <3>1. 2 * i - 1 + d = Len(q) + 1 /\ 2 * i + d = Len(q) + 2
        BY <2>1 DEF Carries
      <3> QED
        BY <2>1, <3>1, <1>3, <1>4
    <2>2. CASE i # Len(w) + 1
      <3>1. i \in 1 .. Len(w)
        BY <2>2, <1>4 DEF Carries
      <3>2. 2 * i - 1 + d \in 1 .. Len(q) /\ 2 * i + d \in 1 .. Len(q)
        BY <3>1 DEF Carries
      <3> QED
        BY <3>1, <3>2, <1>3, <1>4 DEF Carries
    <2> QED
      BY <2>1, <2>2
  <1>6. Len(v) \in Nat /\ Len(r) = 2 * Len(v) + d /\ d \in {0, 1}
    BY <1>3, <1>4 DEF Carries
  <1> QED
    BY <1>3, <1>4, <1>5, <1>6 DEF Carries, E, v

LEMMA CarriesTaken ==
  ASSUME NEW q, NEW w, Carries(q, 0, w), Len(q) >= 2
  PROVE  /\ w # << >> /\ q[1] = <<"code", Head(w)>> /\ q[2] = <<"data", Head(w)>>
         /\ Head(w) \in Events /\ Carries(Tail(q), 1, Tail(w))
  <1>1. Len(w) \in Nat /\ Len(w) >= 1 /\ Len(q) = 2 * Len(w)
    BY DEF Carries
  <1>2. w # << >> /\ Head(w) = w[1] /\ q # << >>
    BY <1>1, EmptySeq, HeadTailProperties DEF Carries
  <1>3. w[1] \in Events /\ q[1] = <<"code", w[1]>> /\ q[2] = <<"data", w[1]>>
    <2>1. 1 \in 1 .. Len(w) /\ 2 * 1 - 1 + 0 = 1 /\ 2 * 1 + 0 = 2
      BY <1>1
    <2> QED
      BY <2>1 DEF Carries
  <1>4. /\ Tail(w) \in Seq(Events) /\ Len(Tail(w)) = Len(w) - 1
        /\ \A i \in 1 .. Len(Tail(w)) : Tail(w)[i] = w[i + 1]
    BY <1>2, HeadTailProperties DEF Carries
  <1>5. /\ Tail(q) \in Seq({"code", "data"} \X Events) /\ Len(Tail(q)) = Len(q) - 1
        /\ \A i \in 1 .. Len(Tail(q)) : Tail(q)[i] = q[i + 1]
    BY <1>2, HeadTailProperties DEF Carries
  <1> DEFINE v == Tail(w)
             r == Tail(q)
  <1> HIDE DEF v, r
  <1>6. ASSUME NEW i \in 1 .. Len(v)
        PROVE  /\ v[i] \in Events
               /\ r[2 * i - 1 + 1] = <<"code", v[i]>>
               /\ r[2 * i + 1] = <<"data", v[i]>>
    <2>1. i + 1 \in 1 .. Len(w) /\ v[i] = w[i + 1]
      BY <1>1, <1>4 DEF v
    <2>2. /\ 2 * i - 1 + 1 \in 1 .. Len(r) /\ (2 * i - 1 + 1) + 1 = 2 * (i + 1) - 1 + 0
          /\ 2 * i + 1 \in 1 .. Len(r) /\ (2 * i + 1) + 1 = 2 * (i + 1) + 0
      BY <1>1, <1>4, <1>5 DEF v, r
    <2>3. r[2 * i - 1 + 1] = q[2 * (i + 1) - 1 + 0] /\ r[2 * i + 1] = q[2 * (i + 1) + 0]
      BY <1>5, <2>2 DEF r
    <2>4. /\ w[i + 1] \in Events
          /\ q[2 * (i + 1) - 1 + 0] = <<"code", w[i + 1]>>
          /\ q[2 * (i + 1) + 0] = <<"data", w[i + 1]>>
      BY <2>1 DEF Carries
    <2> QED
      BY <2>1, <2>3, <2>4
  <1>7. Len(v) \in Nat /\ Len(r) = 2 * Len(v) + 1
    BY <1>1, <1>4, <1>5 DEF v, r
  <1>8. Carries(r, 1, v)
    BY <1>4, <1>5, <1>6, <1>7 DEF Carries, v, r
  <1> QED
    BY <1>2, <1>3, <1>8 DEF v, r

LEMMA CarriesDone ==
  ASSUME NEW q, NEW w, Carries(q, 1, w)
  PROVE  q # << >> /\ Carries(Tail(q), 0, w)
  <1>1. Len(w) \in Nat /\ Len(q) = 2 * Len(w) + 1
    BY DEF Carries
  <1>2. q # << >>
    BY <1>1, EmptySeq DEF Carries
  <1>5. /\ Tail(q) \in Seq({"code", "data"} \X Events) /\ Len(Tail(q)) = Len(q) - 1
        /\ \A i \in 1 .. Len(Tail(q)) : Tail(q)[i] = q[i + 1]
    BY <1>2, HeadTailProperties DEF Carries
  <1> DEFINE r == Tail(q)
  <1> HIDE DEF r
  <1>6. ASSUME NEW i \in 1 .. Len(w)
        PROVE  /\ w[i] \in Events
               /\ r[2 * i - 1 + 0] = <<"code", w[i]>>
               /\ r[2 * i + 0] = <<"data", w[i]>>
    <2>2. /\ 2 * i - 1 + 0 \in 1 .. Len(r) /\ (2 * i - 1 + 0) + 1 = 2 * i - 1 + 1
          /\ 2 * i + 0 \in 1 .. Len(r) /\ (2 * i + 0) + 1 = 2 * i + 1
      BY <1>1, <1>5 DEF r
    <2>3. r[2 * i - 1 + 0] = q[2 * i - 1 + 1] /\ r[2 * i + 0] = q[2 * i + 1]
      BY <1>5, <2>2 DEF r
    <2> QED
      BY <2>3 DEF Carries
  <1>7. Len(r) = 2 * Len(w) + 0
    BY <1>1, <1>5 DEF r
  <1>8. Carries(r, 0, w)
    BY <1>1, <1>5, <1>6, <1>7 DEF Carries, r
  <1> QED
    BY <1>2, <1>8 DEF r

(* The listeners that a loop standing at node it has still to call.        *)
Members(s) == {l \in Listeners : Among(s, l)}

Due(s, pc, it) ==
  {y \in Listeners : /\ Among(s, y)
                     /\ \/ pc = "loop" /\ (y = it \/ Before(s, it, y))
                        \/ pc = "callback" /\ Before(s, it, y)}

LEMMA DueFirst ==
  ASSUME NEW nx, NEW s, Ring(nx, s)
  PROVE  /\ Due(s, "loop", Spot(s, 1)) = Members(s)
         /\ Spot(s, 1) = Bus \/ Among(s, Spot(s, 1))
  <1>1. Len(s) \in Nat
    BY DEF Ring
  <1>2. \A y : Among(s, y) => y = Spot(s, 1) \/ Before(s, Spot(s, 1), y)
    BY <1>1 DEF Among, Before, Spot
  <1>3. Spot(s, 1) = Bus \/ Among(s, Spot(s, 1))
    BY <1>1 DEF Among, Spot
  <1> QED
    BY <1>2, <1>3 DEF Due, Members

LEMMA DueTell ==
  ASSUME NEW nx, NEW s, Ring(nx, s), NEW x, Among(s, x)
  PROVE  /\ x \in Due(s, "loop", x)
         /\ Due(s, "callback", x) = Due(s, "loop", x) \ {x}
  <1>1. x \in Listeners /\ ~ Before(s, x, x)
    BY DEF Ring, Among, Before, Once
  <1> QED
    BY <1>1 DEF Due

LEMMA DueTold ==
  ASSUME NEW nx, NEW s, Ring(nx, s), NEW i \in 1 .. Len(s)
  PROVE  /\ Due(s, "loop", Spot(s, i + 1)) = Due(s, "callback", s[i])
         /\ Spot(s, i + 1) = Bus \/ Among(s, Spot(s, i + 1))
  <1>1. Len(s) \in Nat /\ Bus \notin Listeners
    BY ListAssumption DEF Ring
  <1>2. ASSUME NEW y, Among(s, y)
        PROVE  (y = Spot(s, i + 1) \/ Before(s, Spot(s, i + 1), y)) <=> Before(s, s[i], y)
    <2>1. PICK j \in 1 .. Len(s) : s[j] = y
      BY <1>2 DEF Among
    <2>2. Before(s, s[i], y) <=> i < j
      BY <2>1 DEF Before, Ring, Once
    <2>3. CASE i = Len(s)
      <3>1. Spot(s, i + 1) = Bus /\ y # Bus
        BY <1>1, <2>1, <2>3 DEF Spot, Ring
      <3>2. ~ Before(s, Bus, y)
        BY <1>1 DEF Before, Ring
      <3> QED
        BY <2>2, <2>3, <3>1, <3>2
    <2>4. CASE i # Len(s)
      <3>1. i + 1 \in 1 .. Len(s) /\ Spot(s, i + 1) = s[i + 1]
        BY <1>1, <2>4 DEF Spot
      <3>2. y = s[i + 1] <=> j = i + 1
        BY <2>1, <3>1 DEF Ring, Once
      <3>3. Before(s, s[i + 1], y) <=> i + 1 < j
        BY <2>1, <3>1 DEF Before, Ring, Once
      <3> QED
        BY <1>1, <2>2, <3>1, <3>2, <3>3
    <2> QED
      BY <2>3, <2>4
  <1>3. Spot(s, i + 1) = Bus \/ Among(s, Spot(s, i + 1))
    BY DEF Spot, Among
  <1> QED
    BY <1>2, <1>3 DEF Due

LEMMA DueBus ==
  ASSUME NEW nx, NEW s, Ring(nx, s)
  PROVE  Due(s, "loop", Bus) = {} /\ ~ Among(s, Bus)
  <1>1. ~ Among(s, Bus) /\ \A y : ~ Before(s, Bus, y)
    BY ListAssumption DEF Ring, Among, Before
  <1> QED
    BY <1>1 DEF Due

DueSet(l, n, pc, it) ==
  LET due(j) == \E i \in 1 .. j : /\ l[i] = it
                                  /\ pc = "loop" \/ (pc = "callback" /\ i < j)
  IN {l[j] : j \in {j \in 1 .. n : due(j)}}

LEMMA DueSetIs ==
  ASSUME NEW nx, NEW s, Ring(nx, s), NEW pc, NEW it
  PROVE  DueSet(s, Len(s), pc, it) = Due(s, pc, it)
  <1> DEFINE due(j) == \E i \in 1 .. j : /\ s[i] = it
                                         /\ pc = "loop" \/ (pc = "callback" /\ i < j)
  <1>0. Len(s) \in Nat
    BY DEF Ring
  <1>1. ASSUME NEW j \in 1 .. Len(s)
        PROVE  due(j) <=> s[j] \in Due(s, pc, it)
    <2>1. s[j] \in Listeners /\ Among(s, s[j])
      BY DEF Ring, Among
    <2>2. Before(s, it, s[j]) <=> \E i \in 1 .. j : s[i] = it /\ i < j
      BY <1>0 DEF Before, Ring, Once
    <2>3. (\E i \in 1 .. j : s[i] = it) <=> (s[j] = it \/ \E i \in 1 .. j : s[i] = it /\ i < j)
      OBVIOUS
    <2> QED
      BY <2>1, <2>2, <2>3 DEF Due
  <1>2. \A y \in Due(s, pc, it) : \E j \in 1 .. Len(s) : s[j] = y
    BY DEF Due, Among
  <1> HIDE DEF due
  <1>3. {s[j] : j \in {j \in 1 .. Len(s) : due(j)}} = Due(s, pc, it)
    BY <1>1, <1>2
  <1> QED
    BY <1>3 DEF DueSet, due

(* What holds as long as the rules are kept: s are the listeners in the    *)
(* order of the ring, w the events not yet taken up.                       *)
LoopOn(s, pc, it) ==
  /\ pc \in {"idle", "loop", "callback"}
  /\ pc = "loop" => it = Bus \/ Among(s, it)
  /\ pc = "callback" => Among(s, it)

QueueAs(w, q, pc, ev) ==
  IF pc = "idle" THEN ev = <<NoEvent, NoEvent>> /\ Carries(q, 0, w)
  ELSE (\E e \in Events : ev = <<e, e>>) /\ Carries(q, 1, w)

Holding(s, w) ==
  /\ Ring(bus_next, s) /\ Back(bus_prev, s)
  /\ \A l \in Listeners : Among(s, l) => l \in callbacks
  /\ LoopOn(s, bus_pc, it_node)
  /\ QueueAs(w, event_queue, bus_pc, event)

BusIInv == BusTypeOK /\ (bus_orderly => \E s, w : Holding(s, w))

(* How the announcer sees such a state.                                    *)
Hearers == {l \in Listeners : IsListening(l)}

Views(s, w) ==
  /\ Waiting = w
  /\ Hearers = Members(s)
  /\ StillDue = Due(s, bus_pc, it_node)

LEMMA HoldingViews ==
  ASSUME NEW s, NEW w
  PROVE  /\ Holding(s, w) => Views(s, w)
         /\ Holding(s, w)' => Views(s, w)'
  <1>1. \A q, pc, ev : QueueAs(w, q, pc, ev) => WaitingOf(q) = w
    BY CarriedWait DEF QueueAs
  <1>2. Waiting = WaitingOf(event_queue) /\ Waiting' = WaitingOf(event_queue')
    BY DEF Waiting, WaitingOf
  <1>3. /\ StillDue = DueSet(List!ForEach(Bus), Len(List!ForEach(Bus)), bus_pc, it_node)
        /\ StillDue' = DueSet(List!ForEach(Bus)', Len(List!ForEach(Bus)'), bus_pc', it_node')
    BY DEF StillDue, DueSet, ezEventBus_GetNumOfListeners, List!GetListSize
  <1>4. /\ Ring(bus_next, s) => Hearers = Members(s)
        /\ Ring(bus_next', s) => Hearers' = Members(s)
    BY ListeningIsAmong DEF Hearers, Members
  <1>5. /\ Ring(bus_next, s) => StillDue = Due(s, bus_pc, it_node)
        /\ Ring(bus_next', s) => StillDue' = Due(s, bus_pc', it_node')
    BY <1>3, RingVisited, DueSetIs
  <1> QED
    BY <1>1, <1>2, <1>4, <1>5 DEF Holding, Views

LEMMA NoEventDiffers == NoEvent \notin Events /\ NoEvent \notin Listeners
  BY BusAssumption

(* Each operation within the rules keeps this and is a step of the         *)
(* announcer.                                                              *)
LEMMA CreateStep ==
  ASSUME BusTypeOK, bus_orderly, NEW s, NEW w, Holding(s, w),
         NEW l \in Listeners, ezEventBus_CreateListener(l)
  PROVE  (UNCHANGED Announce!vars) /\ Holding(s, w)'
  <1>1. Holding(s, w)'
    BY DEF ezEventBus_CreateListener, Holding, busLinks, busLoop
  <1>2. Views(s, w) /\ Views(s, w)'
    BY <1>1, HoldingViews
  <1>3. Waiting' = Waiting /\ Hearers' = Hearers /\ StillDue' = StillDue
    BY <1>2 DEF Views, ezEventBus_CreateListener, busLoop
  <1> QED
    BY <1>1, <1>3 DEF Announce!vars, ezEventBus_CreateListener, busLoop, Hearers

LEMMA ListenStep ==
  ASSUME BusTypeOK, bus_orderly, NEW s, NEW w, Holding(s, w),
         NEW l \in Listeners, ezEventBus_Listen(l), bus_orderly'
  PROVE  Announce!Join(l) /\ \E t : Holding(t, w)'
  <1>1. bus_pc = "idle" /\ l \in callbacks /\ ~ Among(s, l)
    BY ListeningIsAmong DEF ezEventBus_Listen, BusRule, Holding
  <1>2. LinksTyped
    BY DEF BusTypeOK, LinksTyped, BusNode
  <1>3. PICK t : /\ Ring(bus_next', t) /\ Back(bus_prev', t)
                 /\ \E i \in 0 .. Len(s) : Longer(s, i, l, t)
    BY <1>1, <1>2, ListenKeeps DEF ezEventBus_Listen, Holding
  <1>4. \A x : Among(t, x) <=> Among(s, x) \/ x = l
    BY <1>3, LongerAmong DEF Holding, Ring
  <1>5. Holding(t, w)'
    BY <1>1, <1>3, <1>4 DEF Holding, LoopOn, ezEventBus_Listen, busLoop
  <1>6. Views(s, w) /\ Views(t, w)'
    BY <1>5, HoldingViews
  <1>7. Waiting' = Waiting /\ Hearers' = Hearers \cup {l} /\ StillDue' = StillDue
    BY <1>1, <1>4, <1>6 DEF Views, ezEventBus_Listen, busLoop, Due, Members
  <1>8. event = <<NoEvent, NoEvent>>
    BY <1>1 DEF Holding, QueueAs
  <1>9. Announce!Join(l)
    BY <1>1, <1>7, <1>8 DEF Announce!Join, ezEventBus_Listen, busLoop, Hearers
  <1> QED
    BY <1>5, <1>9

LEMMA UnlistenStep ==
  ASSUME BusTypeOK, bus_orderly, NEW s, NEW w, Holding(s, w),
         NEW l \in Listeners, ezEventBus_Unlisten(l), bus_orderly'
  PROVE  Announce!Leave(l) /\ \E t : Holding(t, w)'
  <1>1. Among(s, l) /\ bus_pc \in {"idle", "callback"} /\ ~ (bus_pc = "callback" /\ it_node = l)
    BY ListeningIsAmong DEF ezEventBus_Unlisten, BusRule, Holding, Calling
  <1>2. LinksTyped
    BY DEF BusTypeOK, LinksTyped, BusNode
  <1>3. PICK t : /\ Ring(bus_next', t) /\ Back(bus_prev', t)
                 /\ \E i \in 1 .. Len(s) : s[i] = l /\ Shorter(s, i, t)
    BY <1>1, <1>2, UnlistenKeeps DEF ezEventBus_Unlisten, Holding
  <1>4. \A x : Among(t, x) <=> Among(s, x) /\ x # l
    BY <1>3, ShorterAmong DEF Holding, Ring
  <1>5. \A x, y : x # l => (Before(t, x, y) <=> Before(s, x, y) /\ y # l)
    BY <1>3, ShorterBefore DEF Holding, Ring
  <1>6. Holding(t, w)'
    BY <1>1, <1>3, <1>4 DEF Holding, LoopOn, ezEventBus_Unlisten, busLoop
  <1>7. Views(s, w) /\ Views(t, w)'
    BY <1>6, HoldingViews
  <1>8. Due(t, bus_pc, it_node) = Due(s, bus_pc, it_node) \ {l}
    BY <1>1, <1>4, <1>5 DEF Due
  <1>9. Waiting' = Waiting /\ Hearers' = Hearers \ {l} /\ StillDue' = StillDue \ {l}
    BY <1>4, <1>7, <1>8 DEF Views, ezEventBus_Unlisten, busLoop, Members
  <1>10. l # IF bus_pc = "callback" THEN it_node ELSE NoEvent
    BY <1>1, NoEventDiffers
  <1>11. Announce!Leave(l)
    BY <1>9, <1>10 DEF Announce!Leave, ezEventBus_Unlisten, busLoop, Hearers
  <1> QED
    BY <1>6, <1>11

LEMMA SendStep ==
  ASSUME BusTypeOK, bus_orderly, NEW s, NEW w, Holding(s, w),
         NEW e \in Events, ezEventBus_SendEvent(e)
  PROVE  (Announce!Send(e) \/ UNCHANGED Announce!vars) /\ \E v : Holding(s, v)'
  <1>0. /\ UNCHANGED <<bus_next, bus_prev, callbacks, bus_pc, it_node, event, bus_orderly>>
        /\ PushEvent(e)
    BY DEF ezEventBus_SendEvent, busLinks, busLoop
  <1>1. CASE Len(event_queue) + 2 <= BusCapacity
    <2>1. event_queue' = event_queue \o <<<<"code", e>>, <<"data", e>>>>
      BY <1>0, <1>1 DEF PushEvent
    <2>2. QueueAs(Append(w, e), event_queue', bus_pc, event)
      BY <2>1, CarriesSent DEF Holding, QueueAs
    <2>3. Holding(s, Append(w, e))'
      BY <1>0, <2>2 DEF Holding
    <2>4. Views(s, w) /\ Views(s, Append(w, e))'
      BY <2>3, HoldingViews
    <2>5. Waiting' = Append(Waiting, e) /\ Hearers' = Hearers /\ StillDue' = StillDue
      BY <1>0, <2>4 DEF Views
    <2>6. Announce!Send(e)
      BY <1>0, <2>5 DEF Announce!Send, Hearers
    <2> QED
      BY <2>3, <2>6
  <1>2. CASE ~ (Len(event_queue) + 2 <= BusCapacity)
    <2>1. event_queue' = event_queue
      BY <1>0, <1>2 DEF PushEvent
    <2>3. Holding(s, w)'
      BY <1>0, <2>1 DEF Holding
    <2>4. Views(s, w) /\ Views(s, w)'
      BY <2>3, HoldingViews
    <2>5. Waiting' = Waiting /\ Hearers' = Hearers /\ StillDue' = StillDue
      BY <1>0, <2>4 DEF Views
    <2>6. UNCHANGED Announce!vars
      BY <1>0, <2>5 DEF Announce!vars, Hearers
    <2> QED
      BY <2>3, <2>6
  <1> QED
    BY <1>1, <1>2

LEMMA ResetStep ==
  ASSUME BusTypeOK, bus_orderly, NEW s, NEW w, Holding(s, w), ezEventBus_ResetBus, bus_orderly'
  PROVE  Announce!Clear /\ Holding(<< >>, << >>)'
  <1>1. bus_pc = "idle"
    BY DEF ezEventBus_ResetBus, BusRule
  <1>2. Len(<< >>) = 0 /\ << >> \in Seq(Listeners)
    BY EmptySeq
  <1>3. bus_next'[Bus] = Bus /\ bus_prev'[Bus] = Bus
    BY DEF ezEventBus_ResetBus, BusTypeOK
  <1>4. Ring(bus_next', << >>) /\ Back(bus_prev', << >>)
    BY <1>2, <1>3 DEF Ring, Back, Spot, Once
  <1>5. \A x : ~ Among(<< >>, x)
    BY <1>2 DEF Among
  <1>6. event = <<NoEvent, NoEvent>>
    BY <1>1 DEF Holding, QueueAs
  <1>7. Holding(<< >>, << >>)'
    BY <1>1, <1>4, <1>5, <1>6, CarriesNone
       DEF Holding, LoopOn, QueueAs, ezEventBus_ResetBus, busLoop
  <1>8. Views(s, w) /\ Views(<< >>, << >>)'
    BY <1>7, HoldingViews
  <1>9. Waiting' = << >> /\ Hearers' = {} /\ StillDue' = StillDue
    BY <1>1, <1>5, <1>8 DEF Views, ezEventBus_ResetBus, busLoop, Due, Members
  <1>10. Announce!Clear
    BY <1>1, <1>6, <1>9 DEF Announce!Clear, ezEventBus_ResetBus, busLoop, Hearers
  <1> QED
    BY <1>7, <1>10

LEMMA BeginStep ==
  ASSUME BusTypeOK, bus_orderly, NEW s, NEW w, Holding(s, w), BusBegin
  PROVE  Announce!TakeUp /\ \E v : Holding(s, v)'
  <1>0. /\ UNCHANGED <<bus_next, bus_prev, callbacks, bus_orderly>>
        /\ bus_pc = "idle" /\ bus_pc' = "loop" /\ Len(event_queue) >= 2
        /\ event' = <<event_queue[1][2], event_queue[2][2]>>
        /\ event_queue' = Tail(event_queue) /\ it_node' = bus_next[Bus]
    BY DEF BusBegin, busLinks
  <1>1. event = <<NoEvent, NoEvent>> /\ Carries(event_queue, 0, w)
    BY <1>0 DEF Holding, QueueAs
  <1>2. /\ w # << >> /\ event_queue[1] = <<"code", Head(w)>> /\ event_queue[2] = <<"data", Head(w)>>
        /\ Head(w) \in Events /\ Carries(event_queue', 1, Tail(w))
    BY <1>0, <1>1, CarriesTaken
  <1>3. event' = <<Head(w), Head(w)>>
    BY <1>0, <1>2
  <1>4. it_node' = Spot(s, 1)
    <2>1. Len(s) \in Nat /\ bus_next[Spot(s, 0)] = Spot(s, 0 + 1) /\ Spot(s, 0) = Bus
      BY DEF Holding, Ring, Spot
    <2> QED
      BY <2>1, <1>0
  <1>5. Due(s, "loop", it_node') = Members(s) /\ (it_node' = Bus \/ Among(s, it_node'))
    BY <1>4, DueFirst DEF Holding
  <1>6. QueueAs(Tail(w), event_queue', bus_pc', event')
    BY <1>0, <1>2, <1>3 DEF QueueAs
  <1>7. Holding(s, Tail(w))'
    BY <1>0, <1>5, <1>6 DEF Holding, LoopOn
  <1>8. Views(s, w) /\ Views(s, Tail(w))'
    BY <1>7, HoldingViews
  <1>9. /\ Waiting # << >> /\ Waiting' = Tail(Waiting) /\ event'[1] = Head(Waiting)
        /\ event'[1] = event'[2] /\ Hearers' = Hearers /\ StillDue' = Hearers
    BY <1>0, <1>2, <1>3, <1>5, <1>8 DEF Views
  <1>10. Announce!TakeUp
    BY <1>0, <1>1, <1>9 DEF Announce!TakeUp, Hearers
  <1> QED
    BY <1>7, <1>10

LEMMA BadCodeNever ==
  ASSUME NEW s, NEW w, Holding(s, w), BusBadCode
  PROVE  FALSE
  <1>1. Carries(event_queue, 0, w) /\ Len(event_queue) >= 2
    BY DEF BusBadCode, Holding, QueueAs
  <1> QED
    BY <1>1, CarriesTaken DEF BusBadCode

LEMMA NotifyStep ==
  ASSUME BusTypeOK, bus_orderly, NEW s, NEW w, Holding(s, w), BusNotify
  PROVE  Announce!Tell(it_node) /\ Holding(s, w)' /\ it_node \in Listeners
  <1>1. bus_pc = "loop" /\ Among(s, it_node) /\ it_node \in Listeners /\ it_node \in callbacks
    BY DEF BusNotify, Holding, LoopOn, BusTypeOK
  <1>2. /\ bus_pc' = "callback"
        /\ UNCHANGED <<bus_next, bus_prev, callbacks, event_queue, it_node, event, bus_orderly>>
    BY <1>1 DEF BusNotify, busLinks
  <1>3. Holding(s, w)'
    BY <1>1, <1>2 DEF Holding, LoopOn, QueueAs
  <1>4. Views(s, w) /\ Views(s, w)'
    BY <1>3, HoldingViews
  <1>5. /\ it_node \in StillDue /\ StillDue' = StillDue \ {it_node}
        /\ Waiting' = Waiting /\ Hearers' = Hearers
    BY <1>1, <1>2, <1>4, DueTell DEF Views, Holding
  <1>6. event[1] = event[2] /\ event[1] # NoEvent
    BY <1>1, NoEventDiffers DEF Holding, QueueAs
  <1>7. Announce!Tell(it_node)
    BY <1>1, <1>2, <1>5, <1>6 DEF Announce!Tell, Hearers
  <1> QED
    BY <1>1, <1>3, <1>7

LEMMA ReturnStep ==
  ASSUME BusTypeOK, bus_orderly, NEW s, NEW w, Holding(s, w), BusReturn
  PROVE  Announce!Told /\ Holding(s, w)'
  <1>1. /\ bus_pc = "callback" /\ bus_pc' = "loop" /\ it_node' = bus_next[it_node]
        /\ UNCHANGED <<bus_next, bus_prev, callbacks, event_queue, event, bus_orderly>>
    BY DEF BusReturn, busLinks
  <1>2. PICK i \in 1 .. Len(s) : s[i] = it_node
    BY <1>1 DEF Holding, LoopOn, Among
  <1>3. it_node' = Spot(s, i + 1)
    <2>1. i \in 0 .. Len(s) /\ Spot(s, i) = it_node
      BY <1>2 DEF Holding, Ring, Spot
    <2> QED
      BY <1>1, <2>1 DEF Holding, Ring
  <1>4. /\ Due(s, "loop", it_node') = Due(s, "callback", it_node)
        /\ it_node' = Bus \/ Among(s, it_node')
    BY <1>2, <1>3, DueTold DEF Holding
  <1>5. Holding(s, w)'
    BY <1>1, <1>4 DEF Holding, LoopOn, QueueAs
  <1>6. Views(s, w) /\ Views(s, w)'
    BY <1>5, HoldingViews
  <1>7. Waiting' = Waiting /\ Hearers' = Hearers /\ StillDue' = StillDue
    BY <1>1, <1>4, <1>6 DEF Views
  <1>8. Announce!Told
    BY <1>1, <1>7 DEF Announce!Told, Hearers
  <1> QED
    BY <1>5, <1>8

LEMMA EndStep ==
  ASSUME BusTypeOK, bus_orderly, NEW s, NEW w, Holding(s, w), BusEnd
  PROVE  Announce!Close /\ Holding(s, w)'
  <1>1. /\ bus_pc = "loop" /\ bus_pc' = "idle" /\ it_node = Bus /\ event' = <<NoEvent, NoEvent>>
        /\ event_queue' = IF event_queue = << >> THEN << >> ELSE Tail(event_queue)
        /\ UNCHANGED <<bus_next, bus_prev, callbacks, it_node, bus_orderly>>
    BY DEF BusEnd, busLinks
  <1>2. Carries(event_queue', 0, w)
    BY <1>1, CarriesDone DEF Holding, QueueAs
  <1>3. Holding(s, w)'
    BY <1>1, <1>2 DEF Holding, LoopOn, QueueAs
  <1>4. Views(s, w) /\ Views(s, w)'
    BY <1>3, HoldingViews
  <1>5. Due(s, "loop", Bus) = {} /\ Due(s, "idle", Bus) = {}
    BY DueBus DEF Holding, Due
  <1>6. Waiting' = Waiting /\ Hearers' = Hearers /\ StillDue = {} /\ StillDue' = {}
    BY <1>1, <1>4, <1>5 DEF Views
  <1>7. Announce!Close
    BY <1>1, <1>6 DEF Announce!Close, Hearers
  <1> QED
    BY <1>3, <1>7

-----------------------------------------------------------------------------
(* The types hold whatever the callers do.                                 *)
LEMMA BusTypes == BusTypeOK /\ [BusNext]_busVars => BusTypeOK'
  <1> SUFFICES ASSUME BusTypeOK, [BusNext]_busVars PROVE BusTypeOK'
    OBVIOUS
  <1> DEFINE E == {"code", "data"} \X Events
  <1>0. Len(event_queue) \in Nat /\ \A i \in 1 .. Len(event_queue) : event_queue[i] \in E
    BY LenProperties, ElementOfSeq DEF BusTypeOK
  <1>1. Tail(event_queue) \in Seq(E) \/ event_queue = << >>
    BY HeadTailProperties DEF BusTypeOK
  <1>2. << >> \in Seq(E)
    BY EmptySeq
  <1>3. ASSUME NEW l \in Listeners, ezEventBus_CreateListener(l) PROVE BusTypeOK'
    BY <1>3 DEF BusTypeOK, ezEventBus_CreateListener, busLinks, busLoop
  <1>4. ASSUME NEW l \in Listeners, ezEventBus_Listen(l) PROVE BusTypeOK'
    BY <1>4 DEF BusTypeOK, ezEventBus_Listen, List!Link, BusRule, busLoop
  <1>5. ASSUME NEW l \in Listeners, ezEventBus_Unlisten(l) PROVE BusTypeOK'
    BY <1>5 DEF BusTypeOK, ezEventBus_Unlisten, UnlinkNode, List!Unlink, BusRule, busLoop
  <1>6. ASSUME NEW e \in Events, ezEventBus_SendEvent(e) PROVE BusTypeOK'
    <2>1. <<<<"code", e>>, <<"data", e>>>> \in Seq(E)
      OBVIOUS
    <2>2. event_queue' \in Seq(E)
      BY <1>6, <2>1, ConcatProperties DEF BusTypeOK, ezEventBus_SendEvent, PushEvent
    <2>3. sends' \in 0 .. MaxSends
      BY <1>6, BusAssumption DEF BusTypeOK, ezEventBus_SendEvent
    <2> QED
      BY <1>6, <2>2, <2>3 DEF BusTypeOK, ezEventBus_SendEvent, busLinks, busLoop
  <1>7. CASE ezEventBus_ResetBus
    BY <1>7, <1>2 DEF BusTypeOK, ezEventBus_ResetBus, BusRule, busLoop
  <1>8. CASE BusBegin
    <2>1. event' \in (Events \cup {NoEvent}) \X (Events \cup {NoEvent})
      BY <1>0, <1>8 DEF BusBegin
    <2>2. event_queue' \in Seq(E)
      BY <1>1, <1>2, <1>8, EmptySeq DEF BusBegin
    <2> QED
      BY <1>8, <2>1, <2>2 DEF BusTypeOK, BusBegin, busLinks
  <1>9. CASE BusBadCode
    <2>1. event_queue' \in Seq(E)
      <3>1. \A i \in 3 .. Len(event_queue) : event_queue[i] \in E
        BY <1>0
      <3> QED
        BY <1>0, <1>9, <3>1, SubSeqProperties DEF BusTypeOK, BusBadCode
    <2> QED
      BY <1>9, <2>1 DEF BusTypeOK, BusBadCode, busLinks, busLoop
  <1>10. CASE BusNotify
    BY <1>10 DEF BusTypeOK, BusNotify, busLinks
  <1>11. CASE BusReturn
    BY <1>11 DEF BusTypeOK, BusReturn, busLinks
  <1>12. CASE BusEnd
    <2>1. event_queue' \in Seq(E)
      BY <1>1, <1>2, <1>12 DEF BusEnd
    <2> QED
      BY <1>12, <2>1 DEF BusTypeOK, BusEnd, busLinks
  <1>13. CASE UNCHANGED busVars
    BY <1>13 DEF BusTypeOK, busVars
  <1> QED
    BY <1>3, <1>4, <1>5, <1>6, <1>7, <1>8, <1>9, <1>10, <1>11, <1>12, <1>13
       DEF BusNext, ezEventBus_Run

(* A step within the rules.  Once a rule has been broken it stays so, and  *)
(* then the announcer may do anything.                                     *)
LEMMA OrderlyStep ==
  ASSUME BusTypeOK, BusNext, bus_orderly, bus_orderly', NEW s, NEW w, Holding(s, w)
  PROVE  (Announce!Next \/ UNCHANGED Announce!vars) /\ \E t, v : Holding(t, v)'
  <1>1. ASSUME NEW l \in Listeners, ezEventBus_CreateListener(l)
        PROVE  (Announce!Next \/ UNCHANGED Announce!vars) /\ \E t, v : Holding(t, v)'
    BY <1>1, CreateStep
  <1>2. ASSUME NEW l \in Listeners, ezEventBus_Listen(l)
        PROVE  Announce!Next /\ \E t, v : Holding(t, v)'
    <2>1. Announce!Join(l) /\ \E t : Holding(t, w)'
      BY <1>2, ListenStep
    <2> QED
      BY <2>1 DEF Announce!Next
  <1>3. ASSUME NEW l \in Listeners, ezEventBus_Unlisten(l)
        PROVE  Announce!Next /\ \E t, v : Holding(t, v)'
    <2>1. Announce!Leave(l) /\ \E t : Holding(t, w)'
      BY <1>3, UnlistenStep
    <2> QED
      BY <2>1 DEF Announce!Next
  <1>4. ASSUME NEW e \in Events, ezEventBus_SendEvent(e)
        PROVE  (Announce!Next \/ UNCHANGED Announce!vars) /\ \E t, v : Holding(t, v)'
    <2>1. (Announce!Send(e) \/ UNCHANGED Announce!vars) /\ \E v : Holding(s, v)'
      BY <1>4, SendStep
    <2> QED
      BY <2>1 DEF Announce!Next
  <1>5. CASE ezEventBus_ResetBus
    <2>1. Announce!Clear /\ Holding(<< >>, << >>)'
      BY <1>5, ResetStep
    <2> QED
      BY <2>1 DEF Announce!Next
  <1>6. CASE BusBegin
    <2>1. Announce!TakeUp /\ \E v : Holding(s, v)'
      BY <1>6, BeginStep
    <2> QED
      BY <2>1 DEF Announce!Next
  <1>7. CASE BusBadCode
    BY <1>7, BadCodeNever
  <1>8. CASE BusNotify
    <2>1. Announce!Tell(it_node) /\ Holding(s, w)' /\ it_node \in Listeners
      BY <1>8, NotifyStep
    <2> QED
      BY <2>1 DEF Announce!Next
  <1>9. CASE BusReturn
    <2>1. Announce!Told /\ Holding(s, w)'
      BY <1>9, ReturnStep
    <2> QED
      BY <2>1 DEF Announce!Next
  <1>10. CASE BusEnd
    <2>1. Announce!Close /\ Holding(s, w)'
      BY <1>10, EndStep
    <2> QED
      BY <2>1 DEF Announce!Next
  <1> QED
    BY <1>1, <1>2, <1>3, <1>4, <1>5, <1>6, <1>7, <1>8, <1>9, <1>10 DEF BusNext, ezEventBus_Run

LEMMA RulesStayBroken == BusTypeOK /\ BusNext /\ bus_orderly' => bus_orderly
  BY DEF BusTypeOK, BusNext, ezEventBus_Run, ezEventBus_CreateListener, ezEventBus_Listen,
         ezEventBus_Unlisten, ezEventBus_SendEvent, ezEventBus_ResetBus, BusBegin, BusBadCode,
         BusNotify, BusReturn, BusEnd, BusRule

LEMMA BusStep ==
  ASSUME BusIInv, [BusNext]_busVars
  PROVE  [Announce!Next]_Announce!vars /\ BusIInv'
  <1>1. BusTypeOK /\ BusTypeOK'
    BY BusTypes DEF BusIInv
  <1>2. CASE UNCHANGED busVars
    <2>1. UNCHANGED Announce!vars
      <3>1. UNCHANGED <<List!ForEach(Bus), Waiting>>
        BY <1>2 DEF busVars, List!ForEach, List!Detached, Waiting
      <3>2. UNCHANGED <<Hearers, StillDue>>
        BY <1>2, <3>1 DEF busVars, Hearers, IsListening, List!IsNodeInList, StillDue,
                          ezEventBus_GetNumOfListeners, List!GetListSize
      <3> QED
        BY <1>2, <3>1, <3>2 DEF busVars, Announce!vars, Hearers
    <2>2. (\E s, w : Holding(s, w)) => (\E s, w : Holding(s, w)')
      BY <1>2 DEF busVars, Holding
    <2> QED
      BY <1>1, <1>2, <2>1, <2>2 DEF BusIInv, busVars
  <1>3. CASE BusNext /\ ~ bus_orderly'
    BY <1>1, <1>3 DEF BusIInv, Announce!Next
  <1>4. CASE BusNext /\ bus_orderly'
    <2>1. bus_orderly
      BY <1>1, <1>4, RulesStayBroken
    <2>2. PICK s, w : Holding(s, w)
      BY <2>1 DEF BusIInv
    <2> QED
      BY <1>1, <1>4, <2>1, <2>2, OrderlyStep DEF BusIInv
  <1> QED
    BY <1>2, <1>3, <1>4

LEMMA BusStart ==
  ASSUME BusInit
  PROVE  Announce!Init /\ BusIInv
  <1>1. Len(<< >>) = 0 /\ << >> \in Seq(Listeners) /\ << >> \in Seq({"code", "data"} \X Events)
    BY EmptySeq
  <1>2. BusTypeOK
    BY <1>1, BusAssumption DEF BusInit, BusTypeOK
  <1>3. Ring(bus_next, << >>) /\ Back(bus_prev, << >>)
    BY <1>1 DEF Ring, Back, Spot, Once, BusInit
  <1>4. \A x : ~ Among(<< >>, x)
    BY <1>1 DEF Among
  <1>5. Holding(<< >>, << >>)
    BY <1>3, <1>4, CarriesNone DEF Holding, LoopOn, QueueAs, BusInit
  <1>6. Waiting = << >> /\ Hearers = {} /\ StillDue = {}
    BY <1>4, <1>5, HoldingViews DEF Views, Members, Due
  <1>7. Announce!Init
    BY <1>6 DEF Announce!Init, BusInit, Hearers
  <1> QED
    BY <1>2, <1>5, <1>7 DEF BusIInv

(* Whatever the callbacks do, the pointers stay those of the bus and its   *)
(* listeners, and the queue holds codes and data of events.                *)
THEOREM BusTypeCorrect == BusSpec => []BusTypeOK
  <1>1. BusIInv => BusTypeOK
    BY DEF BusIInv
  <1> QED
    BY <1>1, BusStart, BusStep, PTL DEF BusSpec

(* As long as callers keep the rules of the bus, every event is announced  *)
(* to everyone listening, once, in the order of sending and with its own   *)
(* data, whoever leaves meanwhile: ezEventBus_Run reads a node's next      *)
(* after its callback.                                                     *)
THEOREM AnnouncerRefinement == BusSpec => BusImplementsAnnouncer
  BY BusStart, BusStep, PTL DEF BusSpec, BusImplementsAnnouncer, Announce!Spec

-----------------------------------------------------------------------------
(* The OSAL demo.                                                          *)

(* The kernel's objects.                                                   *)

Kernel ==
  [interface : {"NULL", "freertos", "threadx"}, running : BOOLEAN, pool : Int,
   task : [OsalTasks -> {"none", "ready", "suspended", "deleted"}],
   semaphore : -1 .. MaxCount + 1, timer : {"none", "dormant", "active", "deleted"},
   event : {"none", "created", "deleted"}, flags : SUBSET OsalFlags, waiting : BOOLEAN,
   got : SUBSET OsalFlags, ret : {"ezSUCCESS", "ezFAIL", "ezSTATUS_TIMEOUT"},
   undefined : BOOLEAN]

(* All objects of the demo have been created.                              *)
Created(o) ==
  /\ o \in Kernel /\ o.interface \in {"freertos", "threadx"}
  /\ o.timer # "none" /\ o.event # "none" /\ \A t \in OsalTasks : o.task[t] # "none"
  /\ o.waiting => o.event = "created"

SameEvents(o, p) ==
  p.event = o.event /\ p.flags = o.flags /\ p.waiting = o.waiting /\ p.got = o.got

(* A call that is not about the event flags, and revives no task.          *)
Keeps(o, p) ==
  /\ Created(p) /\ SameEvents(o, p)
  /\ \A t \in OsalTasks : o.task[t] = "deleted" => p.task[t] = "deleted"

LEMMA Returning ==
  ASSUME NEW o, NEW p, Keeps(o, p), NEW s \in {"ezSUCCESS", "ezFAIL", "ezSTATUS_TIMEOUT"}
  PROVE  Keeps(o, Returns(p, s))
  BY DEF Keeps, Created, SameEvents, Kernel, Returns

LEMMA BeingUndefined ==
  ASSUME NEW o, NEW p, Keeps(o, p)
  PROVE  Keeps(o, Undefined(p))
  BY DEF Keeps, Created, SameEvents, Kernel, Undefined

LEMMA Unchanged ==
  ASSUME NEW o, Created(o)
  PROVE  Keeps(o, o)
  BY DEF Keeps, SameEvents

LEMMA FurtherCall ==
  ASSUME NEW o, NEW p, NEW q, Keeps(o, p), Keeps(p, q)
  PROVE  Keeps(o, q)
  BY DEF Keeps, SameEvents

(* What a port does of a call, whichever port it is.                       *)
LEMMA OnEitherPort ==
  ASSUME NEW o, Created(o), NEW f, NEW x
  PROVE  \/ o.interface = "freertos" /\ Implemented(o, f, x) = f
         \/ o.interface = "threadx" /\ Implemented(o, f, x) = x
  BY DEF Created, Implemented

LEMMA KeptByPort ==
  ASSUME NEW o, Created(o), NEW f, NEW x, Keeps(o, f), Keeps(o, x)
  PROVE  Keeps(o, Implemented(o, f, x))
  BY OnEitherPort

LEMMA KeptIfExists ==
  ASSUME NEW o, Created(o), NEW b, NEW p, b => Keeps(o, p)
  PROVE  Keeps(o, IfExists(b, p, o)) /\ Keeps(o, IfExists(b, Success(p), o))
  <1>1. Keeps(o, Undefined(o))
    BY Unchanged, BeingUndefined
  <1>2. b => Keeps(o, Success(p))
    BY Returning DEF Success
  <1> QED
    BY <1>1, <1>2 DEF IfExists

LEMMA KeptIfLegal ==
  ASSUME NEW o, Created(o), NEW b, NEW p, b => Keeps(o, p)
  PROVE  Keeps(o, IfLegal(b, p, o))
  <1>1. Keeps(o, Returns(o, "ezFAIL"))
    BY Unchanged, Returning
  <1>2. b => Keeps(o, Success(p))
    BY Returning DEF Success
  <1> QED
    BY <1>1, <1>2 DEF IfLegal

(* The calls about tasks, the timer and the semaphore.                      *)
LEMMA TaskSet ==
  ASSUME NEW o, Created(o), NEW t \in OsalTasks, NEW st \in {"ready", "suspended", "deleted"},
         o.task[t] = "deleted" => st = "deleted"
  PROVE  Keeps(o, [o EXCEPT !.task[t] = st])
  <1> DEFINE p == [o EXCEPT !.task[t] = st]   q == [o.task EXCEPT ![t] = st]
  <1>1. o \in Kernel /\ o.task \in [OsalTasks -> {"none", "ready", "suspended", "deleted"}]
    BY DEF Created, Kernel
  <1>2. /\ q \in [OsalTasks -> {"none", "ready", "suspended", "deleted"}]
        /\ \A k \in OsalTasks : q[k] = IF k = t THEN st ELSE o.task[k]
    BY <1>1
  <1>3. p = [o EXCEPT !.task = q]
    OBVIOUS
  <1> HIDE DEF q
  <1>4. [o EXCEPT !.task = q] \in Kernel /\ [o EXCEPT !.task = q].task = q
    BY <1>1, <1>2 DEF Kernel
  <1>5. SameEvents(o, [o EXCEPT !.task = q])
    BY <1>1 DEF Kernel, SameEvents
  <1>6. /\ [o EXCEPT !.task = q].interface = o.interface /\ [o EXCEPT !.task = q].timer = o.timer
    BY <1>1 DEF Kernel
  <1> HIDE DEF p
  <1>7. Keeps(o, p)
    BY <1>2, <1>3, <1>4, <1>5, <1>6 DEF Keeps, Created, SameEvents
  <1> QED
    BY <1>7 DEF p

LEMMA TimerSet ==
  ASSUME NEW o, Created(o), NEW st \in {"dormant", "active", "deleted"}
  PROVE  Keeps(o, [o EXCEPT !.timer = st])
  BY DEF Keeps, Created, SameEvents, Kernel

LEMMA SemaphoreSet ==
  ASSUME NEW o, Created(o), NEW k \in -1 .. MaxCount + 1
  PROVE  Keeps(o, [o EXCEPT !.semaphore = k])
  BY DEF Keeps, Created, SameEvents, Kernel

LEMMA TaskCalls ==
  ASSUME NEW o, Created(o), NEW t \in OsalTasks
  PROVE  /\ Keeps(o, ezOsal_TaskDelete(o, t)) /\ Keeps(o, ezOsal_TaskDelay(o))
         /\ Keeps(o, ezOsal_TaskSuspend(o, t)) /\ Keeps(o, ezOsal_TaskResume(o, t))
  <1>1. Keeps(o, ezOsal_TaskDelay(o))
    <2>1. Keeps(o, Success(o))
      BY Unchanged, Returning DEF Success
    <2> QED
      BY <2>1, KeptByPort DEF ezOsal_TaskDelay, ezOsal_FreeRTOSTaskDelay, ezOsal_ThreadXTaskDelay
  <1>2. Keeps(o, ezOsal_TaskDelete(o, t))
    <2> DEFINE p == [o EXCEPT !.task[t] = "deleted"]
    <2>1. Keeps(o, p)
      BY TaskSet
    <2> HIDE DEF p
    <2>2. Keeps(o, IfExists(Exists(o.task[t]), Success(p), o))
      BY <2>1, KeptIfExists
    <2>3. Keeps(o, IfLegal(Exists(o.task[t]), p, o))
      BY <2>1, KeptIfLegal
    <2> QED
      BY <2>2, <2>3, KeptByPort DEF p, ezOsal_TaskDelete, ezOsal_FreeRTOSTaskDelete,
                                   ezOsal_ThreadXTaskDelete
  <1>3. Keeps(o, ezOsal_TaskSuspend(o, t))
    <2> DEFINE p == [o EXCEPT !.task[t] = "suspended"]
    <2>1. Exists(o.task[t]) => Keeps(o, p)
      BY TaskSet DEF Exists
    <2> HIDE DEF p
    <2>2. Keeps(o, IfExists(Exists(o.task[t]), Success(p), o))
      BY <2>1, KeptIfExists
    <2>3. Keeps(o, IfLegal(Exists(o.task[t]), p, o))
      BY <2>1, KeptIfLegal
    <2> QED
      BY <2>2, <2>3, KeptByPort DEF p, ezOsal_TaskSuspend, ezOsal_FreeRTOSTaskSuspend,
                                   ezOsal_ThreadXTaskSuspend
  <1>4. Keeps(o, ezOsal_TaskResume(o, t))
    <2> DEFINE p == [o EXCEPT !.task[t] = "ready"]
    <2>1. Exists(o.task[t]) => Keeps(o, p)
      BY TaskSet DEF Exists
    <2>2. o.task[t] = "suspended" => Keeps(o, p)
      BY <2>1 DEF Exists
    <2> HIDE DEF p
    <2>3. Keeps(o, IfExists(Exists(o.task[t]), Success(p), o))
      BY <2>1, KeptIfExists
    <2>4. Keeps(o, IfLegal(o.task[t] = "suspended", p, o))
      BY <2>2, KeptIfLegal
    <2> QED
      BY <2>3, <2>4, KeptByPort DEF p, ezOsal_TaskResume, ezOsal_FreeRTOSTaskResume,
                                   ezOsal_ThreadXTaskResume
  <1> QED
    BY <1>1, <1>2, <1>3, <1>4

LEMMA TimerCalls ==
  ASSUME NEW o, Created(o)
  PROVE  /\ Keeps(o, ezOsal_TimerDelete(o)) /\ Keeps(o, ezOsal_TimerStart(o))
         /\ Keeps(o, ezOsal_TimerStop(o))
  <1>1. Keeps(o, ezOsal_TimerDelete(o))
    <2> DEFINE p == [o EXCEPT !.timer = "deleted"]
    <2>1. Keeps(o, p)
      BY TimerSet
    <2> HIDE DEF p
    <2>2. Keeps(o, IfExists(Exists(o.timer), Success(p), o))
      BY <2>1, KeptIfExists
    <2>3. Keeps(o, IfLegal(Exists(o.timer), p, o))
      BY <2>1, KeptIfLegal
    <2> QED
      BY <2>2, <2>3, KeptByPort DEF p, ezOsal_TimerDelete, ezOsal_FreeRTOSTimerDelete,
                                   ezOsal_ThreadXTimerDelete
  <1>2. Keeps(o, ezOsal_TimerStart(o))
    <2> DEFINE p == [o EXCEPT !.timer = "active"]
    <2>1. Keeps(o, p)
      BY TimerSet
    <2> HIDE DEF p
    <2>2. Keeps(o, IfExists(Exists(o.timer), Success(p), o))
      BY <2>1, KeptIfExists
    <2>3. Keeps(o, IfLegal(o.timer = "dormant", p, o))
      BY <2>1, KeptIfLegal
    <2> QED
      BY <2>2, <2>3, KeptByPort DEF p, ezOsal_TimerStart, ezOsal_FreeRTOSTimerStart,
                                   ezOsal_ThreadXTimerStart
  <1>3. Keeps(o, ezOsal_TimerStop(o))
    <2> DEFINE p == [o EXCEPT !.timer = "dormant"]
    <2>1. Keeps(o, p)
      BY TimerSet
    <2> HIDE DEF p
    <2>2. Keeps(o, IfExists(Exists(o.timer), Success(p), o))
      BY <2>1, KeptIfExists
    <2>3. Keeps(o, IfLegal(Exists(o.timer), p, o))
      BY <2>1, KeptIfLegal
    <2> QED
      BY <2>2, <2>3, KeptByPort DEF p, ezOsal_TimerStop, ezOsal_FreeRTOSTimerStop,
                                   ezOsal_ThreadXTimerStop
  <1> QED
    BY <1>1, <1>2, <1>3

LEMMA SemaphoreCalls ==
  ASSUME NEW o, Created(o)
  PROVE  /\ Keeps(o, ezOsal_SemaphoreTake(o)) /\ Keeps(o, ezOsal_SemaphoreDelete(o))
         /\ o.semaphore <= MaxCount => Keeps(o, ezOsal_SemaphoreGive(o))
  <1> DEFINE c == o.semaphore
             less == [o EXCEPT !.semaphore = c - 1]
             more == [o EXCEPT !.semaphore = c + 1]
             capped == [o EXCEPT !.semaphore = IF c < MaxCount THEN c + 1 ELSE c]
             gone == [o EXCEPT !.semaphore = -1]
  <1>0. c \in -1 .. MaxCount + 1 /\ MaxCount \in Nat
    BY OsalAssumption DEF Created, Kernel
  <1>1. c > 0 => Keeps(o, less)
    <2> SUFFICES ASSUME c > 0 PROVE Keeps(o, less)
      OBVIOUS
    <2>1. c - 1 \in -1 .. MaxCount + 1
      BY <1>0
    <2> QED
      BY <2>1, SemaphoreSet
  <1>2. c >= 0 /\ c <= MaxCount => Keeps(o, more)
    <2> SUFFICES ASSUME c >= 0, c <= MaxCount PROVE Keeps(o, more)
      OBVIOUS
    <2>1. c + 1 \in -1 .. MaxCount + 1
      BY <1>0
    <2> QED
      BY <2>1, SemaphoreSet
  <1>3. c >= 0 => Keeps(o, capped)
    <2> SUFFICES ASSUME c >= 0 PROVE Keeps(o, capped)
      OBVIOUS
    <2> DEFINE k == IF c < MaxCount THEN c + 1 ELSE c
    <2>1. k \in -1 .. MaxCount + 1
      BY <1>0
    <2> QED
      BY <2>1, SemaphoreSet
  <1>4. Keeps(o, gone)
    <2>1. -1 \in -1 .. MaxCount + 1
      BY <1>0
    <2> QED
      BY <2>1, SemaphoreSet
  <1>5. Keeps(o, Returns(o, "ezSTATUS_TIMEOUT"))
    BY Unchanged, Returning
  <1> HIDE DEF less, more, capped, gone
  <1>6. Keeps(o, ezOsal_SemaphoreDelete(o))
    <2>1. Keeps(o, IfExists(c >= 0, Success(gone), o)) /\ Keeps(o, IfLegal(c >= 0, gone, o))
      BY <1>4, KeptIfExists, KeptIfLegal
    <2> QED
      BY <2>1, KeptByPort DEF gone, ezOsal_SemaphoreDelete, ezOsal_SemaphoreFreeRTOSDelete,
                              ezOsal_SemaphoreThreadXDelete
  <1>7. Keeps(o, ezOsal_SemaphoreTake(o))
    <2> DEFINE taken == IF c > 0 THEN Success(less) ELSE Returns(o, "ezSTATUS_TIMEOUT")
    <2>1. c > 0 => Keeps(o, Success(less))
      BY <1>1, Returning DEF Success
    <2>2. Keeps(o, taken)
      BY <2>1, <1>5
    <2>3. taken = IF o.semaphore > 0 THEN Success([o EXCEPT !.semaphore = o.semaphore - 1])
                  ELSE Returns(o, "ezSTATUS_TIMEOUT")
      BY DEF less
    <2> HIDE DEF taken
    <2>4. Keeps(o, IfExists(c >= 0, taken, o))
      BY <2>2, KeptIfExists
    <2> QED
      BY <2>2, <2>3, <2>4, KeptByPort DEF ezOsal_SemaphoreTake, ezOsal_SemaphoreFreeRTOSTake,
                                          ezOsal_SemaphoreThreadXTake
  <1>8. c <= MaxCount => Keeps(o, ezOsal_SemaphoreGive(o))
    <2> SUFFICES ASSUME c <= MaxCount PROVE Keeps(o, ezOsal_SemaphoreGive(o))
      OBVIOUS
    <2>1. Keeps(o, IfExists(c >= 0, Success(capped), o))
      BY <1>3, KeptIfExists
    <2>2. Keeps(o, IfLegal(c >= 0, more, o))
      BY <1>2, KeptIfLegal
    <2> QED
      BY <2>1, <2>2, KeptByPort DEF capped, more, ezOsal_SemaphoreGive, ezOsal_SemaphoreFreeRTOSGive,
                                    ezOsal_SemaphoreThreadXGive
  <1> QED
    BY <1>6, <1>7, <1>8

-----------------------------------------------------------------------------
(* The calls about the event flags.                                        *)

(* After the call only the flags, the wait and what it was given differ.    *)
Grouped(o, p, f, w, g) ==
  /\ Created(p) /\ p.task = o.task /\ p.event = o.event
  /\ p.flags = f /\ p.waiting = w /\ p.got = g

LEMMA GroupSet ==
  ASSUME NEW o, Created(o), NEW f \in SUBSET OsalFlags, NEW w \in BOOLEAN,
         NEW g \in SUBSET OsalFlags, w => o.event = "created"
  PROVE  Grouped(o, [o EXCEPT !.flags = f, !.waiting = w, !.got = g], f, w, g)
  BY DEF Grouped, Created, Kernel

LEMMA GroupReturns ==
  ASSUME NEW o, NEW p, NEW f, NEW w, NEW g, Grouped(o, p, f, w, g),
         NEW s \in {"ezSUCCESS", "ezFAIL", "ezSTATUS_TIMEOUT"}
  PROVE  Grouped(o, Returns(p, s), f, w, g)
  BY DEF Grouped, Created, Kernel, Returns

LEMMA GroupLeft ==
  ASSUME NEW o, Created(o), NEW s \in {"ezSUCCESS", "ezFAIL", "ezSTATUS_TIMEOUT"}
  PROVE  /\ Grouped(o, Returns(o, s), o.flags, o.waiting, o.got)
         /\ Grouped(o, Undefined(o), o.flags, o.waiting, o.got)
  BY DEF Grouped, Created, Kernel, Returns, Undefined

(* The forms of an update that name only some of the fields.               *)
LEMMA PartlySet ==
  ASSUME NEW o, Created(o), NEW f \in SUBSET OsalFlags, NEW g \in SUBSET OsalFlags
  PROVE  /\ Grouped(o, [o EXCEPT !.flags = f], f, o.waiting, o.got)
         /\ Grouped(o, [o EXCEPT !.got = g, !.flags = f], f, o.waiting, g)
         /\ Grouped(o, [o EXCEPT !.got = g], o.flags, o.waiting, g)
         /\ o.event = "created" => Grouped(o, [o EXCEPT !.waiting = TRUE], o.flags, TRUE, o.got)
  BY DEF Grouped, Created, Kernel

(* What a set does, on either port: the waiting task is given the flags, or *)
(* they stay set.                                                          *)
Handed(o, p, mask) ==
  /\ Created(p) /\ p.task = o.task /\ p.event = o.event
  /\ IF o.event = "created"
     THEN /\ ~p.waiting
          /\ IF o.waiting THEN p.got = o.flags \cup mask
             ELSE p.got = o.got /\ p.flags = o.flags \cup mask
     ELSE SameEvents(o, p)

LEMMA HandedIf ==
  ASSUME NEW o, NEW p, NEW mask, NEW f, NEW w, NEW g, Grouped(o, p, f, w, g),
         IF o.event = "created"
         THEN ~w /\ IF o.waiting THEN g = o.flags \cup mask ELSE g = o.got /\ f = o.flags \cup mask
         ELSE f = o.flags /\ w = o.waiting /\ g = o.got
  PROVE  Handed(o, p, mask)
  BY DEF Handed, Grouped, SameEvents

LEMMA EventSetCall ==
  ASSUME NEW o, Created(o), NEW mask \in SUBSET OsalFlags
  PROVE  Handed(o, ezOsal_EventSet(o, mask), mask)
  <1> DEFINE all == o.flags \cup mask
             woken == [o EXCEPT !.flags = {}, !.waiting = FALSE, !.got = all]
             kept == [o EXCEPT !.flags = all]
             done == [o EXCEPT !.flags = all, !.waiting = FALSE, !.got = IF o.waiting THEN all ELSE o.got]
  <1>1. /\ all \in SUBSET OsalFlags /\ {} \in SUBSET OsalFlags /\ o.got \in SUBSET OsalFlags
        /\ o.waiting \in BOOLEAN /\ o.event \in {"created", "deleted"}
        /\ o.waiting => o.event = "created"
    BY DEF Created, Kernel
  <1>2. Exists(o.event) <=> o.event = "created"
    BY <1>1 DEF Exists
  <1>3. Grouped(o, woken, {}, FALSE, all)
    BY <1>1, GroupSet
  <1>4. Grouped(o, kept, all, o.waiting, o.got)
    BY <1>1, PartlySet
  <1>5. Grouped(o, done, all, FALSE, IF o.waiting THEN all ELSE o.got)
    BY <1>1, GroupSet
  <1> HIDE DEF woken, kept, done
  <1>6. /\ Grouped(o, Returns(woken, "ezFAIL"), {}, FALSE, all)
        /\ Grouped(o, Success(kept), all, o.waiting, o.got)
        /\ Grouped(o, Success(done), all, FALSE, IF o.waiting THEN all ELSE o.got)
    BY <1>3, <1>4, <1>5, GroupReturns DEF Success
  <1>7. /\ Grouped(o, Undefined(o), o.flags, o.waiting, o.got)
        /\ Grouped(o, Returns(o, "ezFAIL"), o.flags, o.waiting, o.got)
    BY GroupLeft
  <1> DEFINE f == IF o.waiting THEN Returns(woken, "ezFAIL") ELSE Success(kept)
  <1>8. Handed(o, IfExists(Exists(o.event), f, o), mask)
    <2>1. CASE o.event # "created"
      <3>1. Handed(o, Undefined(o), mask)
        BY <2>1, <1>7, HandedIf
      <3> QED
        BY <2>1, <1>2, <3>1 DEF IfExists
    <2>2. CASE o.event = "created" /\ o.waiting
      <3>1. Handed(o, Returns(woken, "ezFAIL"), mask)
        BY <2>2, <1>6, HandedIf
      <3> QED
        BY <2>2, <1>2, <3>1 DEF IfExists
    <2>3. CASE o.event = "created" /\ ~o.waiting
      <3>1. Handed(o, Success(kept), mask)
        BY <2>3, <1>6, HandedIf
      <3> QED
        BY <2>3, <1>2, <3>1 DEF IfExists
    <2> QED
      BY <2>1, <2>2, <2>3
  <1>9. Handed(o, IfLegal(Exists(o.event), done, o), mask)
    <2>1. CASE o.event # "created"
      <3>1. Handed(o, Returns(o, "ezFAIL"), mask)
        BY <2>1, <1>7, HandedIf
      <3> QED
        BY <2>1, <1>2, <3>1 DEF IfLegal
    <2>2. CASE o.event = "created"
      <3>1. Handed(o, Success(done), mask)
        BY <2>2, <1>6, HandedIf
      <3> QED
        BY <2>2, <1>2, <3>1 DEF IfLegal
    <2> QED
      BY <2>1, <2>2
  <1>10. /\ ezOsal_FreeRTOSEventSet(o, mask) = IfExists(Exists(o.event), f, o)
         /\ ezOsal_ThreadXEventSet(o, mask) = IfLegal(Exists(o.event), done, o)
    BY DEF ezOsal_FreeRTOSEventSet, ezOsal_ThreadXEventSet, woken, kept, done
  <1> QED
    BY <1>8, <1>9, <1>10, OnEitherPort DEF ezOsal_EventSet

(* What a wait for all the flags does: it blocks while none is set; otherwise *)
(* the task has them, and the port may or may not have cleared them.         *)
Awaited(o, p) ==
  /\ Created(p) /\ p.task = o.task /\ p.event = o.event
  /\ o.event = "created" => IF o.flags = {} THEN p.waiting
                            ELSE p.got = o.flags /\ p.waiting = o.waiting
  /\ o.event # "created" => ~p.waiting /\ p.flags = o.flags

LEMMA EventWaitCall ==
  ASSUME NEW o, Created(o)
  PROVE  Awaited(o, ezOsal_EventWait(o, OsalFlags))
  <1> DEFINE f == o.flags
             cleared == [o EXCEPT !.got = f, !.flags = f \ OsalFlags]
             seen == [o EXCEPT !.got = f]
             blocked == [o EXCEPT !.waiting = TRUE]
             none == [o EXCEPT !.got = {}]
  <1>1. /\ f \in SUBSET OsalFlags /\ {} \in SUBSET OsalFlags /\ o.got \in SUBSET OsalFlags
        /\ f \ OsalFlags \in SUBSET OsalFlags
        /\ o.waiting \in BOOLEAN /\ o.event \in {"created", "deleted"}
        /\ o.waiting => o.event = "created"
    BY DEF Created, Kernel
  <1>2. (Exists(o.event) <=> o.event = "created") /\ (f \cap OsalFlags # {} <=> f # {})
    BY <1>1 DEF Exists
  <1>3. Grouped(o, cleared, f \ OsalFlags, o.waiting, f)
    BY <1>1, PartlySet
  <1>4. Grouped(o, seen, f, o.waiting, f) /\ Grouped(o, none, f, o.waiting, {})
    BY <1>1, PartlySet
  <1>5. o.event = "created" => Grouped(o, blocked, f, TRUE, o.got)
    BY <1>1, PartlySet
  <1>6. Grouped(o, Undefined(o), f, o.waiting, o.got)
    BY GroupLeft
  <1> HIDE DEF cleared, seen, blocked, none
  <1> DEFINE x == IF f \cap OsalFlags # {} THEN cleared ELSE blocked
             y == IF ~Exists(o.event) THEN none ELSE IF f \cap OsalFlags # {} THEN seen ELSE blocked
  <1>7. Awaited(o, IfExists(Exists(o.event), x, o))
    BY <1>1, <1>2, <1>3, <1>5, <1>6 DEF IfExists, Awaited, Grouped
  <1>8. Awaited(o, y)
    BY <1>1, <1>2, <1>4, <1>5 DEF Awaited, Grouped
  <1>9. /\ ezOsal_FreeRTOSEventWait(o, OsalFlags) = IfExists(Exists(o.event), x, o)
        /\ ezOsal_ThreadXOSEventWait(o, OsalFlags) = y
    BY DEF ezOsal_FreeRTOSEventWait, ezOsal_ThreadXOSEventWait, cleared, seen, blocked, none
  <1> QED
    BY <1>7, <1>8, <1>9, OnEitherPort DEF ezOsal_EventWait

(* What clearing a flag does: no other flag goes.                           *)
Cleared(o, p, mask) ==
  /\ Created(p) /\ p.task = o.task /\ p.event = o.event
  /\ o.flags \ mask \subseteq p.flags /\ p.waiting = o.waiting /\ p.got = o.got

LEMMA EventClearCall ==
  ASSUME NEW o, Created(o), NEW mask
  PROVE  Cleared(o, ezOsal_EventClear(o, mask), mask)
  <1> DEFINE f == o.flags \ mask   p == [o EXCEPT !.flags = f]
  <1>1. /\ f \in SUBSET OsalFlags /\ o.got \in SUBSET OsalFlags /\ o.waiting \in BOOLEAN
        /\ o.waiting => o.event = "created"
    BY DEF Created, Kernel
  <1>2. Grouped(o, p, f, o.waiting, o.got)
    BY <1>1, PartlySet
  <1> HIDE DEF p
  <1>3. Grouped(o, Success(p), f, o.waiting, o.got)
    BY <1>2, GroupReturns DEF Success
  <1>4. /\ Grouped(o, Undefined(o), o.flags, o.waiting, o.got)
        /\ Grouped(o, Returns(o, "ezFAIL"), o.flags, o.waiting, o.got)
    BY GroupLeft
  <1>5. Cleared(o, IfExists(Exists(o.event), Success(p), o), mask)
    BY <1>3, <1>4 DEF IfExists, Cleared, Grouped
  <1>6. Cleared(o, IfLegal(Exists(o.event), p, o), mask)
    BY <1>3, <1>4 DEF IfLegal, Cleared, Grouped
  <1> QED
    BY <1>5, <1>6, OnEitherPort
       DEF p, ezOsal_EventClear, ezOsal_FreeRTOSEventClear, ezOsal_ThreadXEventClear

LEMMA EventDeleteCall ==
  ASSUME NEW o, Created(o)
  PROVE  LET p == ezOsal_EventDelete(o) IN
         Created(p) /\ p.task = o.task /\ (p.waiting => o.waiting /\ p.event = "created")
  <1> DEFINE p == [o EXCEPT !.event = "deleted", !.waiting = FALSE, !.got = {}]
             Gone(q) == Created(q) /\ q.task = o.task /\ (q.waiting => o.waiting /\ q.event = "created")
  <1>1. Gone(Undefined(o)) /\ Gone(Returns(o, "ezFAIL"))
    BY DEF Created, Kernel, Returns, Undefined
  <1>a. Gone(p)
    BY DEF Created, Kernel
  <1>b. ASSUME NEW q, Gone(q) PROVE Gone(Success(q))
    BY <1>b DEF Created, Kernel, Success, Returns
  <1> HIDE DEF p, Gone
  <1>2. /\ Gone(IfExists(Exists(o.event), Success(p), o)) /\ Gone(IfLegal(Exists(o.event), p, o))
    BY <1>1, <1>a, <1>b DEF IfExists, IfLegal
  <1>3. Gone(ezOsal_EventDelete(o))
    BY <1>2, OnEitherPort
       DEF p, ezOsal_EventDelete, ezOsal_FreeRTOSEventDelete, ezOsal_ThreadXEventDelete
  <1> QED
    BY <1>3 DEF Gone

-----------------------------------------------------------------------------
(* The creation of the objects, call by call: what exists so far.           *)
Being(o, port, k, tasks, timer, ev) ==
  /\ o \in Kernel /\ o.interface = port /\ o.pool = k /\ o.task = tasks
  /\ o.timer = timer /\ o.event = ev /\ ~o.waiting

LEMMA BeingReturns ==
  ASSUME NEW o, NEW port, NEW k, NEW tasks, NEW timer, NEW ev, Being(o, port, k, tasks, timer, ev)
  PROVE  Being(Success(o), port, k, tasks, timer, ev)
  BY DEF Being, Kernel, Success, Returns

LEMMA PortOf ==
  ASSUME NEW o, NEW port \in {"freertos", "threadx"}, o.interface = port, NEW f, NEW x
  PROVE  Implemented(o, f, x) = IF port = "freertos" THEN f ELSE x
  BY DEF Implemented

LEMMA ObjectsCreate ==
  ASSUME NEW o, NEW port \in {"freertos", "threadx"}, NEW k, NEW tasks, NEW timer, NEW ev,
         Being(o, port, k, tasks, timer, ev)
  PROVE  /\ Being(ezOsal_SemaphoreCreate(o), port, k, tasks, timer, ev)
         /\ Being(ezOsal_TimerCreate(o), port, k, tasks, "dormant", ev)
         /\ Being(ezOsal_EventCreate(o), port, k, tasks, timer, "created")
         /\ Being(ezOsal_TaskStartScheduler(o), port, k, tasks, timer, ev)
         /\ ezOsal_TaskStartScheduler(o).waiting = o.waiting
  <1> DEFINE empty == [o EXCEPT !.semaphore = 0]   full == [o EXCEPT !.semaphore = MaxCount]
             dormant == [o EXCEPT !.timer = "dormant"]   created == [o EXCEPT !.event = "created"]
             running == [o EXCEPT !.running = TRUE]
  <1>0. o.interface = port
    BY DEF Being
  <1>1. Being(empty, port, k, tasks, timer, ev) /\ Being(full, port, k, tasks, timer, ev)
    BY OsalAssumption DEF Being, Kernel
  <1>2. Being(dormant, port, k, tasks, "dormant", ev)
    BY DEF Being, Kernel
  <1>3. Being(created, port, k, tasks, timer, "created")
    BY DEF Being, Kernel
  <1>4. Being(running, port, k, tasks, timer, ev) /\ running.waiting = o.waiting
    BY DEF Being, Kernel
  <1> HIDE DEF empty, full, dormant, created, running
  <1>5. Being(ezOsal_SemaphoreCreate(o), port, k, tasks, timer, ev)
    BY <1>0, <1>1, BeingReturns, PortOf
       DEF ezOsal_SemaphoreCreate, ezOsal_FreeRTOSSemaphoreCreate, ezOsal_ThreadXSemaphoreCreate,
           empty, full
  <1>6. Being(ezOsal_TimerCreate(o), port, k, tasks, "dormant", ev)
    BY <1>0, <1>2, BeingReturns, PortOf
       DEF ezOsal_TimerCreate, ezOsal_FreeRTOSTimerCreate, ezOsal_ThreadXTimerCreate, dormant
  <1>7. Being(ezOsal_EventCreate(o), port, k, tasks, timer, "created")
    BY <1>0, <1>3, BeingReturns, PortOf
       DEF ezOsal_EventCreate, ezOsal_FreeRTOSEventCreate, ezOsal_ThreadXEventCreate, created
  <1>8. ezOsal_TaskStartScheduler(o) = running
    BY <1>0, PortOf
       DEF ezOsal_TaskStartScheduler, ezOsal_FreeRTOSTaskStartScheduler,
           ezOsal_ThreadXTaskStartScheduler, running
  <1> QED
    BY <1>4, <1>5, <1>6, <1>7, <1>8

LEMMA TaskCreated ==
  ASSUME NEW o, NEW port \in {"freertos", "threadx"}, NEW k \in Nat, NEW tasks, NEW timer, NEW ev,
         NEW t, Being(o, port, k, tasks, timer, ev), port = "threadx" => k > 0
  PROVE  Being(ezOsal_TaskCreate(o, t), port, IF port = "freertos" THEN k ELSE k - 1,
               [tasks EXCEPT ![t] = "ready"], timer, ev)
  <1> DEFINE q == [o.task EXCEPT ![t] = "ready"]   j == k - 1
             f == [o EXCEPT !.task = q]   x == [o EXCEPT !.pool = j, !.task = q]
  <1>0. o.interface = port /\ o.pool = k /\ o.task = tasks
        /\ tasks \in [OsalTasks -> {"none", "ready", "suspended", "deleted"}]
    BY DEF Being, Kernel
  <1>a. q \in [OsalTasks -> {"none", "ready", "suspended", "deleted"}]
    BY <1>0
  <1>1. q \in [OsalTasks -> {"none", "ready", "suspended", "deleted"}] /\ j \in Int
    BY <1>a
  <1>2. f = [o EXCEPT !.task[t] = "ready"] /\ x = [o EXCEPT !.pool = k - 1, !.task[t] = "ready"]
    OBVIOUS
  <1> HIDE DEF q, j
  <1>3. Being(f, port, k, q, timer, ev) /\ Being(x, port, j, q, timer, ev)
    BY <1>1 DEF Being, Kernel
  <1> HIDE DEF f, x
  <1>4. Being(Success(f), port, k, q, timer, ev) /\ Being(Success(x), port, j, q, timer, ev)
    BY <1>3, BeingReturns
  <1>5. ezOsal_FreeRTOSTaskCreate(o, t) = Success(f)
    BY <1>2 DEF ezOsal_FreeRTOSTaskCreate
  <1>6. k > 0 => ezOsal_ThreadXTaskCreate(o, t) = Success(x)
    BY <1>0, <1>2 DEF ezOsal_ThreadXTaskCreate, IfLegal
  <1>7. ezOsal_TaskCreate(o, t) = IF port = "freertos" THEN Success(f) ELSE Success(x)
    BY <1>0, <1>5, <1>6, PortOf DEF ezOsal_TaskCreate
  <1> QED
    BY <1>0, <1>4, <1>7 DEF q, j

(* With every object created, the tasks are then suspended.                *)
LEMMA AllCreated ==
  ASSUME NEW o, NEW port \in {"freertos", "threadx"}, NEW k \in Nat,
         Being(o, port, k, [t \in OsalTasks |-> "none"], "none", "none"), port = "threadx" => k >= 3
  PROVE  /\ Created(ezApp_OsalInit(o)) /\ ~ezApp_OsalInit(o).waiting
         /\ ezApp_OsalInit(o).event = "created"
  <1> DEFINE none == [t \in OsalTasks |-> "none"]
             Less(i) == IF port = "freertos" THEN i ELSE i - 1
             t1 == [none EXCEPT !["task1"] = "ready"]
             t2 == [t1 EXCEPT !["task2"] = "ready"]
             t3 == [t2 EXCEPT !["task3"] = "ready"]
             k1 == Less(k)   k2 == Less(k1)   k3 == Less(k2)
             o1 == ezOsal_TimerCreate(ezOsal_SemaphoreCreate(o))
             o2 == ezOsal_TaskCreate(o1, "task1")   o3 == ezOsal_TaskCreate(o2, "task2")
             o4 == ezOsal_TaskCreate(o3, "task3")   all == ezOsal_EventCreate(o4)
  <1>1. /\ k1 \in Nat /\ k2 \in Nat /\ k3 \in Nat
        /\ port = "threadx" => k > 0 /\ k1 > 0 /\ k2 > 0
    OBVIOUS
  <1>2. t3 \in [OsalTasks -> {"none", "ready", "suspended", "deleted"}]
        /\ \A t \in OsalTasks : t3[t] # "none"
    BY OsalAppAssumption
  <1>3. Being(o, port, k, none, "none", "none")
    OBVIOUS
  <1>10. ezApp_OsalInit(o)
           = ezOsal_TaskSuspend(ezOsal_TaskSuspend(ezOsal_TaskSuspend(all, "task1"), "task2"), "task3")
    BY DEF ezApp_OsalInit
  <1> HIDE DEF none
  <1>4. Being(o1, port, k, none, "dormant", "none")
    BY <1>3, ObjectsCreate
  <1> HIDE DEF o1
  <1>5. Being(o2, port, k1, t1, "dormant", "none")
    BY <1>1, <1>4, TaskCreated
  <1> HIDE DEF o2, k1, t1
  <1>6. Being(o3, port, k2, t2, "dormant", "none")
    BY <1>1, <1>5, TaskCreated
  <1> HIDE DEF o3, k2, t2
  <1>7. Being(o4, port, k3, t3, "dormant", "none")
    BY <1>1, <1>6, TaskCreated
  <1> HIDE DEF o4, k3, t3
  <1>8. Being(all, port, k3, t3, "dormant", "created")
    BY <1>7, ObjectsCreate
  <1>9. Created(all) /\ ~all.waiting /\ all.event = "created"
    BY <1>2, <1>8 DEF Created, Being
  <1> HIDE DEF all
  <1> DEFINE s1 == ezOsal_TaskSuspend(all, "task1")
             s2 == ezOsal_TaskSuspend(s1, "task2")   s3 == ezOsal_TaskSuspend(s2, "task3")
  <1>11. "task1" \in OsalTasks /\ "task2" \in OsalTasks /\ "task3" \in OsalTasks
    BY OsalAppAssumption
  <1>12. Keeps(all, s1)
    BY <1>9, <1>11, TaskCalls
  <1>13. Keeps(s1, s2)
    BY <1>11, <1>12, TaskCalls DEF Keeps
  <1>14. Keeps(s2, s3)
    BY <1>11, <1>13, TaskCalls DEF Keeps
  <1>16. ezApp_OsalInit(o) = s3
    BY <1>10
  <1> HIDE DEF s1, s2, s3
  <1>15. Created(s3) /\ s3.waiting = all.waiting /\ s3.event = all.event
    BY <1>12, <1>13, <1>14 DEF Keeps, SameEvents
  <1> QED
    BY <1>9, <1>15, <1>16

(* The demo as main leaves it.                                             *)
LEMMA StartedCreated ==
  ASSUME NEW port \in {"freertos", "threadx"}, PoolStacks >= 3
  PROVE  Created(Started(port)) /\ ~Started(port).waiting /\ Started(port).event = "created"
  <1> DEFINE none == [t \in OsalTasks |-> "none"]
             chosen == ezOsal_SetInterface(NoObjects, port)
  <1>0. none \in [OsalTasks -> {"none", "ready", "suspended", "deleted"}]
    OBVIOUS
  <1>a. NoObjects \in Kernel
    BY OsalAssumption, <1>0 DEF NoObjects, Kernel
  <1>b. /\ NoObjects.pool = 0 /\ NoObjects.task = none /\ NoObjects.timer = "none"
        /\ NoObjects.event = "none" /\ NoObjects.waiting = FALSE
    BY DEF NoObjects
  <1>c. Being(NoObjects, NoObjects.interface, 0, none, "none", "none")
    BY <1>a, <1>b DEF Being
  <1>1. Being(chosen, port, 0, none, "none", "none")
    <2> DEFINE p == [NoObjects EXCEPT !.interface = port]
    <2>1. Being(p, port, 0, none, "none", "none")
      BY <1>c DEF Being, Kernel
    <2> HIDE DEF p
    <2> QED
      BY <2>1, BeingReturns DEF ezOsal_SetInterface, p
  <1> HIDE DEF chosen
  <1>2. CASE port = "freertos"
    <2> DEFINE o == ezApp_OsalInit(chosen)   p == ezOsal_TaskStartScheduler(o)
    <2>1. Created(o) /\ ~o.waiting /\ o.event = "created"
      BY <1>1, <1>2, AllCreated
    <2>2. p = [o EXCEPT !.running = TRUE]
      BY <2>1, OnEitherPort DEF ezOsal_TaskStartScheduler, ezOsal_FreeRTOSTaskStartScheduler,
                                ezOsal_ThreadXTaskStartScheduler
    <2>3. Started(port) = p
      BY <1>2 DEF Started, chosen
    <2> HIDE DEF o, p
    <2>4. Created(p) /\ ~p.waiting /\ p.event = "created"
      BY <2>1, <2>2 DEF Created, Kernel
    <2> QED
      BY <2>3, <2>4
  <1>3. CASE port = "threadx"
    <2> DEFINE r == ezOsal_TaskStartScheduler(chosen)   q == [r EXCEPT !.pool = PoolStacks]
    <2>1. Being(r, port, 0, none, "none", "none")
      BY <1>1, ObjectsCreate
    <2>2. Started(port) = ezApp_OsalInit(ezOsal_Init(r))
      BY <1>3 DEF Started, chosen
    <2> HIDE DEF r
    <2>3. Being(q, port, PoolStacks, none, "none", "none")
      BY <2>1, OsalAssumption DEF Being, Kernel
    <2>4. r.interface = port
      BY <2>1 DEF Being
    <2> HIDE DEF q
    <2>5. Being(Success(q), port, PoolStacks, none, "none", "none")
      BY <2>3, BeingReturns
    <2>6. ezOsal_Init(r) = Success(q)
      BY <1>3, <2>4, PortOf DEF ezOsal_Init, ezOsal_ThreadXInit, q
    <2> QED
      BY <1>3, <2>2, <2>5, <2>6, AllCreated, OsalAssumption
  <1> QED
    BY <1>2, <1>3

-----------------------------------------------------------------------------
(* Flag 2, which the timer's fifth call sets and no other does, is not lost *)
(* on its way to task 3: it stays set, or task 3 has been given it, has     *)
(* seen it, is acting on it, or is gone.                                    *)
FlagTwoSet == elapsed > 4 \/ (elapsed = 4 /\ callback = "running")
TimerFlagKept ==
  FlagTwoSet =>
    \/ FLAG2 \in os.flags
    \/ task3.at = "waiting" /\ ~os.waiting /\ FLAG2 \in os.got
    \/ task3.at = "seen" /\ FLAG2 \in task3.bit_mask
    \/ task3.at \in {"stop timer", "stop itself"}
    \/ os.task["task3"] = "deleted"

(* The inductive invariant of the demo.                                    *)
OsalCounts ==
  /\ counts \in [{"task1", "task2"} -> 0 .. CountRange - 1]
  /\ elapsed \in 0 .. MaxElapsed /\ callback \in {"none", "running"}
  /\ callback = "running" => elapsed < MaxElapsed
OsalWaits == os.waiting => task3.at = "waiting"
OsalUsed == os.event = "deleted" => os.task["task3"] = "deleted"
OsalIInv ==
  /\ Created(os) /\ OsalCounts /\ OsalWaits /\ OsalUsed /\ TimerFlagKept

LEMMA OsalIInvTyped ==
  ASSUME OsalIInv
  PROVE  OsalTypeOK
  <1>1. /\ os \in Kernel /\ os.interface \in {"freertos", "threadx"}
        /\ os.timer # "none" /\ os.event # "none" /\ \A t \in OsalTasks : os.task[t] # "none"
        /\ os.waiting => os.event = "created"
    BY DEF OsalIInv, Created
  <1>2. os.task \in [OsalTasks -> {"ready", "suspended", "deleted"}]
    <2>1. os.task \in [OsalTasks -> {"none", "ready", "suspended", "deleted"}]
      BY <1>1 DEF Kernel
    <2> QED
      BY <1>1, <2>1
  <1>3. /\ os.semaphore \in -1 .. MaxCount + 1
        /\ os.timer \in {"dormant", "active", "deleted"} /\ os.event \in {"created", "deleted"}
        /\ os.flags \subseteq OsalFlags /\ os.got \subseteq OsalFlags
    BY <1>1 DEF Kernel
  <1>4. os.waiting => os.event = "created" /\ task3.at = "waiting"
    BY <1>1 DEF OsalIInv, OsalWaits
  <1>5. OsalCounts
    BY DEF OsalIInv
  <1> QED
    BY <1>1, <1>2, <1>3, <1>4, <1>5 DEF OsalTypeOK, OsalCounts

LEMMA OsalStarts ==
  ASSUME OsalInit, PoolStacks >= 3
  PROVE  OsalIInv
  <1>1. PICK port \in {"freertos", "threadx"} : os = Started(port)
    BY DEF OsalInit
  <1>2. Created(os) /\ ~os.waiting /\ os.event = "created"
    BY <1>1, StartedCreated
  <1>3. OsalCounts /\ ~FlagTwoSet
    BY OsalAppAssumption DEF OsalInit, OsalCounts, FlagTwoSet
  <1> QED
    BY <1>2, <1>3 DEF OsalIInv, OsalWaits, OsalUsed, TimerFlagKept

(* A step that leaves the event flags and task 3's place alone.             *)
LEMMA KeptByCalls ==
  ASSUME OsalIInv, Keeps(os, os'), UNCHANGED task3, OsalCounts', FlagTwoSet' => FlagTwoSet
  PROVE  OsalIInv'
  <1>1. "task3" \in OsalTasks
    BY OsalAppAssumption
  <1>2. /\ Created(os') /\ os'.event = os.event /\ os'.flags = os.flags
        /\ os'.waiting = os.waiting /\ os'.got = os.got
        /\ os.task["task3"] = "deleted" => os'.task["task3"] = "deleted"
    BY <1>1 DEF Keeps, SameEvents
  <1>3. Created(os)'
    BY <1>2 DEF Created, Kernel
  <1>4. OsalWaits' /\ OsalUsed'
    BY <1>2 DEF OsalIInv, OsalWaits, OsalUsed
  <1>5. TimerFlagKept'
    BY <1>2 DEF OsalIInv, TimerFlagKept
  <1> QED
    BY <1>3, <1>4, <1>5 DEF OsalIInv

(* A set of event flags, by the timer's callback.                          *)
LEMMA KeptBySet ==
  ASSUME OsalIInv, NEW mask \in SUBSET OsalFlags, os' = ezOsal_EventSet(os, mask),
         UNCHANGED task3, OsalCounts', FlagTwoSet' => FlagTwoSet \/ FLAG2 \in mask
  PROVE  OsalIInv'
  <1> DEFINE p == ezOsal_EventSet(os, mask)
  <1>0. Created(os) /\ os.event \in {"created", "deleted"}
    BY DEF OsalIInv, Created, Kernel
  <1>1. Handed(os, p, mask)
    BY <1>0, EventSetCall
  <1> HIDE DEF p
  <1>2. /\ Created(p) /\ p.task = os.task /\ p.event = os.event
        /\ os.event = "created" => /\ ~p.waiting
                                   /\ os.waiting => p.got = os.flags \cup mask
                                   /\ ~os.waiting => p.got = os.got /\ p.flags = os.flags \cup mask
        /\ os.event # "created" => /\ p.flags = os.flags /\ p.waiting = os.waiting /\ p.got = os.got
    BY <1>1 DEF Handed, SameEvents
  <1>3. os' = p
    BY DEF p
  <1>4. Created(os)'
    BY <1>2, <1>3 DEF Created, Kernel
  <1>5. OsalWaits' /\ OsalUsed'
    BY <1>2, <1>3 DEF OsalIInv, OsalWaits, OsalUsed
  <1>6. TimerFlagKept'
    BY <1>0, <1>2, <1>3 DEF OsalIInv, OsalWaits, OsalUsed, TimerFlagKept
  <1> QED
    BY <1>4, <1>5, <1>6 DEF OsalIInv

(* A resumed task, the demo's start and the rounds of tasks 1 and 2.        *)
LEMMA TasksKept ==
  ASSUME OsalIInv, ezApp_StartOsalApp \/ Task1Function \/ Task2Function
  PROVE  OsalIInv'
  <1>1. "task1" \in OsalTasks /\ "task2" \in OsalTasks /\ "task3" \in OsalTasks
    BY OsalAppAssumption
  <1>2. Created(os)
    BY DEF OsalIInv
  <1>3. CASE ezApp_StartOsalApp
    <2> DEFINE a == ezOsal_TimerStart(os)   b == ezOsal_TaskResume(a, "task1")
               c == ezOsal_TaskResume(b, "task3")
    <2>1. Keeps(os, a)
      BY <1>2, TimerCalls
    <2>2. Keeps(a, b)
      BY <1>1, <2>1, TaskCalls DEF Keeps
    <2>3. Keeps(b, c)
      BY <1>1, <2>2, TaskCalls DEF Keeps
    <2>4. os' = c /\ UNCHANGED <<counts, elapsed, callback, task3>>
      BY <1>3 DEF ezApp_StartOsalApp
    <2> HIDE DEF a, b, c
    <2>5. Keeps(os, c)
      BY <2>1, <2>2, <2>3, FurtherCall
    <2>6. OsalCounts' /\ (FlagTwoSet' => FlagTwoSet)
      BY <2>4 DEF OsalIInv, OsalCounts, FlagTwoSet
    <2> QED
      BY <2>4, <2>5, <2>6, KeptByCalls
  <1>4. ASSUME NEW t \in {"task1", "task2"}, NEW fifth, Keeps(os, fifth), Round(t, fifth)
        PROVE  OsalIInv'
    <2> DEFINE o == IF counts'[t] = 5 THEN fifth ELSE os   p == ezOsal_TaskDelay(o)
    <2>1. Keeps(os, o)
      BY <1>2, <1>4, Unchanged
    <2>2. os' = p /\ counts' = [counts EXCEPT ![t] = (counts[t] + 1) % CountRange]
          /\ UNCHANGED <<elapsed, callback, task3>>
      BY <1>4 DEF Round
    <2> HIDE DEF o
    <2>3. Keeps(o, p)
      BY <1>1, <2>1, TaskCalls DEF Keeps
    <2> HIDE DEF p
    <2>4. Keeps(os, p)
      BY <2>1, <2>3, FurtherCall
    <2>5. (counts[t] + 1) % CountRange \in 0 .. CountRange - 1
      <3> DEFINE c == counts[t]
      <3>1. c \in 0 .. CountRange - 1 /\ CountRange \in Nat \ {0}
        BY OsalAppAssumption DEF OsalIInv, OsalCounts
      <3> HIDE DEF c
      <3>2. (c + 1) % CountRange \in 0 .. CountRange - 1
        BY <3>1
      <3> QED
        BY <3>2 DEF c
    <2>6. OsalCounts' /\ (FlagTwoSet' => FlagTwoSet)
      BY <2>2, <2>5 DEF OsalIInv, OsalCounts, FlagTwoSet
    <2> QED
      BY <2>2, <2>4, <2>6, KeptByCalls
  <1>5. CASE Task1Function
    <2>1. Keeps(os, ezOsal_TaskResume(os, "task2"))
      BY <1>1, <1>2, TaskCalls
    <2> QED
      BY <1>4, <1>5, <2>1 DEF Task1Function
  <1>6. CASE Task2Function
    <2>1. Keeps(os, ezOsal_TaskDelete(os, "task1"))
      BY <1>1, <1>2, TaskCalls
    <2> QED
      BY <1>4, <1>6, <2>1 DEF Task2Function
  <1> QED
    BY <1>3, <1>5, <1>6

(* The timer's callback, in its two parts.                                 *)
LEMMA TimerKept ==
  ASSUME OsalIInv, TimerElapses \/ TimerElapseCallback
  PROVE  OsalIInv'
  <1>1. /\ "task2" \in OsalTasks /\ MaxElapsed \in Nat
        /\ FLAG0 \in OsalFlags /\ FLAG1 \in OsalFlags /\ FLAG2 \in OsalFlags
    BY OsalAppAssumption
  <1>2. Created(os) /\ elapsed \in 0 .. MaxElapsed
    BY DEF OsalIInv, OsalCounts
  <1>3. CASE TimerElapses
    <2>1. /\ callback = "none" /\ elapsed < MaxElapsed /\ callback' = "running"
          /\ UNCHANGED <<counts, elapsed, task3>>
      BY <1>3 DEF TimerElapses
    <2>2. OsalCounts'
      BY <2>1 DEF OsalIInv, OsalCounts
    <2>3. CASE elapsed = 4
      <3>1. os' = ezOsal_EventSet(os, {FLAG2})
        BY <1>3, <2>3 DEF TimerElapses
      <3>2. {FLAG2} \in SUBSET OsalFlags /\ FLAG2 \in {FLAG2}
        BY <1>1
      <3> QED
        BY <2>1, <2>2, <3>1, <3>2, KeptBySet
    <2>4. CASE elapsed # 4
      <3>1. Keeps(os, ezOsal_TaskDelete(os, "task2")) /\ Keeps(os, os)
        BY <1>1, <1>2, TaskCalls, Unchanged
      <3>2. os' = ezOsal_TaskDelete(os, "task2") \/ os' = os
        BY <1>3, <2>4 DEF TimerElapses
      <3>3. Keeps(os, os')
        BY <3>1, <3>2
      <3>4. FlagTwoSet' => FlagTwoSet
        BY <1>2, <2>1, <2>4 DEF FlagTwoSet
      <3> QED
        BY <2>1, <2>2, <3>3, <3>4, KeptByCalls
    <2> QED
      BY <2>3, <2>4
  <1>4. CASE TimerElapseCallback
    <2> DEFINE mask == {IF elapsed % 2 = 0 THEN FLAG0 ELSE FLAG1}
    <2>1. mask \in SUBSET OsalFlags
      BY <1>1
    <2>2. /\ callback = "running" /\ callback' = "none" /\ elapsed' = elapsed + 1
          /\ os' = ezOsal_EventSet(os, mask) /\ UNCHANGED <<counts, task3>>
      BY <1>4 DEF TimerElapseCallback
    <2> HIDE DEF mask
    <2>3. elapsed < MaxElapsed
      BY <2>2 DEF OsalIInv, OsalCounts
    <2>4. elapsed + 1 \in 0 .. MaxElapsed
      BY <1>1, <1>2, <2>3
    <2>5. OsalCounts'
      BY <2>2, <2>4 DEF OsalIInv, OsalCounts
    <2>6. FlagTwoSet' => FlagTwoSet
      BY <1>2, <2>2 DEF FlagTwoSet
    <2> QED
      BY <2>1, <2>2, <2>5, <2>6, KeptBySet
  <1> QED
    BY <1>3, <1>4

(* A task that exists is deleted, whichever port deletes it.                *)
LEMMA DeletedTask ==
  ASSUME NEW o, Created(o), NEW t \in OsalTasks, o.task[t] = "ready"
  PROVE  ezOsal_TaskDelete(o, t).task[t] = "deleted"
  <1> DEFINE p == [o EXCEPT !.task[t] = "deleted"]
  <1>1. p.task[t] = "deleted" /\ p \in Kernel
    <2>1. Keeps(o, p)
      BY TaskSet
    <2>2. p.task = [o.task EXCEPT ![t] = "deleted"]
      BY DEF Created, Kernel
    <2>3. [o.task EXCEPT ![t] = "deleted"][t] = "deleted"
      BY DEF Created, Kernel
    <2> HIDE DEF p
    <2> QED
      BY <2>1, <2>2, <2>3 DEF Keeps, Created
  <1> HIDE DEF p
  <1>2. Success(p).task = p.task
    BY <1>1 DEF Success, Returns, Kernel
  <1>3. Exists(o.task[t])
    BY DEF Exists
  <1>4. IfExists(Exists(o.task[t]), Success(p), o) = Success(p)
        /\ IfLegal(Exists(o.task[t]), p, o) = Success(p)
    BY <1>3 DEF IfExists, IfLegal
  <1> QED
    BY <1>1, <1>2, <1>4, OnEitherPort
       DEF p, ezOsal_TaskDelete, ezOsal_FreeRTOSTaskDelete, ezOsal_ThreadXTaskDelete

(* A step of task 3 that keeps the counts: what remains to be shown.        *)
LEMMA Task3Step ==
  ASSUME OsalIInv, UNCHANGED <<counts, elapsed, callback>>, NEW p, os' = p, Created(p),
         p.waiting => task3'.at = "waiting", p.event = "deleted" => p.task["task3"] = "deleted",
         FlagTwoSet => \/ FLAG2 \in p.flags
                       \/ task3'.at = "waiting" /\ ~p.waiting /\ FLAG2 \in p.got
                       \/ task3'.at = "seen" /\ FLAG2 \in task3'.bit_mask
                       \/ task3'.at \in {"stop timer", "stop itself"}
                       \/ p.task["task3"] = "deleted"
  PROVE  OsalIInv'
  <1>1. Created(os)'
    BY DEF Created, Kernel
  <1>2. OsalCounts'
    BY DEF OsalIInv, OsalCounts
  <1>3. OsalWaits' /\ OsalUsed'
    BY DEF OsalWaits, OsalUsed
  <1>4. FlagTwoSet' => FlagTwoSet
    BY DEF FlagTwoSet
  <1>5. TimerFlagKept'
    BY <1>4 DEF TimerFlagKept
  <1> QED
    BY <1>1, <1>2, <1>3, <1>5 DEF OsalIInv

LEMMA WaitsKept ==
  ASSUME OsalIInv, Task3Function, Waits
  PROVE  OsalIInv'
  <1> DEFINE p == ezOsal_EventWait(os, OsalFlags)
  <1>1. Created(os) /\ os.event \in {"created", "deleted"} /\ os.waiting \in BOOLEAN
    BY DEF OsalIInv, Created, Kernel
  <1>2. Awaited(os, p)
    BY <1>1, EventWaitCall
  <1>3. /\ os' = p /\ task3.at = "wait" /\ UNCHANGED <<counts, elapsed, callback>>
        /\ p.waiting => task3' = [at |-> "waiting", bit_mask |-> {}]
        /\ ~p.waiting => task3' = [at |-> "seen", bit_mask |-> p.got]
        /\ os.task["task3"] = "ready"
    BY DEF Waits, GoesOn, Task3Function
  <1> HIDE DEF p
  <1>4. os.event = "created" /\ ~os.waiting
    BY <1>1, <1>3 DEF OsalIInv, OsalUsed, OsalWaits
  <1>5. /\ Created(p) /\ p.task = os.task /\ p.event = os.event
        /\ os.flags = {} => p.waiting
        /\ os.flags # {} => p.got = os.flags /\ p.waiting = os.waiting
    BY <1>2, <1>4 DEF Awaited
  <1>6. FlagTwoSet => FLAG2 \in os.flags
    BY <1>3, <1>4 DEF OsalIInv, TimerFlagKept
  <1>7. p.waiting => task3'.at = "waiting"
    BY <1>3
  <1>8. p.event # "deleted"
    BY <1>4, <1>5
  <1>9. FlagTwoSet => task3'.at = "seen" /\ FLAG2 \in task3'.bit_mask
    BY <1>3, <1>4, <1>5, <1>6
  <1> QED
    BY <1>3, <1>5, <1>7, <1>8, <1>9, Task3Step

LEMMA WakesKept ==
  ASSUME OsalIInv, Task3Function, Wakes
  PROVE  OsalIInv'
  <1>1. /\ Created(os) /\ os.event \in {"created", "deleted"} /\ os.waiting \in BOOLEAN
        /\ os.flags \in SUBSET OsalFlags /\ os.got \in SUBSET OsalFlags
    BY DEF OsalIInv, Created, Kernel
  <1>2. /\ task3.at = "waiting" /\ UNCHANGED <<counts, elapsed, callback>>
        /\ os.task["task3"] = "ready"
    BY DEF Wakes, Task3Function
  <1>3. os.event # "deleted"
    BY <1>2 DEF OsalIInv, OsalUsed
  <1>4. FlagTwoSet => FLAG2 \in os.flags \/ (~os.waiting /\ FLAG2 \in os.got)
    BY <1>2 DEF OsalIInv, TimerFlagKept
  <1>5. CASE ~os.waiting /\ GoesOn("seen", os.got) /\ UNCHANGED os
    <2>1. task3'.at = "seen" /\ task3'.bit_mask = os.got /\ os' = os
      BY <1>5 DEF GoesOn
    <2> QED
      BY <1>1, <1>2, <1>3, <1>4, <1>5, <2>1, Task3Step
  <1>6. CASE os.waiting /\ GoesOn("wait", {}) /\ os' = [os EXCEPT !.waiting = FALSE]
    <2> DEFINE p == [os EXCEPT !.waiting = FALSE]
    <2>1. Created(p) /\ ~p.waiting /\ p.event = os.event /\ p.flags = os.flags
      BY <1>1 DEF Created, Kernel
    <2>2. os' = p
      BY <1>6
    <2> HIDE DEF p
    <2> QED
      BY <1>2, <1>3, <1>4, <1>6, <2>1, <2>2, Task3Step
  <1> QED
    BY <1>5, <1>6 DEF Wakes

LEMMA ClearsKept ==
  ASSUME OsalIInv, Task3Function, Clears
  PROVE  OsalIInv'
  <1> DEFINE seen == task3.bit_mask
             flag == IF FLAG0 \in seen THEN FLAG0 ELSE IF FLAG1 \in seen THEN FLAG1 ELSE FLAG2
             delayed == ezOsal_TaskDelay(os)   p == ezOsal_EventClear(os, {flag})
  <1>1. /\ Created(os) /\ os.event \in {"created", "deleted"} /\ os.waiting \in BOOLEAN
    BY DEF OsalIInv, Created, Kernel
  <1>2. /\ task3.at = "seen" /\ UNCHANGED <<counts, elapsed, callback>>
        /\ os.task["task3"] = "ready"
    BY DEF Clears, Task3Function
  <1>3. os.event # "deleted" /\ ~os.waiting
    BY <1>1, <1>2 DEF OsalIInv, OsalUsed, OsalWaits
  <1>4. FlagTwoSet => FLAG2 \in os.flags \/ FLAG2 \in seen
    BY <1>2 DEF OsalIInv, TimerFlagKept
  <1>5. \/ seen = {} /\ os' = delayed
        \/ /\ seen # {} /\ os' = p
           /\ GoesOn(IF flag = FLAG2 THEN "stop timer" ELSE "seen", seen \ {flag})
    BY DEF Clears
  <1>6. CASE seen = {} /\ os' = delayed
    <2>1. Keeps(os, delayed)
      BY <1>1, TaskCalls, OsalAppAssumption
    <2> HIDE DEF delayed
    <2>2. /\ Created(delayed) /\ delayed.event = os.event /\ delayed.flags = os.flags
          /\ delayed.waiting = os.waiting
      BY <2>1 DEF Keeps, SameEvents
    <2> QED
      BY <1>2, <1>3, <1>4, <1>6, <2>2, Task3Step
  <1>7. ASSUME seen # {}, os' = p, GoesOn(IF flag = FLAG2 THEN "stop timer" ELSE "seen", seen \ {flag})
        PROVE  OsalIInv'
    <2>1. Cleared(os, p, {flag})
      BY <1>1, EventClearCall
    <2>2. task3' = [at |-> IF flag = FLAG2 THEN "stop timer" ELSE "seen", bit_mask |-> seen \ {flag}]
      BY <1>7 DEF GoesOn
    <2> HIDE DEF p, flag, seen
    <2>3. /\ Created(p) /\ p.event = os.event /\ p.waiting = os.waiting /\ p.task = os.task
          /\ os.flags \ {flag} \subseteq p.flags
      BY <2>1 DEF Cleared
    <2>4. FlagTwoSet => \/ FLAG2 \in p.flags
                        \/ task3'.at = "seen" /\ FLAG2 \in task3'.bit_mask
                        \/ task3'.at \in {"stop timer", "stop itself"}
      <3>1. CASE flag = FLAG2
        BY <3>1, <2>2
      <3>2. CASE flag # FLAG2
        <4>1. task3'.at = "seen" /\ task3'.bit_mask = seen \ {flag}
          BY <3>2, <2>2
        <4> QED
          BY <3>2, <4>1, <1>4, <2>3
      <3> QED
        BY <3>1, <3>2
    <2> QED
      BY <1>2, <1>3, <1>7, <2>3, <2>4, Task3Step
  <1> QED
    BY <1>5, <1>6, <1>7

LEMMA StopsKept ==
  ASSUME OsalIInv, Task3Function, Stops
  PROVE  OsalIInv'
  <1>0. "task3" \in OsalTasks
    BY OsalAppAssumption
  <1>1. Created(os) /\ os.waiting \in BOOLEAN
    BY DEF OsalIInv, Created, Kernel
  <1>2. /\ task3.at # "waiting" /\ UNCHANGED <<counts, elapsed, callback>>
        /\ os.task["task3"] = "ready"
    BY DEF Stops, Task3Function
  <1>3. os.event # "deleted" /\ ~os.waiting
    BY <1>1, <1>2 DEF OsalIInv, OsalUsed, OsalWaits
  <1>4. CASE GoesOn("stop itself", {}) /\ os' = ezOsal_TimerDelete(os)
    <2> DEFINE p == ezOsal_TimerDelete(os)
    <2>1. Keeps(os, p)
      BY <1>1, TimerCalls
    <2>2. os' = p /\ task3'.at = "stop itself"
      BY <1>4 DEF GoesOn
    <2> HIDE DEF p
    <2>3. Created(p) /\ p.event = os.event /\ p.waiting = os.waiting
      BY <2>1 DEF Keeps, SameEvents
    <2> QED
      BY <1>2, <1>3, <2>2, <2>3, Task3Step
  <1>5. CASE os' = ezOsal_TaskDelete(os, "task3")
    <2> DEFINE p == ezOsal_TaskDelete(os, "task3")
    <2>1. Keeps(os, p) /\ p.task["task3"] = "deleted"
      BY <1>0, <1>1, <1>2, TaskCalls, DeletedTask
    <2>2. os' = p
      BY <1>5
    <2> HIDE DEF p
    <2>3. Created(p) /\ p.event = os.event /\ p.waiting = os.waiting
      BY <2>1 DEF Keeps, SameEvents
    <2> QED
      BY <1>2, <1>3, <2>1, <2>2, <2>3, Task3Step
  <1> QED
    BY <1>4, <1>5 DEF Stops

LEMMA OthersKept ==
  ASSUME OsalIInv, OtherCalls
  PROVE  OsalIInv'
  <1>1. Created(os)
    BY DEF OsalIInv
  <1>2. os.task["task3"] = "deleted" /\ UNCHANGED <<counts, elapsed, callback, task3>>
    BY DEF OtherCalls
  <1>3. CASE os' = ezOsal_EventDelete(os)
    <2> DEFINE p == ezOsal_EventDelete(os)
    <2>1. Created(p) /\ p.task = os.task /\ (p.waiting => os.waiting /\ p.event = "created")
      BY <1>1, EventDeleteCall
    <2>2. os' = p
      BY <1>3
    <2> HIDE DEF p
    <2> QED
      BY <1>2, <2>1, <2>2, Task3Step DEF OsalIInv, OsalWaits
  <1>4. CASE Keeps(os, os')
    <2>1. OsalCounts' /\ (FlagTwoSet' => FlagTwoSet)
      BY <1>2 DEF OsalIInv, OsalCounts, FlagTwoSet
    <2> QED
      BY <1>2, <1>4, <2>1, KeptByCalls
  <1>5. \/ os' = ezOsal_SemaphoreTake(os) \/ os' = ezOsal_SemaphoreDelete(os)
        \/ os.semaphore <= MaxCount /\ os' = ezOsal_SemaphoreGive(os)
        \/ os' = ezOsal_TimerStop(os) \/ os' = ezOsal_EventDelete(os)
    BY DEF OtherCalls
  <1> QED
    BY <1>1, <1>3, <1>4, <1>5, SemaphoreCalls, TimerCalls

LEMMA OsalKept ==
  ASSUME OsalIInv, [OsalNext]_osalVars
  PROVE  OsalIInv'
  <1>1. CASE UNCHANGED osalVars
    <2>1. os' = os /\ UNCHANGED <<counts, elapsed, callback, task3>>
      BY <1>1 DEF osalVars
    <2>2. Keeps(os, os')
      BY <2>1, Unchanged DEF OsalIInv
    <2>3. OsalCounts' /\ (FlagTwoSet' => FlagTwoSet)
      BY <2>1 DEF OsalIInv, OsalCounts, FlagTwoSet
    <2> QED
      BY <2>1, <2>2, <2>3, KeptByCalls
  <1>2. CASE OsalNext
    BY <1>2, TasksKept, TimerKept, WaitsKept, WakesKept, ClearsKept, StopsKept, OthersKept
       DEF OsalNext, Task3Function
  <1> QED
    BY <1>1, <1>2

(* Whatever the tasks, the timer and the kernel do, on either port, the     *)
(* objects of the demo stay well formed, a task waits only where task 3     *)
(* does and on flags that exist, and the semaphore keeps to its bound.      *)
(* The pool of the ThreadX port has to have room for the three stacks.      *)
THEOREM OsalTypeCorrect ==
  ASSUME PoolStacks >= 3
  PROVE  OsalSpec => []OsalTypeOK
  <1>1. OsalInit => OsalIInv
    BY OsalStarts
  <1>2. OsalIInv /\ [OsalNext]_osalVars => OsalIInv'
    BY OsalKept
  <1>3. OsalIInv => OsalTypeOK
    BY OsalIInvTyped
  <1> QED
    BY <1>1, <1>2, <1>3, PTL DEF OsalSpec

(* The flag the timer sets only once reaches task 3, whenever it is set:    *)
(* while task 3 waits, between its wait and its waking, while it clears     *)
(* other flags or is delayed, and on the port that clears the flags a wait  *)
(* reports as on the one that leaves them set.                              *)
THEOREM FlagNeverLost ==
  ASSUME PoolStacks >= 3
  PROVE  OsalSpec => []TimerFlagKept
  <1>1. OsalInit => OsalIInv
    BY OsalStarts
  <1>2. OsalIInv /\ [OsalNext]_osalVars => OsalIInv'
    BY OsalKept
  <1>3. OsalIInv => TimerFlagKept
    BY DEF OsalIInv
  <1> QED
    BY <1>1, <1>2, <1>3, PTL DEF OsalSpec

-----------------------------------------------------------------------------
(* The parts together.  A step is one of a single part, and leaves the     *)
(* invariants of the others as they were.                                  *)

ServicesIInv == BusIInv /\ CliTIInv /\ CliTracks /\ SmIInv /\ DmIInv /\ OsalIInv

LEMMA ServicesStart ==
  ASSUME ServicesInit, Len(CliCommands) # 0, PoolStacks >= 3
  PROVE  ServicesIInv
  <1>1. BusInit /\ ezCli_Init /\ ezSM_Init /\ ezDataModel_Initialize /\ OsalInit
    BY DEF ServicesInit
  <1> QED
    BY <1>1, BusStart, InitCliTIInv, InitCliTracks, InitSmIInv, InitDmIInv, OsalStarts
       DEF ServicesIInv

LEMMA ServicesStep ==
  ASSUME Len(CliCommands) # 0, ServicesIInv, [ServicesNext]_servicesVars
  PROVE  ServicesIInv'
  <1>1. /\ [BusNext]_busVars /\ [CliNext]_cliVars /\ [SmNext]_smVars /\ [DmNext]_dmVars
        /\ [OsalNext]_osalVars
    BY Zenon DEF ServicesNext, BusAlone, CliAlone, MachineAlone, ModelAlone, OsalAlone, servicesVars
  <1>2. BusIInv'
    BY <1>1, BusStep DEF ServicesIInv
  <1>3. CliTIInv' /\ CliTracks'
    BY <1>1, NextCliTIInv, NextCliTracks DEF ServicesIInv
  <1>4. SmIInv' /\ DmIInv'
    BY <1>1, NextSmIInv, NextDmIInv DEF ServicesIInv
  <1>5. OsalIInv'
    BY <1>1, OsalKept DEF ServicesIInv
  <1> QED
    BY <1>2, <1>3, <1>4, <1>5 DEF ServicesIInv

LEMMA CliTIInvTyped ==
  ASSUME CliTIInv
  PROVE  CliTypeOK
  <1>1. PICK a : Kept(cli, a) /\ cli.state \in {"COMMAND", "ARGUMENT", "VALUE", "ERROR"}
    BY DEF CliTIInv, CliTyped, ShownTo
  <1> QED
    BY <1>1 DEF CliTIInv, CliTypeOK, Kept, Places

LEMMA DmIInvTyped ==
  ASSUME DmIInv
  PROVE  DmTypeOK
  BY PointsApart DEF DmIInv, DmTypeOK, TableOK, BuffersOK, MarksOK

(* Every part of the services keeps its types, whichever of them runs.      *)
THEOREM ServicesTypeCorrect ==
  ASSUME Len(CliCommands) # 0, PoolStacks >= 3
  PROVE  ServicesSpec => []ServicesTypeOK
  <1>1. ServicesInit => ServicesIInv
    BY ServicesStart
  <1>2. ServicesIInv /\ [ServicesNext]_servicesVars => ServicesIInv'
    BY ServicesStep
  <1>3. ServicesIInv => ServicesTypeOK
    BY CliTIInvTyped, DmIInvTyped, OsalIInvTyped DEF ServicesIInv, ServicesTypeOK, BusIInv, SmIInv
  <1> QED
    BY <1>1, <1>2, <1>3, PTL DEF ServicesSpec

(* The parts share no variable: a behaviour of the services is one of each  *)
(* of them, which stutters while another part moves.                        *)
LEMMA ServicesAreEach == ServicesSpec => BusSpec /\ CliSpec /\ SmSpec /\ DmSpec
  <1>1. ServicesInit => BusInit /\ ezCli_Init /\ ezSM_Init /\ ezDataModel_Initialize
    BY DEF ServicesInit
  <1>2. [ServicesNext]_servicesVars
          => [BusNext]_busVars /\ [CliNext]_cliVars /\ [SmNext]_smVars /\ [DmNext]_dmVars
    BY Zenon DEF ServicesNext, BusAlone, CliAlone, MachineAlone, ModelAlone, OsalAlone, servicesVars
  <1> QED
    BY <1>1, <1>2, PTL DEF ServicesSpec, BusSpec, CliSpec, SmSpec, DmSpec

(* What each part promises on its own it keeps beside the others.           *)
THEOREM ServicesKeepTheirPromises ==
  ServicesSpec => /\ [](CliCanRecover /\ CliObeys) /\ []SmSettles
                  /\ [](DmFindsEvery /\ DmCleanMeansSeen) /\ BusImplementsAnnouncer
  BY ServicesAreEach, AlwaysRecovers, CliAlwaysObeys, AlwaysSettles, DmAlwaysFinds,
     DmCleanIsAlwaysSeen, AnnouncerRefinement, PTL
=============================================================================
