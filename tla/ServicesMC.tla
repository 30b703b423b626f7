---------------------------- MODULE ServicesMC ----------------------------
(***************************************************************************)
(* The services above the kernel layer, model-checked in one run: the event *)
(* bus, the command line, the state machine, the data model and the OSAL    *)
(* demo.  They share no state in the code, so a behaviour is one of a       *)
(* single part, chosen at the start; the others keep their initial state.   *)
(***************************************************************************)
EXTENDS EventBus, Cli, StateMachine, DataModel, OsalApp, TLC

VARIABLE part

-----------------------------------------------------------------------------
(* Constants. *)

CliTable(name, arguments, callback_) ==
  [name |-> <<name>>, arguments |-> arguments, callback |-> callback_]
MCCliCommands ==
  <<CliTable("h", {}, "hello"), CliTable("e", {<<"-", "s">>}, "echo"),
    CliTable("o", {}, "start_osal_demo"), CliTable("w", {}, "start_task_worker_demo")>>

\* An unknown command; names that are known, unknown, or no names; values that
\* are plain, quoted with a blank, quoted, or left open; two arguments, which
\* fill the buffer up to its last byte, and beyond it.
MCLines ==
  LET s == Word(<<"-", "s">>, 0)   x == Word(<<"-", "x">>, 0)   a == Word(<<"a">>, 0)
      blank == Word(<<"a", SPACE, "b">>, 2)   quoted == Word(<<"a", "b">>, 2)
      words == {<<s>>, <<x>>, <<a>>, <<s, a>>, <<s, blank>>, <<s, quoted>>,
                <<s, a, s, a>>, <<s, blank, s, blank>>}
  IN {CommandLine(<<c>>, << >>, t) : c \in {"h", "e", "o", "x"}, t \in BOOLEAN}
       \cup {CommandLine(<<"e">>, w, t) : w \in words, t \in BOOLEAN}
       \cup {CommandLine(<<"w">>, <<s>>, t) : t \in BOOLEAN}
       \cup {CommandLine(<<"e">>, <<s, Word(<<"a", SPACE>>, 1)>>, FALSE)}

\* A state with a sub machine defers its events; one can be entered or left
\* without a function.
MCSmStates == "main" :> {"a", "b", "c"} @@ "sub" :> {"p", "q"}
MCSmTable ==
  LET has(f) == [enter |-> "enter" \in f, exit |-> "exit" \in f, action |-> "action" \in f,
                 handle_event |-> "handle" \in f, sub_sm |-> "sub" \in f]
  IN "a" :> has({"enter", "exit", "handle", "action"}) @@ "b" :> has({"enter", "sub"})
       @@ "c" :> has({"exit", "handle"}) @@ "p" :> has({"enter", "exit", "action"})
       @@ "q" :> has({"handle"})

Point(index, size) == [index |-> index, size |-> size]
\* The last two fail an assertion: their indices fall, and they do not fit.
MCPointTables ==
  {<<Point(3, 1)>>, <<Point(1, 2), Point(4, 1)>>, <<Point(0, 1), Point(2, 1), Point(6, 1)>>,
   <<Point(2, 1), Point(1, 1)>>, <<Point(1, 2), Point(2, 2), Point(3, 1)>>}

-----------------------------------------------------------------------------
servicesVars == <<part, busVars, cliVars, smVars, dmVars, osalVars>>

\* A part that is not the chosen one has one initial state.
ServicesInit ==
  /\ part \in {"bus", "cli", "machine", "model", "osal"}
  /\ BusInit /\ ezCli_Init /\ ezSM_Init /\ ezDataModel_Initialize /\ OsalInit
  /\ part # "machine" => curr_state = ("main" :> "a" @@ "sub" :> "p") /\ unentered = {}
  /\ part # "model" => Len(data_points) = 1
  /\ part # "osal" => os.interface = "freertos"

BusAlone == part = "bus" /\ UNCHANGED <<part, cliVars, smVars, dmVars, osalVars>>
CliAlone == part = "cli" /\ UNCHANGED <<part, busVars, smVars, dmVars, osalVars>>
MachineAlone == part = "machine" /\ UNCHANGED <<part, busVars, cliVars, dmVars, osalVars>>
ModelAlone == part = "model" /\ UNCHANGED <<part, busVars, cliVars, smVars, osalVars>>
OsalAlone == part = "osal" /\ UNCHANGED <<part, busVars, cliVars, smVars, dmVars>>

ServicesNext ==
  \/ BusAlone /\ BusNext
  \/ CliAlone /\ CliNext
  \/ MachineAlone /\ SmNext
  \/ ModelAlone /\ DmNext
  \/ OsalAlone /\ OsalNext

\* BusFairness and OsalFairness, of the part that runs.
ServicesFairness ==
  /\ WF_servicesVars(BusAlone /\ ezEventBus_Run)
  /\ WF_servicesVars(OsalAlone /\ ~os.undefined /\ Task3Function)
  /\ WF_servicesVars(OsalAlone /\ ~os.undefined /\ TimerElapses)
  /\ WF_servicesVars(OsalAlone /\ ~os.undefined /\ TimerElapseCallback)

ServicesSpec == ServicesInit /\ [][ServicesNext]_servicesVars /\ ServicesFairness

\* The type invariants of the five parts.
ServicesTypeOK ==
  /\ part = "bus" => BusTypeOK
  /\ part = "cli" => CliTypeOK
  /\ part = "machine" => SmTypeOK
  /\ part = "model" => DmTypeOK
  /\ part = "osal" => OsalTypeOK
=============================================================================
