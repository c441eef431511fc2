------------------------------ MODULE Services ------------------------------
(***************************************************************************)
(* The consoles, the configuration, the import and the migration detection *)
(* as parts of one worker.  They share no state, so each takes its steps   *)
(* with the others at their beginnings, and focus says whose turn the      *)
(* behaviour is.                                                           *)
(***************************************************************************)
EXTENDS Console, WorkerConfig, Importer, Detection

VARIABLE focus

servicesVars == <<focus, consoleVars, configVars, importVars, detectVars>>

Init ==
  /\ focus \in {"console", "config", "import", "detect"}
  /\ ConsoleInit /\ ConfigInit /\ ImportInit /\ DetectInit

OnlyConsole == focus = "console" /\ ConsoleNext /\ UNCHANGED <<focus, configVars, importVars, detectVars>>
OnlyConfig == focus = "config" /\ ConfigNext /\ UNCHANGED <<focus, consoleVars, importVars, detectVars>>
OnlyImport == focus = "import" /\ ImportNext /\ UNCHANGED <<focus, consoleVars, configVars, detectVars>>
OnlyDetect == focus = "detect" /\ DetectNext /\ UNCHANGED <<focus, consoleVars, configVars, importVars>>

Next == OnlyConsole \/ OnlyConfig \/ OnlyImport \/ OnlyDetect

Spec == Init /\ [][Next]_servicesVars /\ ConsoleFairness

\* Each of the four keeps the types of its state (console.go:8, config.go:20,
\* sftp.go:19, detector.go:17).
ServicesTypeOK == ConsoleTypeOK /\ ConfigTypeOK /\ ImportTypeOK /\ DetectTypeOK
=============================================================================
