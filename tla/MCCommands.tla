----------------------------- MODULE MCCommands -----------------------------
(* Small instances of Commands: four processes.                            *)
EXTENDS Commands

Cpp(c) == [cmd |-> c, lang |-> "C++"]
C(c)   == [cmd |-> c, lang |-> "C"]

MCScenarios == {
    <<Cpp("server"), Cpp("pub"), Cpp("pub"), Cpp("listen")>>,
    <<Cpp("server"), Cpp("server"), C("server"), Cpp("kill")>>,
    <<Cpp("server"), Cpp("kill"), Cpp("show"), Cpp("pub")>>,
    <<C("server"), C("show"), C("kill"), Cpp("check")>>,
    <<C("server"), C("listen"), Cpp("check"), C("pub")>>,
    <<Cpp("server"), Cpp("version"), Cpp("server"), Cpp("kill")>>}
=============================================================================
