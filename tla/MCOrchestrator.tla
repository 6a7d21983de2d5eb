--------------------------- MODULE MCOrchestrator ---------------------------
(***************************************************************************)
(* Small sets of files and configurations for TLC.                         *)
(***************************************************************************)
EXTENDS Orchestrator

File(kind, maps, ascii) == [kind |-> kind, maps |-> maps, asciiServer |-> ascii]

Setting(method, grab, reclaim) ==
    [target |-> TRUE, configured |-> TRUE, method |-> method, grab |-> grab, reclaim |-> reclaim]

\* Every kind of file, every way of mapping it, and a server name that raises.
EveryJob ==
    {File("iso", "typed", TRUE), File("disc", "typed", TRUE), File("file", "sources", TRUE),
     File("iso", "no", TRUE), File("disc", "typed", FALSE)}

\* The default power cycle and reclaim, IR one way and no reclaim, an IR
\* module both ways, and the two ways to decline.
EverySetting ==
    {Setting("cec", TRUE, TRUE), Setting("ir_remote", TRUE, FALSE), Setting("ir", TRUE, TRUE)}
        \union {[Setting("cec", TRUE, TRUE) EXCEPT !.target = FALSE],
                [Setting("cec", TRUE, TRUE) EXCEPT !.configured = FALSE]}

\* The default configuration alone.
DefaultSetting == {Setting("cec", TRUE, TRUE)}
IsoAndDisc == {File("iso", "typed", TRUE), File("disc", "sources", TRUE)}
=============================================================================
