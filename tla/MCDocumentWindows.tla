-------------------------- MODULE MCDocumentWindows --------------------------
(* Two windows and two documents, moved either with their pages or without; *)
(* then they may name the same file.  A behaviour does the one or the other.*)
EXTENDS MCDocumentTabs, DocumentTransfer

CONSTANTS readme, README

MCPath == {readme, README}
MCSpellings == [p \in MCPath |-> readme]

VARIABLE focus

ASSUME TransferAssumption

WindowsInit ==
  /\ focus \in {"tabs", "moves"}
  /\ TabsInit /\ Init

WindowsNext ==
  \/ focus = "tabs" /\ TabsNext /\ UNCHANGED <<focus, vars>>
  \/ focus = "moves" /\ Next /\ UNCHANGED <<focus, tabsVars>>

WindowsSpec == WindowsInit /\ [][WindowsNext]_<<focus, tabsVars, vars>>

=============================================================================
