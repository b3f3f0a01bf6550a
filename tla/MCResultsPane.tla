---------------------------- MODULE MCResultsPane ----------------------------
(***************************************************************************)
(* ResultsPane on small Result Sets and pages: a page holds more rows than *)
(* the pane, the largest Result Set has a second, shorter page, and the    *)
(* terminal has two sizes.  The Keybindings are not opened over the        *)
(* Export Wizard.                                                          *)
(***************************************************************************)
EXTENDS ResultsPane

CONSTANTS
  MaxMarks,  \* bound: Marked Rows
  MaxModals  \* bound: modals on the stack

Few == Cardinality(marked') <= MaxMarks /\ Len(modals') <= MaxModals
MCRSpec == RInit /\ [][RNext /\ Few]_rvars

=============================================================================
