------------------------- MODULE MCAutomationSweeps -------------------------
\* A rule of each kind; the date sweeps may overlap.
EXTENDS AutomationSweepsProps, TLC
MCDelays == {-1}
=============================================================================
