----------------------------- MODULE MCDisplay -----------------------------
(* A panel of two pages of three rows with a font of two characters.       *)
EXTENDS Display

MCFont == {[i \in {0} |-> 1], [i \in {0} |-> 6]}

(* All dark or all lit.                                                    *)
MCPowerUpPanels == {[pg \in PageSet |-> [x \in ColumnSet |-> byte]] : byte \in {0, 7}}
=============================================================================
