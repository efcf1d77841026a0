----------------------------- MODULE MCUsbTasks -----------------------------
(***************************************************************************)
(* Characters are strings of length one.                                   *)
(***************************************************************************)
EXTENDS UsbTasks

MCSymbols == {CR, LF, Nul, NoChar, "R", "B"}
MCWriters == {"receiver", "blink"}
MCReceived == <<"R">>
MCTests == <<<<"B">>>>
MCHostText == <<CR, LF, CR, LF>>
=============================================================================
