---------------------------- MODULE MC_Launcher ----------------------------
(* Instances of Launcher for TLC. *)
EXTENDS Launcher, TLC

CONSTANTS l1, l2

Sys(platform, enhancements, proxy) ==
  [platform |-> platform, enhancements |-> enhancements, proxy |-> proxy]
MCSystems == {Sys("windows", TRUE, FALSE), Sys("windows", TRUE, TRUE), Sys("macos", TRUE, FALSE),
              Sys("macos", FALSE, FALSE)}
MCLimit == "user" :> 2 @@ "fault" :> 1
=============================================================================
