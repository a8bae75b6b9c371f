---------------------------- MODULE MCLauncher ----------------------------
(* Launcher on a small set of machines: one that works, and each difference *)
(* from it alone.                                                           *)
EXTENDS Launcher

Base == [platform |-> "linux", arch |-> "x64", packaged |-> TRUE,
         vendored |-> FALSE, tools |-> TRUE, agent |-> "", bunPath |-> FALSE,
         path |-> <<"", "usr">>, markers |-> {}, args |-> <<"other">>,
         tty |-> TRUE, disabled |-> FALSE]

MCHosts ==
  {Base,
   [Base EXCEPT !.platform = "android", !.arch = "arm64"],
   [Base EXCEPT !.platform = "aix"],
   [Base EXCEPT !.arch = "ia32"],
   [Base EXCEPT !.packaged = FALSE],
   [Base EXCEPT !.packaged = FALSE, !.vendored = TRUE],
   [Base EXCEPT !.path = <<"local", "usr">>, !.markers = {"bun"}],
   [Base EXCEPT !.agent = "bun", !.tools = FALSE],
   [Base EXCEPT !.agent = "npm", !.args = <<"other", "help">>],
   [Base EXCEPT !.bunPath = TRUE, !.args = <<"server">>],
   [Base EXCEPT !.tty = FALSE]}
===========================================================================
